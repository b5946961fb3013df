------------------------------ MODULE Bootstrap ------------------------------
(***************************************************************************)
(* main(): every process registers the first airport (tenant and admin in  *)
(* one transaction) before it serves.  Kubernetes runs several processes   *)
(* against one database and starts again those that exit, so they race for *)
(* the registration: the loser's INSERT waits, in PostgreSQL's unique      *)
(* index, for the winner's transaction to end, and then throws             *)
(* unique_violation or goes ahead.                                         *)
(*                                                                         *)
(* The connection made here is the only one the process ever makes:        *)
(* DatabaseManager keeps it in a static variable.                          *)
(***************************************************************************)
EXTENDS Naturals, FiniteSets

CONSTANTS
  Processes,
  Ids,       \* what generateUUID returns; stands for tenant and admin ids
  NoId,
  MaxFaults  \* bound on crashes, lost connections and database failures

ASSUME IdAssumption     == NoId \notin Ids
ASSUME FaultsAssumption == MaxFaults \in Nat

VARIABLES
  step,     \* where main is in each process
  session,  \* session[p]: DatabaseManager's connection
  id,       \* id[p]: the id of the airport p is registering
  inserted, \* tenant rows of open transactions
  insertedAdmins, \* tenants whose admin's row is in an open transaction
  sent,     \* transactions whose COMMIT is on its way to the server
  tenants,  \* committed rows of tenants
  admins,   \* tenants with a committed admin in users
  database, \* whether the server is up
  faults

vars == <<step, session, id, inserted, insertedAdmins, sent, tenants, admins,
          database, faults>>

rows == <<inserted, insertedAdmins, sent, tenants, admins>>

Registering == {"tenant", "admin", "commit", "committing"}

Init ==
  /\ step = [p \in Processes |-> "exited"]
  /\ session = [p \in Processes |-> "none"]
  /\ id = [p \in Processes |-> NoId]
  /\ inserted = {} /\ insertedAdmins = {} /\ sent = {}
  /\ tenants = {} /\ admins = {}
  /\ database = "up"
  /\ faults = 0

GoTo(p, s)  == step' = [step EXCEPT ![p] = s]
Forget(p)   == id' = [id EXCEPT ![p] = NoId]
InUse       == inserted \cup tenants \cup sent \cup {id[p] : p \in Processes}
(* Transaction i is gone from the server. *)
Discard(i) ==
  /\ inserted' = inserted \ {i} /\ insertedAdmins' = insertedAdmins \ {i}
  /\ sent' = sent \ {i}

-----------------------------------------------------------------------------
(* main. *)

Start(p) ==
  /\ step[p] = "exited"
  /\ GoTo(p, "connect")
  /\ UNCHANGED <<session, id, rows, database, faults>>

(* getConnection, the transaction and the UUIDs. *)
Connect(p) ==
  /\ step[p] = "connect" /\ database = "up"
  /\ session' = [session EXCEPT ![p] = "open"]
  /\ \E i \in Ids \ InUse : id' = [id EXCEPT ![p] = i]
  /\ GoTo(p, "tenant")
  /\ UNCHANGED <<rows, database, faults>>

(* Mutant of InsertTenant: each INSERT is a transaction of its own. *)
InsertTenantAutocommits(p) ==
  /\ step[p] = "tenant" /\ session[p] = "open" /\ tenants \cup inserted = {}
  /\ inserted' = inserted \cup {id[p]} /\ tenants' = {id[p]}
  /\ GoTo(p, "admin")
  /\ UNCHANGED <<session, id, insertedAdmins, sent, admins, database, faults>>

(* Waits while another transaction has inserted a row with the same code. *)
InsertTenant(p) ==
  /\ step[p] = "tenant" /\ session[p] = "open" /\ tenants \cup inserted = {}
  /\ inserted' = inserted \cup {id[p]}
  /\ GoTo(p, "admin")
  /\ UNCHANGED <<session, id, insertedAdmins, sent, tenants, admins, database, faults>>

InsertAdmin(p) ==
  /\ step[p] = "admin" /\ session[p] = "open" /\ admins \cup insertedAdmins = {}
  /\ insertedAdmins' = insertedAdmins \cup {id[p]}
  /\ GoTo(p, "commit")
  /\ UNCHANGED <<session, id, inserted, sent, tenants, admins, database, faults>>

Duplicate(p) == \/ step[p] = "tenant" /\ tenants # {}
                \/ step[p] = "admin" /\ admins # {}

(* Mutant of SkipExisting: the handler for unique_violation is missing. *)
SkipExistingExits(p) ==
  /\ Duplicate(p) /\ session[p] = "open"
  /\ Discard(id[p]) /\ Forget(p)
  /\ session' = [session EXCEPT ![p] = "none"]
  /\ GoTo(p, "exited")
  /\ UNCHANGED <<tenants, admins, database, faults>>

(* Mutant of SkipExisting: the transaction is not aborted. *)
SkipExistingLeaks(p) ==
  /\ Duplicate(p) /\ session[p] = "open"
  /\ GoTo(p, "serving")
  /\ UNCHANGED <<session, id, rows, database, faults>>

(* unique_violation: the transaction is aborted, the process serves. *)
SkipExisting(p) ==
  /\ Duplicate(p) /\ session[p] = "open"
  /\ Discard(id[p]) /\ Forget(p)
  /\ GoTo(p, "serving")
  /\ UNCHANGED <<session, tenants, admins, database, faults>>

Commit(p) ==
  /\ step[p] = "commit" /\ session[p] = "open"
  /\ sent' = sent \cup {id[p]}
  /\ GoTo(p, "committing")
  /\ UNCHANGED <<session, id, inserted, insertedAdmins, tenants, admins, database, faults>>

Committed(p) ==
  /\ step[p] = "committing" /\ session[p] = "open" /\ id[p] \in tenants
  /\ GoTo(p, "serving") /\ Forget(p)
  /\ UNCHANGED <<session, rows, database, faults>>

Failing(p) == \/ step[p] = "connect" /\ database = "down"
              \/ step[p] \in Registering /\ session[p] = "broken"

(* Mutant of Exit: every exception is taken for an airport that exists. *)
ExitSkipped(p) ==
  /\ Failing(p) /\ session[p] = "broken"
  /\ GoTo(p, "serving") /\ Forget(p)
  /\ UNCHANGED <<session, rows, database, faults>>

(* Any other exception: return 1. *)
Exit(p) ==
  /\ Failing(p)
  /\ session' = [session EXCEPT ![p] = "none"]
  /\ GoTo(p, "exited") /\ Forget(p)
  /\ UNCHANGED <<rows, database, faults>>

(* databaseHealthy tests a pointer; GET /health answers what it says. *)
databaseHealthy(p) == session[p] # "none"
Health(p) == IF databaseHealthy(p) THEN 200 ELSE 503

-----------------------------------------------------------------------------
(* PostgreSQL and the faults. *)

ServerCommits(i) ==
  /\ i \in sent
  /\ tenants' = tenants \cup (inserted \cap {i})
  /\ admins' = admins \cup (insertedAdmins \cap {i})
  /\ Discard(i)
  /\ UNCHANGED <<step, session, id, database, faults>>

(* The server learns that the client of a transaction is gone; a COMMIT    *)
(* that was sent before may or may not reach it.                           *)
ServerAborts(i) ==
  /\ i \in inserted
  /\ \A p \in Processes : id[p] = i => session[p] = "broken"
  /\ Discard(i)
  /\ UNCHANGED <<step, session, id, tenants, admins, database, faults>>

Fault == faults < MaxFaults /\ faults' = faults + 1

LoseSession(p) ==
  /\ Fault /\ session[p] = "open"
  /\ session' = [session EXCEPT ![p] = "broken"]
  /\ UNCHANGED <<step, id, rows, database>>

Crash(p) ==
  /\ Fault /\ step[p] # "exited"
  /\ session' = [session EXCEPT ![p] = "none"]
  /\ GoTo(p, "exited") /\ Forget(p)
  /\ UNCHANGED <<rows, database>>

DatabaseFails ==
  /\ Fault /\ database = "up"
  /\ database' = "down"
  /\ session' = [p \in Processes |-> IF session[p] = "open" THEN "broken" ELSE session[p]]
  /\ inserted' = {} /\ insertedAdmins' = {} /\ sent' = {}
  /\ UNCHANGED <<step, id, tenants, admins>>

DatabaseReturns ==
  /\ database = "down" /\ database' = "up"
  /\ UNCHANGED <<step, session, id, rows, faults>>

-----------------------------------------------------------------------------
Main(p) ==
  \/ Start(p) \/ Connect(p) \/ InsertTenant(p) \/ InsertAdmin(p)
  \/ SkipExisting(p) \/ Commit(p) \/ Committed(p) \/ Exit(p)

Server(i) == ServerCommits(i) \/ ServerAborts(i)

Next ==
  \/ \E p \in Processes : Main(p) \/ LoseSession(p) \/ Crash(p)
  \/ \E i \in Ids : Server(i)
  \/ DatabaseFails \/ DatabaseReturns

Spec == Init /\ [][Next]_vars

(* Kubernetes starts a container that has exited again and the database    *)
(* comes back; the server ends transactions nobody waits for.              *)
FairSpec ==
  /\ Spec
  /\ \A p \in Processes : WF_vars(Main(p))
  /\ \A i \in Ids : WF_vars(Server(i))
  /\ WF_vars(DatabaseReturns)

-----------------------------------------------------------------------------
(* Properties. *)

(* Type invariant; an id is held exactly while the airport is registered,  *)
(* a connection from the first step on.                                    *)
TypeOK ==
  /\ step \in [Processes -> {"exited", "connect", "serving"} \cup Registering]
  /\ session \in [Processes -> {"none", "open", "broken"}]
  /\ id \in [Processes -> Ids \cup {NoId}]
  /\ inserted \subseteq Ids /\ insertedAdmins \subseteq inserted
  /\ sent \subseteq insertedAdmins
  /\ tenants \subseteq Ids /\ admins \subseteq Ids
  /\ database \in {"up", "down"} /\ faults \in 0..MaxFaults
  /\ \A p \in Processes :
       /\ id[p] # NoId <=> step[p] \in Registering
       /\ session[p] = "none" <=> step[p] \in {"exited", "connect"}

(* However many processes race, crash or lose a COMMIT's answer, the       *)
(* airport is registered at most once, and never without its admin.        *)
AirportComplete == Cardinality(tenants) <= 1 /\ admins = tenants

(* A process that serves has registered the airport or found it registered:*)
(* /login works for the admin.                                             *)
ServingHasAirport ==
  \A p \in Processes : step[p] = "serving" => tenants # {} /\ admins # {}

(* However the processes race and fail, the first airport comes into being *)
(* once and whole, before anybody serves, and is never replaced.           *)
Airport == INSTANCE FirstAirport WITH serving <- {p \in Processes : step[p] = "serving"}
ImplementsFirstAirport == Airport!Spec

(* Every process ends up serving once the faults are over: neither the     *)
(* loser of the race nor one whose COMMIT was in doubt keeps exiting.      *)
EveryProcessServes == \A p \in Processes : <>[](step[p] = "serving")

(* "If DB is down, return 503 Service Unavailable" (HealthController): not *)
(* so, a broken connection is never noticed.                               *)
HealthTellsDatabase ==
  \A p \in Processes : step[p] = "serving" /\ database = "down" => Health(p) = 503

(* What the health check says instead: 200, in every state a process can   *)
(* serve in.                                                               *)
HealthAlwaysGood == \A p \in Processes : step[p] = "serving" => Health(p) = 200

(* No process that has its connection is stuck: the transaction that an    *)
(* INSERT of the tenant waits for ends without it, the INSERT of the admin *)
(* never waits, and the COMMIT that is waited for is performed or on its   *)
(* way.                                                                    *)
EndsAlone(i) ==
  \/ i \in sent
  \/ \E p \in Processes : id[p] = i /\ session[p] = "open" /\ step[p] \in {"admin", "commit"}
  \/ \A p \in Processes : id[p] = i => session[p] = "broken"
NobodyStuck ==
  \A p \in Processes : session[p] = "open" =>
    /\ step[p] = "tenant" => tenants # {} \/ \A i \in inserted : EndsAlone(i)
    /\ step[p] = "admin" => admins \cup insertedAdmins = {}
    /\ step[p] = "committing" => id[p] \in sent \cup tenants

-----------------------------------------------------------------------------
(* What makes these inductive. *)

(* The unique index on airport_code, over open transactions too. *)
OneAirport ==
  /\ \A i, j \in tenants \cup inserted : i = j
  /\ tenants \cap inserted = {}

(* No two processes register under one id. *)
IdsApart == \A p, q \in Processes : id[p] # NoId /\ id[p] = id[q] => p = q

(* What the transaction of a process that has its connection holds. *)
InsertsMatchStep ==
  \A p \in Processes : session[p] = "open" =>
    /\ step[p] = "admin" => id[p] \in inserted
    /\ step[p] = "commit" => id[p] \in insertedAdmins
    /\ step[p] = "committing" => id[p] \in sent \cup tenants

(* What a process has not inserted yet is not there.                       *)
NothingAhead ==
  \A p \in Processes :
    /\ step[p] = "tenant" => id[p] \notin inserted
    /\ step[p] \in {"tenant", "admin"} => id[p] \notin insertedAdmins \cup tenants

(* Only a process past its COMMIT has one on its way. *)
SentWhileCommitting == \A p \in Processes : id[p] \in sent => step[p] = "committing"

IInv ==
  /\ TypeOK /\ OneAirport /\ IdsApart
  /\ InsertsMatchStep /\ NothingAhead /\ SentWhileCommitting
  /\ admins = tenants /\ ServingHasAirport
=============================================================================
