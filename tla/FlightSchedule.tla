---------------------------- MODULE FlightSchedule ----------------------------
(***************************************************************************)
(* The rows of the flights table: who reserves a gate, who moves a flight  *)
(* to another one, and what GET /flights shows.  buildFlight looks for a   *)
(* conflict in one transaction, createFlight inserts in a second one;      *)
(* addFlight inserts and updateStatus moves without looking.  Each         *)
(* transaction is on the connection that the threads of a process share.   *)
(*                                                                         *)
(* Nothing in the program calls buildFlight and createFlight yet; they are *)
(* taken one after the other, with one answer.  Of addFlight and           *)
(* updateStatusAndNotify, which AddFlight and FlightStatus model, only the *)
(* transaction that writes a flight is here.                               *)
(***************************************************************************)
EXTENDS Naturals, FiniteSets

CONSTANTS
  Workers, Processes, Host,  \* threads, processes, the process of a thread
  Requests, Attr,            \* Attr[r]: what request r carries
  Tenants, Gates,
  NoWorker, NoRequest

(* from, to: departure and arrival time; flight: the one to be moved.      *)
(* A request that makes a flight stands for the flight.                    *)
RequestAttr ==
  [kind : {"schedule", "add", "move", "list"}, tenant : Tenants, gate : Gates,
   from : Nat, to : Nat, flight : Requests \cup {NoRequest}]

ASSUME HostAssumption    == Host \in [Workers -> Processes] /\ NoWorker \notin Workers
ASSUME RequestAssumption == Attr \in [Requests -> RequestAttr] /\ NoRequest \notin Requests

VARIABLES
  pc, job,  \* the next step of a thread, the request it handles
  conn,     \* conn[p]: the thread whose transaction is open on p's connection
  stored,   \* flights in the table
  gate,     \* gate[r]: the gate of flight r
  orphans,  \* requests whose COMMIT was on its way when its sender was lost
  answer,   \* the reply to each request; "error" also when there was none
  listing,  \* listing[r]: the flights in the reply to GET /flights
  seen,     \* history: flights that were stored when r passed its conflict check
  moved,    \* history: flights that updateStatus has given a gate
  known     \* history: the tenant's flights that were confirmed when list r came

vars == <<pc, job, conn, stored, gate, orphans, answer, listing, seen, moved, known>>

Kind(r)     == Attr[r].kind
TenantOf(r) == Attr[r].tenant
Flights     == {r \in Requests : Kind(r) \in {"schedule", "add"}}

InTxn   == {"check", "execute"}
Steps   == {"idle", "check_begin", "begin"} \cup InTxn
Answers == {"none", "ok", "conflict", "error"}

Init ==
  /\ pc = [w \in Workers |-> "idle"]
  /\ job = [w \in Workers |-> NoRequest]
  /\ conn = [p \in Processes |-> NoWorker]
  /\ stored = {} /\ orphans = {} /\ moved = {}
  /\ gate = [r \in Requests |-> Attr[r].gate]
  /\ answer = [r \in Requests |-> "none"]
  /\ listing = [r \in Requests |-> {}]
  /\ seen = [r \in Requests |-> {}]
  /\ known = [r \in Requests |-> {}]

GoTo(w, step) == pc' = [pc EXCEPT ![w] = step]
Release(w)    == conn' = [conn EXCEPT ![Host[w]] = IF @ = w THEN NoWorker ELSE @]

Finish(w, a) ==
  /\ answer' = [answer EXCEPT ![job[w]] = a]
  /\ job' = [job EXCEPT ![w] = NoRequest]
  /\ GoTo(w, "idle")
  /\ Release(w)

-----------------------------------------------------------------------------
Receive(w, r) ==
  /\ pc[w] = "idle" /\ answer[r] = "none" /\ \A v \in Workers : job[v] # r
  /\ GoTo(w, IF Kind(r) = "schedule" THEN "check_begin" ELSE "begin")
  /\ job' = [job EXCEPT ![w] = r]
  /\ known' = IF Kind(r) # "list" THEN known ELSE [known EXCEPT ![r] =
       {q \in Flights : TenantOf(q) = TenantOf(r) /\ answer[q] = "ok"}]
  /\ UNCHANGED <<conn, stored, gate, orphans, answer, listing, seen, moved>>

Begin(w) ==
  /\ pc[w] \in {"check_begin", "begin"} /\ conn[Host[w]] = NoWorker
  /\ conn' = [conn EXCEPT ![Host[w]] = w]
  /\ GoTo(w, IF pc[w] = "begin" THEN "execute" ELSE "check")
  /\ UNCHANGED <<job, stored, gate, orphans, answer, listing, seen, moved, known>>

(* Mutant of hasGateConflict: only flights that leave in between are found. *)
hasGateConflictAtStart(r) ==
  \E q \in stored :
    /\ TenantOf(q) = TenantOf(r) /\ gate[q] = Attr[r].gate
    /\ Attr[r].from <= Attr[q].from /\ Attr[q].from < Attr[r].to

hasGateConflict(r) ==
  \E q \in stored :
    /\ TenantOf(q) = TenantOf(r) /\ gate[q] = Attr[r].gate
    /\ Attr[q].from < Attr[r].to /\ Attr[q].to > Attr[r].from

(* Mutant of CheckGate: the check's transaction lives on in the caller. *)
CheckGateHoldsOn(w) ==
  /\ pc[w] = "check"
  /\ IF hasGateConflict(job[w])
     THEN Finish(w, "conflict") /\ UNCHANGED seen
     ELSE /\ GoTo(w, "begin")
          /\ seen' = [seen EXCEPT ![job[w]] = stored]
          /\ UNCHANGED <<conn, job, answer>>
  /\ UNCHANGED <<stored, gate, orphans, listing, moved, known>>

(* buildFlight: the check, in a transaction that ends with it. *)
CheckGate(w) ==
  /\ pc[w] = "check"
  /\ IF hasGateConflict(job[w])
     THEN Finish(w, "conflict") /\ UNCHANGED seen
     ELSE /\ GoTo(w, "begin") /\ Release(w)
          /\ seen' = [seen EXCEPT ![job[w]] = stored]
          /\ UNCHANGED <<job, answer>>
  /\ UNCHANGED <<stored, gate, orphans, listing, moved, known>>

Visible(r) == {q \in stored : TenantOf(q) = TenantOf(r)}

(* The SELECT of getFlights; the transaction ends with the handler. *)
List(w) ==
  /\ pc[w] = "execute" /\ Kind(job[w]) = "list"
  /\ listing' = [listing EXCEPT ![job[w]] = Visible(job[w])]
  /\ Finish(w, "ok")
  /\ UNCHANGED <<stored, gate, orphans, seen, moved, known>>

(* updateStatus finds only a flight of the caller's tenant. *)
Finds(r) == Attr[r].flight \in stored /\ TenantOf(Attr[r].flight) = TenantOf(r)

Persist(r) ==
  LET f == Attr[r].flight IN
  IF Kind(r) # "move"
  THEN stored' = stored \cup {r} /\ UNCHANGED <<gate, moved>>
  ELSE /\ UNCHANGED stored
       /\ IF Finds(r)
          THEN gate' = [gate EXCEPT ![f] = Attr[r].gate] /\ moved' = moved \cup {f}
          ELSE UNCHANGED <<gate, moved>>

(* The statement of w's transaction can be executed: no orphan holds the   *)
(* lock on the row it updates.                                             *)
Executes(w) ==
  /\ pc[w] = "execute" /\ Kind(job[w]) # "list"
  /\ \A q \in orphans :
       Kind(q) = "move" /\ Kind(job[w]) = "move" => Attr[q].flight # Attr[job[w]].flight

(* createFlight, addFlight's INSERT, updateStatus: one statement, COMMIT. *)
Write(w) ==
  /\ Executes(w)
  /\ Persist(job[w])
  /\ Finish(w, "ok")
  /\ UNCHANGED <<orphans, listing, seen, known>>

(* The sender of a COMMIT does not live to see its answer, or loses the    *)
(* connection: the transaction is an orphan, if it has changed anything.   *)
MayOrphan(w) == Executes(w) /\ (Kind(job[w]) = "move" => Finds(job[w]))

(* Mutant of Throw: getFlights answers with the rows it has read so far.   *)
ThrowSendsPart(w) ==
  /\ pc[w] # "idle"
  /\ Finish(w, IF Kind(job[w]) = "list" THEN "ok" ELSE "error")
  /\ \/ UNCHANGED orphans
     \/ MayOrphan(w) /\ orphans' = orphans \cup {job[w]}
  /\ \/ UNCHANGED listing
     \/ /\ pc[w] = "execute" /\ Kind(job[w]) = "list"
        /\ \E part \in SUBSET Visible(job[w]) : listing' = [listing EXCEPT ![job[w]] = part]
  /\ UNCHANGED <<stored, gate, moved, seen, known>>

(* Any call may throw: a connection another thread has a transaction on or *)
(* that is lost, a statement that is refused, a COMMIT whose answer does   *)
(* not come.  getFlights catches everything and answers with an empty      *)
(* list.                                                                   *)
Throw(w) ==
  /\ pc[w] # "idle"
  /\ Finish(w, IF Kind(job[w]) = "list" THEN "ok" ELSE "error")
  /\ \/ UNCHANGED orphans
     \/ MayOrphan(w) /\ orphans' = orphans \cup {job[w]}
  /\ UNCHANGED <<stored, gate, moved, listing, seen, known>>

(* PostgreSQL comes to the COMMIT of an orphan, or finds its sender gone   *)
(* and rolls back.                                                         *)
ServerEnds(r) ==
  /\ r \in orphans
  /\ orphans' = orphans \ {r}
  /\ Persist(r) \/ UNCHANGED <<stored, gate, moved>>
  /\ UNCHANGED <<pc, job, conn, answer, listing, seen, known>>

(* The process dies and is started again. *)
Restart(p) ==
  LET mine == {w \in Workers : Host[w] = p} IN
  /\ \E sent \in SUBSET {w \in mine : MayOrphan(w)} :
       orphans' = orphans \cup {job[w] : w \in sent}
  /\ pc' = [w \in Workers |-> IF w \in mine THEN "idle" ELSE pc[w]]
  /\ job' = [w \in Workers |-> IF w \in mine THEN NoRequest ELSE job[w]]
  /\ answer' = [r \in Requests |-> IF \E w \in mine : job[w] = r THEN "error" ELSE answer[r]]
  /\ conn' = [conn EXCEPT ![p] = NoWorker]
  /\ UNCHANGED <<stored, gate, listing, seen, moved, known>>

-----------------------------------------------------------------------------
Next ==
  \/ \E w \in Workers, r \in Requests : Receive(w, r)
  \/ \E w \in Workers : Begin(w) \/ CheckGate(w) \/ List(w) \/ Write(w) \/ Throw(w)
  \/ \E p \in Processes : Restart(p)
  \/ \E r \in orphans : ServerEnds(r)

Spec == Init /\ [][Next]_vars

-----------------------------------------------------------------------------
(* Properties. *)

(* Type invariant; a thread holds its process' connection exactly while it  *)
(* is in a transaction.                                                    *)
TypeOK ==
  /\ pc \in [Workers -> Steps]
  /\ job \in [Workers -> Requests \cup {NoRequest}]
  /\ conn \in [Processes -> Workers \cup {NoWorker}]
  /\ stored \subseteq Flights
  /\ gate \in [Requests -> Gates]
  /\ orphans \subseteq Requests
  /\ answer \in [Requests -> Answers]
  /\ listing \in [Requests -> SUBSET Requests]
  /\ seen \in [Requests -> SUBSET Requests]
  /\ moved \subseteq Requests
  /\ known \in [Requests -> SUBSET Requests]
  /\ \A w \in Workers : pc[w] \in InTxn <=> conn[Host[w]] = w

(* What a conflict is: one gate of a tenant has two flights at one moment. *)
Occupies(r) == {t \in Attr[r].from..Attr[r].to : t < Attr[r].to}
InConflict(q, r) ==
  /\ q # r /\ TenantOf(q) = TenantOf(r) /\ gate[q] = gate[r]
  /\ Occupies(q) \cap Occupies(r) # {}

(* "Checks for gate scheduling overlaps": two flights are at one gate at    *)
(* one time only if addFlight made one of them, updateStatus moved one of  *)
(* them, or each check ran before the other flight was stored.  That may    *)
(* be long after its sender was told of an error: a request that is sent   *)
(* again can meet its own first COMMIT at the gate.                        *)
Unchecked(r) == Kind(r) = "add" \/ r \in moved
ConflictExplained ==
  \A q, r \in stored :
    InConflict(q, r) => \/ Unchecked(q) \/ Unchecked(r)
                       \/ (q \notin seen[r] /\ r \notin seen[q])

(* GET /flights on any process shows every flight whose making had been     *)
(* confirmed, by whichever process, when the request came, and none of     *)
(* another tenant; or it is empty.                                         *)
ListIsCurrent ==
  \A r \in Requests :
    /\ \A q \in listing[r] : TenantOf(q) = TenantOf(r)
    /\ listing[r] # {} => known[r] \subseteq listing[r]

-----------------------------------------------------------------------------
(* What makes these inductive. *)

(* A request is handled once, by one thread, which has not answered it yet; *)
(* what it leaves behind is there when it is answered.                     *)
HandledOnce ==
  /\ \A w \in Workers : pc[w] = "idle" <=> job[w] = NoRequest
  /\ \A w \in Workers : job[w] # NoRequest => answer[job[w]] = "none"
  /\ \A v, w \in Workers : job[v] = job[w] /\ job[v] # NoRequest => v = w
  /\ \A r \in Requests : answer[r] = "none" => r \notin stored /\ listing[r] = {}
  /\ \A r \in orphans : answer[r] = "error" /\ Kind(r) # "list"
  /\ \A w \in Workers : pc[w] \in {"check_begin", "check"} => Kind(job[w]) = "schedule"

(* Only updateStatus changes a gate. *)
GateUnlessMoved == \A r \in Requests : gate[r] = Attr[r].gate \/ r \in moved

(* A check that was passed has found no conflict among the flights it saw. *)
Passed(r) == r \in stored \cup orphans \/ \E w \in Workers : job[w] = r /\ pc[w] \in {"begin", "execute"}
SeenClear ==
  \A r \in Requests : Kind(r) = "schedule" /\ Passed(r) =>
    \A q \in seen[r] : InConflict(q, r) => q \in moved \/ r \in moved

(* A confirmed flight is stored, so what was known when a list came is.    *)
ConfirmedIsStored == \A r \in Flights : answer[r] = "ok" => r \in stored
KnownIsStored ==
  \A r \in Requests : \A q \in known[r] : q \in stored /\ TenantOf(q) = TenantOf(r)

IInv ==
  /\ TypeOK /\ HandledOnce /\ GateUnlessMoved
  /\ SeenClear
  /\ ConfirmedIsStored /\ KnownIsStored /\ ListIsCurrent
=============================================================================
