--------------------------- MODULE Bootstrap_proofs ---------------------------
(***************************************************************************)
(* What Bootstrap promises for any number of processes, ids and faults.    *)
(* AirportComplete and ServingHasAirport are not inductive: they rest on   *)
(* the unique index (the committed and uncommitted tenants are one at      *)
(* most) and on what a transaction has inserted at each step of main.      *)
(* From the same invariant Bootstrap implements FirstAirport.              *)
(***************************************************************************)
EXTENDS Bootstrap, FiniteSetTheorems, TLAPS

(* The initial states satisfy the invariant. *)
LEMMA InitInvariant == Init => IInv
BY IdAssumption, FaultsAssumption DEF Init, IInv, TypeOK, OneAirport, IdsApart,
   InsertsMatchStep, NothingAhead, SentWhileCommitting, ServingHasAirport, Registering,
   rows

(* Every step keeps it. *)
LEMMA StepInvariant == IInv /\ [Next]_vars => IInv'
<1> SUFFICES ASSUME IInv, [Next]_vars PROVE IInv'
  OBVIOUS
<1> USE IdAssumption, FaultsAssumption
<1>1. ASSUME NEW p \in Processes, Start(p)
      PROVE  IInv'
  BY <1>1 DEF IInv, TypeOK, OneAirport, IdsApart, InsertsMatchStep, NothingAhead,
     SentWhileCommitting, ServingHasAirport, Registering, rows, Start, GoTo
<1>2. ASSUME NEW p \in Processes, Connect(p)
      PROVE  IInv'
  BY <1>2 DEF IInv, TypeOK, OneAirport, IdsApart, InsertsMatchStep, NothingAhead,
     SentWhileCommitting, ServingHasAirport, Registering, rows, Connect, GoTo, InUse
<1>3. ASSUME NEW p \in Processes, InsertTenant(p)
      PROVE  IInv'
  BY <1>3 DEF IInv, TypeOK, OneAirport, IdsApart, InsertsMatchStep, NothingAhead,
     SentWhileCommitting, ServingHasAirport, Registering, rows, InsertTenant, GoTo
<1>4. ASSUME NEW p \in Processes, InsertAdmin(p)
      PROVE  IInv'
  BY <1>4 DEF IInv, TypeOK, OneAirport, IdsApart, InsertsMatchStep, NothingAhead,
     SentWhileCommitting, ServingHasAirport, Registering, rows, InsertAdmin, GoTo
<1>5. ASSUME NEW p \in Processes, SkipExisting(p)
      PROVE  IInv'
  BY <1>5 DEF IInv, TypeOK, OneAirport, IdsApart, InsertsMatchStep, NothingAhead,
     SentWhileCommitting, ServingHasAirport, Registering, rows, SkipExisting, Duplicate,
     Discard, Forget, GoTo
<1>6. ASSUME NEW p \in Processes, Commit(p)
      PROVE  IInv'
  BY <1>6 DEF IInv, TypeOK, OneAirport, IdsApart, InsertsMatchStep, NothingAhead,
     SentWhileCommitting, ServingHasAirport, Registering, rows, Commit, GoTo
<1>7. ASSUME NEW p \in Processes, Committed(p)
      PROVE  IInv'
  BY <1>7 DEF IInv, TypeOK, OneAirport, IdsApart, InsertsMatchStep, NothingAhead,
     SentWhileCommitting, ServingHasAirport, Registering, rows, Committed, Forget, GoTo
<1>8. ASSUME NEW p \in Processes, Exit(p)
      PROVE  IInv'
  BY <1>8 DEF IInv, TypeOK, OneAirport, IdsApart, InsertsMatchStep, NothingAhead,
     SentWhileCommitting, ServingHasAirport, Registering, rows, Exit, Failing, Forget,
     GoTo
<1>9. ASSUME NEW p \in Processes, LoseSession(p)
      PROVE  IInv'
  BY <1>9 DEF IInv, TypeOK, OneAirport, IdsApart, InsertsMatchStep, NothingAhead,
     SentWhileCommitting, ServingHasAirport, Registering, rows, LoseSession, Fault
<1>10. ASSUME NEW p \in Processes, Crash(p)
      PROVE  IInv'
  BY <1>10 DEF IInv, TypeOK, OneAirport, IdsApart, InsertsMatchStep, NothingAhead,
     SentWhileCommitting, ServingHasAirport, Registering, rows, Crash, Fault, Forget,
     GoTo
<1>11. ASSUME NEW i \in Ids, ServerCommits(i)
      PROVE  IInv'
  <2>1. i \in inserted /\ i \in insertedAdmins
    BY <1>11 DEF IInv, TypeOK, ServerCommits
  <2>2. tenants' = tenants \cup {i} /\ admins' = admins \cup {i}
    BY <1>11, <2>1 DEF ServerCommits
  <2>3. /\ TypeOK' /\ OneAirport' /\ InsertsMatchStep' /\ NothingAhead'
        /\ ServingHasAirport'
    <3>1. TypeOK'
      BY <1>11, <2>2 DEF IInv, TypeOK, ServerCommits, Discard, Registering
    <3>2. OneAirport'
      BY <1>11, <2>1, <2>2 DEF IInv, OneAirport, ServerCommits, Discard
    <3>3. InsertsMatchStep'
      BY <1>11, <2>2 DEF IInv, InsertsMatchStep, NothingAhead, SentWhileCommitting,
         ServerCommits, Discard
    <3>4. NothingAhead'
      BY <1>11, <2>1, <2>2 DEF IInv, NothingAhead, SentWhileCommitting,
         ServerCommits, Discard
    <3>5. QED
      BY <1>11, <2>2, <3>1, <3>2, <3>3, <3>4 DEF IInv, ServingHasAirport, ServerCommits
  <2>4. QED
    BY <1>11, <2>2, <2>3 DEF IInv, IdsApart, SentWhileCommitting, ServerCommits, Discard
<1>12. ASSUME NEW i \in Ids, ServerAborts(i)
      PROVE  IInv'
  BY <1>12 DEF IInv, TypeOK, OneAirport, IdsApart, InsertsMatchStep, NothingAhead,
     SentWhileCommitting, ServingHasAirport, Registering, rows, ServerAborts, Discard
<1>13. CASE DatabaseFails
  BY <1>13 DEF IInv, TypeOK, OneAirport, IdsApart, InsertsMatchStep, NothingAhead,
     SentWhileCommitting, ServingHasAirport, Registering, rows, DatabaseFails, Fault
<1>14. CASE DatabaseReturns
  BY <1>14 DEF IInv, TypeOK, OneAirport, IdsApart, InsertsMatchStep, NothingAhead,
     SentWhileCommitting, ServingHasAirport, Registering, rows, DatabaseReturns
<1>15. CASE UNCHANGED vars
  BY <1>15 DEF IInv, TypeOK, OneAirport, IdsApart, InsertsMatchStep, NothingAhead,
     SentWhileCommitting, ServingHasAirport, Registering, rows, vars
<1>16. QED
  BY <1>1, <1>2, <1>3, <1>4, <1>5, <1>6, <1>7, <1>8, <1>9, <1>10, <1>11, <1>12, <1>13,
     <1>14, <1>15 DEF Next, Main, Server

(* A set in which all are equal has at most one element. *)
LEMMA AtMostOne == ASSUME NEW S, \A i, j \in S : i = j PROVE Cardinality(S) <= 1
<1>1. CASE S = {}
  BY <1>1, FS_EmptySet
<1>2. CASE \E x \in S : S = {x}
  BY <1>2, FS_Singleton
<1>3. QED
  BY <1>1, <1>2

(* Bootstrap is type correct, and a process holds an id exactly while it   *)
(* registers the airport.                                                  *)
THEOREM TypeCorrect == Spec => []TypeOK
<1>1. IInv => TypeOK
  BY DEF IInv
<1>2. QED
  BY <1>1, InitInvariant, StepInvariant, PTL DEF Spec

(* One airport at most is registered, and never without its admin.         *)
THEOREM AirportCorrect == Spec => []AirportComplete
<1>1. IInv => AirportComplete
  BY AtMostOne DEF IInv, OneAirport, AirportComplete
<1>2. QED
  BY <1>1, InitInvariant, StepInvariant, PTL DEF Spec

(* A process that serves has the airport in the database.                  *)
THEOREM ServingCorrect == Spec => []ServingHasAirport
<1>1. IInv => ServingHasAirport
  BY DEF IInv
<1>2. QED
  BY <1>1, InitInvariant, StepInvariant, PTL DEF Spec

(* The health check of a process that serves answers 200 in every state:   *)
(* that it never tells of a lost database is no matter of timing.          *)
THEOREM HealthNeverTells == Spec => []HealthAlwaysGood
<1>1. IInv => HealthAlwaysGood
  BY DEF IInv, TypeOK, HealthAlwaysGood, Health, databaseHealthy
<1>2. QED
  BY <1>1, InitInvariant, StepInvariant, PTL DEF Spec

(* The race of the processes has no circular wait and no lost wake-up:     *)
(* whoever waits in PostgreSQL, waits for one transaction, and this one is *)
(* ended by its own process or by the server.                              *)
THEOREM StartNeverStuck == Spec => []NobodyStuck
<1>1. IInv => NobodyStuck
  <2> SUFFICES ASSUME IInv, NEW p \in Processes, session[p] = "open"
               PROVE  /\ step[p] = "tenant" => tenants # {} \/ \A i \in inserted : EndsAlone(i)
                      /\ step[p] = "admin" => admins \cup insertedAdmins = {}
                      /\ step[p] = "committing" => id[p] \in sent \cup tenants
    BY DEF NobodyStuck
  <2>1. ASSUME NEW i \in inserted, tenants = {}
        PROVE  EndsAlone(i)
    <3>1. i \in Ids /\ i # NoId
      BY IdAssumption DEF IInv, TypeOK
    <3>2. CASE \E q \in Processes : id[q] = i /\ session[q] = "open"
      <4>1. PICK q \in Processes : id[q] = i /\ session[q] = "open"
        BY <3>2
      <4>2. step[q] \in {"admin", "commit", "committing"}
        BY <2>1, <3>1, <4>1 DEF IInv, TypeOK, NothingAhead, Registering
      <4> QED
        BY <2>1, <4>1, <4>2 DEF IInv, InsertsMatchStep, EndsAlone
    <3>3. CASE \A q \in Processes : id[q] = i => session[q] # "open"
      BY <3>1, <3>3 DEF IInv, TypeOK, Registering, EndsAlone
    <3> QED
      BY <3>2, <3>3
  <2>2. ASSUME step[p] = "admin"
        PROVE  admins \cup insertedAdmins = {}
    <3>1. id[p] \in inserted /\ id[p] \notin insertedAdmins \cup tenants
      BY <2>2 DEF IInv, InsertsMatchStep, NothingAhead
    <3> QED
      BY <3>1 DEF IInv, TypeOK, OneAirport
  <2>3. step[p] = "committing" => id[p] \in sent \cup tenants
    BY DEF IInv, InsertsMatchStep
  <2> QED
    BY <2>1, <2>2, <2>3
<1>2. QED
  BY <1>1, InitInvariant, StepInvariant, PTL DEF Spec

-----------------------------------------------------------------------------
(* Bootstrap implements FirstAirport. *)

Serving == {p \in Processes : step[p] = "serving"}

(* Steps that touch neither the committed rows nor who serves. *)
LEMMA Unseen ==
  ASSUME UNCHANGED <<tenants, admins>>, Serving' = Serving
  PROVE  UNCHANGED Airport!vars
BY DEF Airport!vars, Serving

(* A process that begins to serve finds the airport. *)
LEMMA ServeSeen ==
  ASSUME IInv, NEW p \in Processes, step[p] # "serving", tenants # {},
         GoTo(p, "serving"), UNCHANGED <<tenants, admins>>
  PROVE  Airport!Next
<1>1. p \notin Serving /\ Serving' = Serving \cup {p}
  BY DEF IInv, TypeOK, Serving, GoTo
<1>2. Airport!Serve(p)
  BY <1>1 DEF Airport!Serve, Serving
<1> QED
  BY <1>2 DEF Airport!Next

(* One step of main, of PostgreSQL or of a fault. *)
LEMMA StepPromised ==
  ASSUME IInv, [Next]_vars
  PROVE  [Airport!Next]_(Airport!vars)
<1> USE DEF IInv, TypeOK
<1>1. ASSUME NEW p \in Processes,
             \/ Start(p) \/ Connect(p) \/ InsertTenant(p) \/ InsertAdmin(p) \/ Commit(p)
             \/ Exit(p)
      PROVE  UNCHANGED Airport!vars
  <2>1. /\ step[p] # "serving" /\ UNCHANGED <<tenants, admins>>
        /\ \E s \in {"exited", "connect"} \cup Registering : step' = [step EXCEPT ![p] = s]
    BY <1>1 DEF Start, Connect, InsertTenant, InsertAdmin, Commit, Exit, Failing, rows, GoTo,
       Registering
  <2>2. Serving' = Serving
    BY <2>1 DEF Serving, Registering
  <2> QED
    BY <2>1, <2>2, Unseen
<1>2. ASSUME NEW p \in Processes, SkipExisting(p)
      PROVE  Airport!Next
  <2>1. step[p] # "serving" /\ tenants # {} /\ GoTo(p, "serving") /\ UNCHANGED <<tenants, admins>>
    BY <1>2 DEF SkipExisting, Duplicate
  <2> QED
    BY <2>1, ServeSeen
<1>3. ASSUME NEW p \in Processes, Committed(p)
      PROVE  Airport!Next
  <2>1. step[p] # "serving" /\ tenants # {} /\ GoTo(p, "serving") /\ UNCHANGED <<tenants, admins>>
    BY <1>3 DEF Committed, rows
  <2> QED
    BY <2>1, ServeSeen
<1>4. ASSUME NEW p \in Processes, Crash(p)
      PROVE  [Airport!Next]_(Airport!vars)
  <2>1. /\ Serving' = Serving \ {p} /\ UNCHANGED <<tenants, admins>>
    BY <1>4 DEF Crash, rows, GoTo, Serving
  <2>2. CASE p \in Serving
    <3>1. Airport!Stop(p)
      BY <2>1, <2>2 DEF Airport!Stop, Serving
    <3> QED
      BY <3>1 DEF Airport!Next
  <2>3. CASE p \notin Serving
    BY <2>1, <2>3, Unseen
  <2> QED
    BY <2>2, <2>3
<1>5. ASSUME NEW i \in Ids, ServerCommits(i)
      PROVE  Airport!Next
  <2>1. /\ i \in inserted /\ i \in insertedAdmins /\ UNCHANGED step
        /\ tenants' = tenants \cup {i} /\ admins' = admins \cup {i}
    BY <1>5 DEF ServerCommits
  <2>2. tenants = {} /\ admins = {}
    BY <2>1 DEF OneAirport
  <2>3. Airport!Register(i)
    BY <2>1, <2>2 DEF Airport!Register
  <2> QED
    BY <2>3 DEF Airport!Next
<1>6. ASSUME NEW i \in Ids, ServerAborts(i)
      PROVE  UNCHANGED Airport!vars
  BY <1>6, Unseen DEF ServerAborts, Serving
<1>7. ASSUME (\E p \in Processes : LoseSession(p)) \/ DatabaseFails \/ DatabaseReturns
      PROVE  UNCHANGED Airport!vars
  BY <1>7, Unseen DEF LoseSession, DatabaseFails, DatabaseReturns, rows, Serving
<1>8. CASE UNCHANGED vars
  BY <1>8, Unseen DEF vars, Serving
<1> QED
  BY <1>1, <1>2, <1>3, <1>4, <1>5, <1>6, <1>7, <1>8 DEF Next, Main, Server

LEMMA InitPromised == Init => Airport!Init
BY DEF Init, Airport!Init

(* With any number of processes, ids and faults the first airport comes    *)
(* into being once, with its admin, before anybody serves, and stays.      *)
THEOREM FirstAirportImplemented == Spec => ImplementsFirstAirport
<1>1. IInv /\ [Next]_vars => [Airport!Next]_(Airport!vars)
  BY StepPromised
<1>2. QED
  BY <1>1, InitPromised, InitInvariant, StepInvariant, PTL
     DEF Spec, ImplementsFirstAirport, Airport!Spec
=============================================================================
