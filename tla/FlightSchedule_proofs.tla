------------------------ MODULE FlightSchedule_proofs ------------------------
(***************************************************************************)
(* What FlightSchedule promises for any number of threads, processes and   *)
(* requests.  ConflictExplained rests on SeenClear: a check that lets a    *)
(* flight pass has found every conflict among the flights it saw, and only *)
(* updateStatus makes one later.  ListIsCurrent rests on what a confirmed  *)
(* request leaves in the table.                                            *)
(***************************************************************************)
EXTENDS FlightSchedule, TLAPS

(* The half-open intervals of two flights have a moment in common only if  *)
(* each begins before the other ends: what hasGateConflict compares.       *)
LEMMA OverlapOfIntervals ==
  ASSUME NEW q \in Requests, NEW r \in Requests, Occupies(q) \cap Occupies(r) # {}
  PROVE  Attr[q].from < Attr[r].to /\ Attr[q].to > Attr[r].from
<1>1. /\ Attr[q].from \in Nat /\ Attr[q].to \in Nat
      /\ Attr[r].from \in Nat /\ Attr[r].to \in Nat
  BY RequestAssumption DEF RequestAttr
<1>2. PICK t : t \in Occupies(q) /\ t \in Occupies(r)
  OBVIOUS
<1> QED
  BY <1>1, <1>2 DEF Occupies

(* What the constants say of a request. *)
LEMMA RequestTypes ==
  ASSUME NEW r \in Requests
  PROVE  /\ Kind(r) \in {"schedule", "add", "move", "list"}
         /\ Attr[r].gate \in Gates
BY RequestAssumption DEF RequestAttr, Kind

(* A step that changes no gate but those it marks as moved, and lets no     *)
(* flight past the check with a conflict, leaves SeenClear true.           *)
LEMMA SeenClearKept ==
  ASSUME TypeOK, SeenClear, moved \subseteq moved',
         \A x \in Requests : gate'[x] = gate[x] \/ x \in moved',
         \A x \in Requests : Kind(x) = "schedule" /\ Passed(x)' =>
           \/ Passed(x) /\ seen'[x] = seen[x]
           \/ \A q \in seen'[x] : InConflict(q, x)' => q \in moved' \/ x \in moved'
  PROVE  SeenClear'
<1> SUFFICES ASSUME NEW x \in Requests, Kind(x) = "schedule", Passed(x)', NEW q \in seen'[x],
                    InConflict(q, x)', q \notin moved', x \notin moved'
             PROVE  FALSE
  BY DEF SeenClear
<1>1. Passed(x) /\ q \in seen[x] /\ q \in Requests
  BY DEF TypeOK
<1>2. InConflict(q, x)
  BY <1>1 DEF InConflict
<1> QED
  BY <1>1, <1>2 DEF SeenClear

(* Two flights whose checks were passed and that nobody moved have not     *)
(* seen each other.                                                        *)
LEMMA ExplainedBySeen == TypeOK /\ SeenClear => ConflictExplained
<1> SUFFICES ASSUME TypeOK, SeenClear, NEW q \in stored, NEW r \in stored, InConflict(q, r),
                    ~Unchecked(q), ~Unchecked(r)
             PROVE  q \notin seen[r] /\ r \notin seen[q]
  BY DEF ConflictExplained
<1>1. /\ q \in Requests /\ r \in Requests /\ Kind(q) = "schedule" /\ Kind(r) = "schedule"
      /\ q \notin moved /\ r \notin moved /\ Passed(q) /\ Passed(r)
  BY DEF TypeOK, Unchecked, Flights, Passed
<1>2. InConflict(r, q)
  BY DEF InConflict
<1> QED
  BY <1>1, <1>2 DEF SeenClear

(* The initial state satisfies the invariant. *)
LEMMA InitInvariant == Init => IInv
BY HostAssumption, RequestAssumption, RequestTypes DEF Init, IInv, Passed, InTxn, Steps,
   Answers, Flights, TypeOK, HandledOnce, GateUnlessMoved, SeenClear, ConfirmedIsStored,
   KnownIsStored, ListIsCurrent

(* Every step keeps it. *)
LEMMA StepInvariant == IInv /\ [Next]_vars => IInv'
<1> SUFFICES ASSUME IInv, [Next]_vars PROVE IInv'
  OBVIOUS
<1> USE HostAssumption, RequestAssumption, RequestTypes DEF IInv, InTxn, Steps, Answers, Flights
<1>1. ASSUME NEW w \in Workers, NEW r \in Requests, Receive(w, r)
      PROVE  IInv'
  <2>1. TypeOK'
    BY <1>1 DEF TypeOK, Passed, HandledOnce, Receive, GoTo
  <2>2. HandledOnce'
    BY <1>1 DEF TypeOK, HandledOnce, Passed, Receive, GoTo
  <2>3. GateUnlessMoved'
    BY <1>1 DEF TypeOK, GateUnlessMoved, Passed, HandledOnce, Receive, GoTo
  <2>4. ConfirmedIsStored'
    BY <1>1 DEF TypeOK, ConfirmedIsStored, Passed, HandledOnce, Receive, GoTo
  <2>5. ListIsCurrent'
    BY <1>1 DEF TypeOK, ListIsCurrent, Passed, HandledOnce, Receive, GoTo
  <2>6. SeenClear'
    <3>1. \A x \in Requests : Kind(x) = "schedule" /\ Passed(x)' => Passed(x) /\ seen'[x] = seen[x]
      BY <1>1 DEF TypeOK, HandledOnce, Passed, Receive, GoTo
    <3>2. moved \subseteq moved' /\ \A x \in Requests : gate'[x] = gate[x] \/ x \in moved'
      BY <1>1 DEF TypeOK, Receive, GoTo
    <3> QED
      BY <3>1, <3>2, SeenClearKept
  <2>7. KnownIsStored'
    BY <1>1 DEF TypeOK, ConfirmedIsStored, KnownIsStored, Receive
  <2> QED
    BY <2>1, <2>2, <2>3, <2>4, <2>5, <2>6, <2>7
<1>2. ASSUME NEW w \in Workers, Begin(w)
      PROVE  IInv'
  <2>1. TypeOK'
    BY <1>2 DEF TypeOK, Passed, HandledOnce, Begin, GoTo
  <2>2. HandledOnce'
    BY <1>2 DEF TypeOK, HandledOnce, Passed, Begin, GoTo
  <2>3. GateUnlessMoved'
    BY <1>2 DEF TypeOK, GateUnlessMoved, Passed, HandledOnce, Begin, GoTo
  <2>4. ConfirmedIsStored'
    BY <1>2 DEF TypeOK, ConfirmedIsStored, Passed, HandledOnce, Begin, GoTo
  <2>5. KnownIsStored'
    BY <1>2 DEF TypeOK, KnownIsStored, Passed, HandledOnce, Begin, GoTo
  <2>6. ListIsCurrent'
    BY <1>2 DEF TypeOK, ListIsCurrent, Passed, HandledOnce, Begin, GoTo
  <2>7. SeenClear'
    <3>1. \A x \in Requests : Kind(x) = "schedule" /\ Passed(x)' => Passed(x) /\ seen'[x] = seen[x]
      BY <1>2 DEF TypeOK, HandledOnce, Passed, Begin, GoTo
    <3>2. moved \subseteq moved' /\ \A x \in Requests : gate'[x] = gate[x] \/ x \in moved'
      BY <1>2 DEF TypeOK, Begin, GoTo
    <3> QED
      BY <3>1, <3>2, SeenClearKept
  <2> QED
    BY <2>1, <2>2, <2>3, <2>4, <2>5, <2>6, <2>7
<1>3. ASSUME NEW w \in Workers, CheckGate(w)
      PROVE  IInv'
  <2>1. GateUnlessMoved'
    BY <1>3 DEF TypeOK, GateUnlessMoved, Passed, HandledOnce, CheckGate, Finish, Release,
       GoTo
  <2>2. ConfirmedIsStored'
    BY <1>3 DEF TypeOK, ConfirmedIsStored, Passed, HandledOnce, CheckGate, Finish,
       Release, GoTo
  <2>3. KnownIsStored'
    BY <1>3 DEF TypeOK, KnownIsStored, Passed, HandledOnce, CheckGate, Finish, Release,
       GoTo
  <2>4. ListIsCurrent'
    BY <1>3 DEF TypeOK, ListIsCurrent, Passed, HandledOnce, CheckGate, Finish, Release,
       GoTo
  <2>5. TypeOK'
    <3>1. CASE Finish(w, "conflict") /\ UNCHANGED seen
      BY <1>3, <3>1 DEF TypeOK, HandledOnce, CheckGate, Finish, Release, GoTo
    <3>2. CASE /\ GoTo(w, "begin") /\ Release(w)
                 /\ seen' = [seen EXCEPT ![job[w]] = stored]
                 /\ UNCHANGED <<job, answer>>
      BY <1>3, <3>2 DEF TypeOK, HandledOnce, CheckGate, Release, GoTo
    <3> QED
      BY <1>3, <3>1, <3>2 DEF CheckGate
  <2>6. HandledOnce'
    <3>1. CASE Finish(w, "conflict") /\ UNCHANGED seen
      BY <1>3, <3>1 DEF TypeOK, HandledOnce, CheckGate, Finish, Release, GoTo
    <3>2. CASE /\ GoTo(w, "begin") /\ Release(w)
                 /\ seen' = [seen EXCEPT ![job[w]] = stored]
                 /\ UNCHANGED <<job, answer>>
      BY <1>3, <3>2 DEF TypeOK, HandledOnce, CheckGate, Release, GoTo
    <3> QED
      BY <1>3, <3>1, <3>2 DEF CheckGate
  <2>7. SeenClear'
    <3>0. PICK r : r = job[w]
      OBVIOUS
    <3>1. /\ r \in Requests /\ answer[r] = "none" /\ r \notin stored /\ Kind(r) = "schedule"
          /\ gate' = gate /\ moved' = moved
      BY <1>3, <3>0 DEF TypeOK, HandledOnce, CheckGate
    <3>2. \A x \in Requests \ {r} :
            Kind(x) = "schedule" /\ Passed(x)' => Passed(x) /\ seen'[x] = seen[x]
      BY <1>3, <3>0, <3>1 DEF TypeOK, HandledOnce, Passed, CheckGate, Finish, GoTo
    <3>3. Passed(r)' => ~hasGateConflict(r) /\ seen'[r] = stored
      BY <1>3, <3>0, <3>1 DEF TypeOK, HandledOnce, Passed, CheckGate, Finish, GoTo
    <3>4. ASSUME Passed(r)', NEW q \in seen'[r], q \notin moved', r \notin moved'
          PROVE  ~InConflict(q, r)'
      <4>1. q \in stored /\ q \in Requests /\ r \in Requests
        BY <3>1, <3>3, <3>4 DEF TypeOK
      <4>2. gate[q] = Attr[q].gate /\ gate[r] = Attr[r].gate
        BY <3>1, <3>4, <4>1 DEF GateUnlessMoved
      <4>3. \/ TenantOf(q) # TenantOf(r) \/ gate[q] # Attr[r].gate
            \/ ~(Attr[q].from < Attr[r].to /\ Attr[q].to > Attr[r].from)
        BY <3>3, <3>4, <4>1 DEF hasGateConflict
      <4>4. InConflict(q, r)' <=> /\ q # r /\ TenantOf(q) = TenantOf(r) /\ gate[q] = gate[r]
                                  /\ Occupies(q) \cap Occupies(r) # {}
        BY <3>1 DEF InConflict, Occupies, TenantOf
      <4> QED
        BY <4>1, <4>2, <4>3, <4>4, OverlapOfIntervals
    <3> QED
      BY <3>1, <3>2, <3>4, SeenClearKept
  <2> QED
    BY <2>1, <2>2, <2>3, <2>4, <2>5, <2>6, <2>7
<1>4. ASSUME NEW w \in Workers, List(w)
      PROVE  IInv'
  <2>1. TypeOK'
    BY <1>4 DEF TypeOK, Passed, HandledOnce, List, Visible, Finish, Release, GoTo
  <2>2. HandledOnce'
    BY <1>4 DEF TypeOK, HandledOnce, Passed, List, Visible, Finish, Release, GoTo
  <2>3. GateUnlessMoved'
    BY <1>4 DEF TypeOK, GateUnlessMoved, Passed, HandledOnce, List, Visible, Finish,
       Release, GoTo
  <2>4. ConfirmedIsStored'
    BY <1>4 DEF TypeOK, ConfirmedIsStored, Passed, HandledOnce, List, Visible, Finish,
       Release, GoTo
  <2>5. KnownIsStored'
    BY <1>4 DEF TypeOK, KnownIsStored, Passed, HandledOnce, List, Visible, Finish,
       Release, GoTo
  <2>6. SeenClear'
    <3>1. \A x \in Requests : Kind(x) = "schedule" /\ Passed(x)' => Passed(x) /\ seen'[x] = seen[x]
      BY <1>4 DEF TypeOK, HandledOnce, Passed, List, Finish, Release, GoTo
    <3>2. moved \subseteq moved' /\ \A x \in Requests : gate'[x] = gate[x] \/ x \in moved'
      BY <1>4 DEF TypeOK, List, Finish, Release, GoTo
    <3> QED
      BY <3>1, <3>2, SeenClearKept
  <2>7. ListIsCurrent'
    BY <1>4 DEF TypeOK, HandledOnce, KnownIsStored, ListIsCurrent, List, Visible
  <2> QED
    BY <2>1, <2>2, <2>3, <2>4, <2>5, <2>6, <2>7
<1>5. ASSUME NEW w \in Workers, Write(w)
      PROVE  IInv'
  <2>1. TypeOK'
    <3>1. /\ stored' \subseteq Flights /\ orphans' \subseteq Requests
          /\ gate' \in [Requests -> Gates] /\ moved' \subseteq Requests
      BY <1>5, RequestTypes DEF TypeOK, HandledOnce, Write, Executes, Persist, Finds, Flights
    <3>2. /\ pc' \in [Workers -> Steps] /\ job' \in [Workers -> Requests \cup {NoRequest}]
          /\ conn' \in [Processes -> Workers \cup {NoWorker}]
          /\ answer' \in [Requests -> Answers]
          /\ UNCHANGED <<listing, seen, known>>
      BY <1>5 DEF TypeOK, Write, Finish, Release, GoTo
    <3>3. \A v \in Workers : pc'[v] \in InTxn <=> conn'[Host[v]] = v
      BY <1>5 DEF TypeOK, Write, Finish, Release, GoTo
    <3> QED
      BY <3>1, <3>2, <3>3 DEF TypeOK
  <2>2. HandledOnce'
    BY <1>5 DEF TypeOK, HandledOnce, Passed, Write, Executes, Persist, Finish, Release, GoTo
  <2>3. GateUnlessMoved'
    BY <1>5 DEF TypeOK, GateUnlessMoved, Passed, HandledOnce, Write, Executes, Persist, Finish,
       Release, GoTo
  <2>4. ConfirmedIsStored'
    BY <1>5 DEF TypeOK, ConfirmedIsStored, Passed, HandledOnce, Write, Executes, Persist, Finish,
       Release, GoTo
  <2>5. KnownIsStored'
    BY <1>5 DEF TypeOK, KnownIsStored, Passed, HandledOnce, Write, Executes, Persist, Finish,
       Release, GoTo
  <2>6. ListIsCurrent'
    BY <1>5 DEF TypeOK, ListIsCurrent, Passed, HandledOnce, Write, Executes, Persist, Finish,
       Release, GoTo
  <2>7. SeenClear'
    <3>1. \A x \in Requests : Kind(x) = "schedule" /\ Passed(x)' => Passed(x) /\ seen'[x] = seen[x]
      BY <1>5 DEF TypeOK, HandledOnce, Passed, Write, Executes, Persist, Finish, Release, GoTo
    <3>2. moved \subseteq moved' /\ \A x \in Requests : gate'[x] = gate[x] \/ x \in moved'
      BY <1>5 DEF TypeOK, Write, Executes, Persist, Finish, Release, GoTo
    <3> QED
      BY <3>1, <3>2, SeenClearKept
  <2> QED
    BY <2>1, <2>2, <2>3, <2>4, <2>5, <2>6, <2>7
<1>6. ASSUME NEW w \in Workers, Throw(w)
      PROVE  IInv'
  <2>1. TypeOK'
    <3>0. job[w] \in Requests /\ pc[w] \in Steps \ {"idle"}
      BY <1>6 DEF TypeOK, HandledOnce, Throw
    <3>1. /\ stored' \subseteq Flights /\ orphans' \subseteq Requests
          /\ gate' \in [Requests -> Gates] /\ moved' \subseteq Requests
      BY <1>6, <3>0, RequestTypes DEF TypeOK, Throw, MayOrphan, Flights
    <3>2. /\ pc' = [pc EXCEPT ![w] = "idle"] /\ job' = [job EXCEPT ![w] = NoRequest]
          /\ conn' = [conn EXCEPT ![Host[w]] = IF @ = w THEN NoWorker ELSE @]
          /\ \E a \in Answers : answer' = [answer EXCEPT ![job[w]] = a]
          /\ UNCHANGED <<listing, seen, known>>
      BY <1>6 DEF Throw, Finish, Release, GoTo, Answers
    <3>3. /\ pc' \in [Workers -> Steps] /\ job' \in [Workers -> Requests \cup {NoRequest}]
          /\ conn' \in [Processes -> Workers \cup {NoWorker}]
          /\ answer' \in [Requests -> Answers]
      <4>1. answer' \in [Requests -> Answers]
        <5>1. PICK a \in Answers : answer' = [answer EXCEPT ![job[w]] = a]
          BY <3>2
        <5>2. answer \in [Requests -> Answers]
          BY DEF TypeOK
        <5> HIDE DEF Answers
        <5> QED
          BY <5>1, <5>2
      <4>2. pc' \in [Workers -> Steps] /\ job' \in [Workers -> Requests \cup {NoRequest}]
        BY <3>2 DEF TypeOK, Steps
      <4>3. conn' \in [Processes -> Workers \cup {NoWorker}]
        BY <3>2 DEF TypeOK
      <4> QED
        BY <4>1, <4>2, <4>3
    <3>4. \A v \in Workers : pc'[v] \in InTxn <=> conn'[Host[v]] = v
      BY <3>2, HostAssumption DEF TypeOK, InTxn
    <3> QED
      BY <3>1, <3>2, <3>3, <3>4 DEF TypeOK
  <2>2. HandledOnce'
    BY <1>6 DEF TypeOK, HandledOnce, Passed, Throw, MayOrphan, Executes, Finish, Release, GoTo
  <2>3. GateUnlessMoved'
    BY <1>6 DEF TypeOK, GateUnlessMoved, Passed, HandledOnce, Throw, Finish,
       Release, GoTo
  <2>4. ConfirmedIsStored'
    BY <1>6 DEF TypeOK, ConfirmedIsStored, Passed, HandledOnce, Throw, Finish,
       Release, GoTo
  <2>5. KnownIsStored'
    BY <1>6 DEF TypeOK, KnownIsStored, Passed, HandledOnce, Throw, Finish,
       Release, GoTo
  <2>6. ListIsCurrent'
    BY <1>6 DEF TypeOK, ListIsCurrent, Passed, HandledOnce, Throw, Finish,
       Release, GoTo
  <2>7. SeenClear'
    <3>1. \A x \in Requests : Kind(x) = "schedule" /\ Passed(x)' => Passed(x) /\ seen'[x] = seen[x]
      BY <1>6 DEF TypeOK, HandledOnce, Passed, Throw, MayOrphan, Executes, Finish, Release, GoTo
    <3>2. moved \subseteq moved' /\ \A x \in Requests : gate'[x] = gate[x] \/ x \in moved'
      BY <1>6 DEF TypeOK, Throw, Finish, Release, GoTo
    <3> QED
      BY <3>1, <3>2, SeenClearKept
  <2> QED
    BY <2>1, <2>2, <2>3, <2>4, <2>5, <2>6, <2>7
<1>7. ASSUME NEW p \in Processes, Restart(p)
      PROVE  IInv'
  <2>1. TypeOK'
    BY <1>7 DEF TypeOK, HandledOnce, Restart, MayOrphan, Executes
  <2>2. HandledOnce'
    BY <1>7 DEF TypeOK, HandledOnce, Passed, Restart, MayOrphan, Executes
  <2>3. GateUnlessMoved'
    BY <1>7 DEF TypeOK, GateUnlessMoved, HandledOnce, Restart, MayOrphan, Executes
  <2>4. ConfirmedIsStored'
    BY <1>7 DEF TypeOK, ConfirmedIsStored, HandledOnce, Restart, MayOrphan, Executes
  <2>5. KnownIsStored'
    BY <1>7 DEF TypeOK, KnownIsStored, HandledOnce, Restart, MayOrphan, Executes
  <2>6. ListIsCurrent'
    BY <1>7 DEF TypeOK, ListIsCurrent, HandledOnce, Restart, MayOrphan, Executes
  <2>7. SeenClear'
    <3>1. \A x \in Requests : Kind(x) = "schedule" /\ Passed(x)' => Passed(x) /\ seen'[x] = seen[x]
      BY <1>7 DEF TypeOK, HandledOnce, Passed, Restart, MayOrphan, Executes
    <3>2. moved \subseteq moved' /\ \A x \in Requests : gate'[x] = gate[x] \/ x \in moved'
      BY <1>7 DEF TypeOK, Restart
    <3> QED
      BY <3>1, <3>2, SeenClearKept
  <2> QED
    BY <2>1, <2>2, <2>3, <2>4, <2>5, <2>6, <2>7
<1>8. ASSUME NEW r \in orphans, ServerEnds(r)
      PROVE  IInv'
  <2>0. r \in Requests /\ answer[r] = "error" /\ Kind(r) # "list" /\ Passed(r)
    BY DEF TypeOK, HandledOnce, Passed
  <2>1. TypeOK'
    BY <1>8, <2>0 DEF TypeOK, ServerEnds, Persist, Finds
  <2>2. HandledOnce'
    BY <1>8, <2>0 DEF HandledOnce, ServerEnds, Persist, Finds
  <2>3. GateUnlessMoved'
    BY <1>8, <2>0 DEF TypeOK, GateUnlessMoved, ServerEnds, Persist, Finds
  <2>4. ConfirmedIsStored' /\ KnownIsStored' /\ ListIsCurrent'
    BY <1>8 DEF ConfirmedIsStored, KnownIsStored, ListIsCurrent, ServerEnds, Persist, Finds
  <2>5. SeenClear'
    <3>1. \A x \in Requests : Kind(x) = "schedule" /\ Passed(x)' => Passed(x) /\ seen'[x] = seen[x]
      BY <1>8, <2>0 DEF Passed, ServerEnds, Persist, Finds
    <3>2. moved \subseteq moved' /\ \A x \in Requests : gate'[x] = gate[x] \/ x \in moved'
      BY <1>8, <2>0 DEF TypeOK, ServerEnds, Persist, Finds
    <3> QED
      BY <3>1, <3>2, SeenClearKept
  <2> QED
    BY <2>1, <2>2, <2>3, <2>4, <2>5
<1>9. CASE UNCHANGED vars
  <2>1. TypeOK' /\ HandledOnce' /\ GateUnlessMoved' /\ ConfirmedIsStored'
        /\ KnownIsStored' /\ ListIsCurrent'
    BY <1>9 DEF TypeOK, HandledOnce, GateUnlessMoved, SeenClear, ConfirmedIsStored,
       KnownIsStored, ListIsCurrent, Passed, vars
  <2>2. SeenClear'
    BY <1>9 DEF vars, SeenClear, Passed, InConflict
  <2> QED
    BY <2>1, <2>2
<1> QED
  BY <1>1, <1>2, <1>3, <1>4, <1>5, <1>6, <1>7, <1>8, <1>9 DEF Next

(* A thread holds the connection of its process exactly while it is in a    *)
(* transaction.                                                            *)
THEOREM TypeCorrect == Spec => []TypeOK
<1>1. IInv => TypeOK
  BY DEF IInv
<1> QED
  BY <1>1, InitInvariant, StepInvariant, PTL DEF Spec

(* Of two flights at one gate at one time one was not checked or was moved, *)
(* or each check ran before the other flight was stored.                   *)
THEOREM ConflictsExplained == Spec => []ConflictExplained
<1>1. IInv => ConflictExplained
  BY ExplainedBySeen DEF IInv
<1> QED
  BY <1>1, InitInvariant, StepInvariant, PTL DEF Spec

(* GET /flights is empty, or has all flights that had been confirmed and    *)
(* none of another tenant.                                                 *)
THEOREM ListsCurrent == Spec => []ListIsCurrent
<1>1. IInv => ListIsCurrent
  BY DEF IInv
<1> QED
  BY <1>1, InitInvariant, StepInvariant, PTL DEF Spec
=============================================================================
