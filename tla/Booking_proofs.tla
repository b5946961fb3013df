--------------------------- MODULE Booking_proofs ---------------------------
(***************************************************************************)
(* What Booking promises for any number of threads, processes and requests. *)
(* SoldOnce rests on OneWriter, the unique index over open transactions;   *)
(* LatestReportShown on NoLateReport, which holds because an UPDATE is let *)
(* through only when no transaction on the same bag is open, so that those *)
(* that had ended before it came have either been committed by then or     *)
(* never will be.  What a confirmation implies needs what a thread knows   *)
(* of its transaction at each step (ExecutedIsWritten).  The second half    *)
(* shows that Booking implements Inventory, which also needs that every     *)
(* row written refers to what is stored (WritesStand).                      *)
(***************************************************************************)
EXTENDS Booking, TLAPS

(* An update names a tag. *)
LEMMA UpdateTag == \A r \in Requests : Kind(r) = "status" => Attr[r].key \in Tags
BY RequestAssumption DEF RequestAttr, Kind

(* The initial state satisfies the invariant. *)
LEMMA InitInvariant == Init => IInv
BY HostAssumption, RequestAssumption DEF Init, IInv, Running, TypeOK,
   OneThreadPerRequest, WrittenWasTaken, OneWriter, SoldOnce, EarlierEnded,
   NoLateReport, LatestReportShown, ExecutedIsWritten, ConfirmedIsStored,
   ReportTakesEffect

(* Every step keeps it. *)
LEMMA StepInvariant == IInv /\ [Next]_vars => IInv'
<1> SUFFICES ASSUME IInv, [Next]_vars PROVE IInv'
  OBVIOUS
<1> USE HostAssumption, RequestAssumption, UpdateTag DEF IInv, Kind, Alike
<1>1. ASSUME NEW w \in Workers, NEW r \in Requests, Receive(w, r)
      PROVE  IInv'
  <2>1. TypeOK' /\ OneThreadPerRequest' /\ WrittenWasTaken' /\ OneWriter'
    BY <1>1, SMTT(30) DEF TypeOK, OneThreadPerRequest, WrittenWasTaken, OneWriter,
       Running, Receive, GoTo
  <2>2. SoldOnce' /\ EarlierEnded' /\ ExecutedIsWritten' /\ ConfirmedIsStored' /\ ReportTakesEffect'
    BY <1>1 DEF TypeOK, SoldOnce, EarlierEnded, ExecutedIsWritten,
       ConfirmedIsStored, ReportTakesEffect, Running, Receive, GoTo
  <2>3. NoLateReport'
    <3>1. r \notin staged \cup stored
      BY <1>1 DEF WrittenWasTaken, TypeOK, Receive
    <3>2. \A x \in stored : earlier'[x] = earlier[x]
      BY <1>1, <3>1 DEF TypeOK, Receive
    <3> QED
      BY <1>1, <3>2 DEF NoLateReport, Receive
  <2>4. LatestReportShown'
    <3>1. r \notin staged \cup stored
      BY <1>1 DEF WrittenWasTaken, TypeOK, Receive
    <3>2. \A x \in stored : earlier'[x] = earlier[x]
      BY <1>1, <3>1 DEF TypeOK, Receive
    <3> QED
      BY <1>1, <3>2 DEF LatestReportShown, Receive
  <2> QED
    BY <2>1, <2>2, <2>3, <2>4
<1>2. ASSUME NEW w \in Workers, Begin(w)
      PROVE  IInv'
  BY <1>2 DEF TypeOK, OneThreadPerRequest, WrittenWasTaken, OneWriter,
     SoldOnce, EarlierEnded, NoLateReport, LatestReportShown,
     ExecutedIsWritten, ConfirmedIsStored, ReportTakesEffect, Running, Begin,
     GoTo
<1>3. ASSUME NEW w \in Workers, BeginThrows(w)
      PROVE  IInv'
  BY <1>3 DEF TypeOK, OneThreadPerRequest, WrittenWasTaken, OneWriter,
     SoldOnce, EarlierEnded, NoLateReport, LatestReportShown,
     ExecutedIsWritten, ConfirmedIsStored, ReportTakesEffect, Running,
     BeginThrows, Finish, GoTo
<1>4. ASSUME NEW w \in Workers, Execute(w)
      PROVE  IInv'
  <2>1. OneThreadPerRequest' /\ WrittenWasTaken' /\ OneWriter' /\ SoldOnce' /\ EarlierEnded'
        /\ LatestReportShown' /\ ConfirmedIsStored' /\ ReportTakesEffect'
    BY <1>4 DEF TypeOK, OneThreadPerRequest, WrittenWasTaken, OneWriter,
       SoldOnce, EarlierEnded, NoLateReport, LatestReportShown,
       ExecutedIsWritten, ConfirmedIsStored, ReportTakesEffect, Running,
       Execute, InTheWay, Taken, Referred, GoTo
  <2>2. TypeOK'
    <3>1. job[w] \in Requests /\ answer[job[w]] = "none"
      BY <1>4 DEF TypeOK, Running, Execute
    <3>2. job[w] \notin stored
      BY <1>4, <3>1 DEF WrittenWasTaken, OneThreadPerRequest, Running, Execute
    <3> QED
      BY <1>4, <3>1, <3>2 DEF TypeOK, Running, Execute, GoTo
  <2>3. NoLateReport'
    <3>1. \A x \in Requests : job[w] \notin earlier[x]
      BY <1>4 DEF EarlierEnded, TypeOK, Running, Execute
    <3> QED
      BY <1>4, <3>1 DEF NoLateReport, TypeOK, Execute
  <2>4. ExecutedIsWritten'
    <3>1. job[w] \in Requests /\ pc' = [pc EXCEPT ![w] = "commit"] /\ staged \subseteq staged'
      BY <1>4 DEF TypeOK, Running, Execute, GoTo
    <3>2. ASSUME NEW q \in earlier[job[w]], Kind(q) = "bag", answer[q] = "ok",
                 Kind(job[w]) = "status"
          PROVE  Tagged(Attr[job[w]].key)
      <4>1. q \in Requests /\ Attr[q].key = Attr[job[w]].key
        BY <3>1, <3>2 DEF TypeOK, EarlierEnded
      <4>2. q \in stored
        BY <3>2, <4>1 DEF ConfirmedIsStored
      <4> QED
        BY <3>2, <4>1, <4>2 DEF Tagged
    <3>3. /\ \/ Kind(job[w]) # "status"
             \/ \E q \in earlier[job[w]] : Kind(q) = "bag" /\ answer[q] = "ok"
             => job[w] \in staged'
          /\ Kind(job[w]) = "bag" => Attr[job[w]].ticket \in stored
      BY <1>4, <3>2 DEF Execute, Referred
    <3> QED
      BY <1>4, <3>1, <3>3 DEF ExecutedIsWritten, TypeOK, Running, Execute
  <2> QED
    BY <2>1, <2>2, <2>3, <2>4
<1>5. ASSUME NEW w \in Workers, Violation(w)
      PROVE  IInv'
  BY <1>5 DEF TypeOK, OneThreadPerRequest, WrittenWasTaken, OneWriter,
     SoldOnce, EarlierEnded, NoLateReport, LatestReportShown,
     ExecutedIsWritten, ConfirmedIsStored, ReportTakesEffect, Running,
     Violation, Finish, GoTo
<1>6. ASSUME NEW w \in Workers, SendCommit(w)
      PROVE  IInv'
  BY <1>6 DEF TypeOK, OneThreadPerRequest, WrittenWasTaken, OneWriter,
     SoldOnce, EarlierEnded, NoLateReport, LatestReportShown,
     ExecutedIsWritten, ConfirmedIsStored, ReportTakesEffect, Running,
     SendCommit, GoTo
<1>7. ASSUME NEW w \in Workers, Committed(w)
      PROVE  IInv'
  <2>1. TypeOK' /\ OneThreadPerRequest' /\ WrittenWasTaken' /\ OneWriter' /\ SoldOnce'
        /\ EarlierEnded' /\ NoLateReport' /\ LatestReportShown'
        /\ ExecutedIsWritten' /\ ReportTakesEffect'
    BY <1>7 DEF TypeOK, OneThreadPerRequest, WrittenWasTaken, OneWriter,
       SoldOnce, EarlierEnded, NoLateReport, LatestReportShown,
       ExecutedIsWritten, ConfirmedIsStored, ReportTakesEffect, Running,
       Committed, Finish, GoTo
  <2>2. ConfirmedIsStored'
    <3>1. job[w] \in Requests
      BY <1>7 DEF TypeOK, Running, Committed
    <3>2. /\ Kind(job[w]) # "status" => job[w] \in stored
          /\ Kind(job[w]) = "bag" => Attr[job[w]].ticket \in stored
      BY <1>7 DEF ExecutedIsWritten, Running, Committed
    <3> QED
      BY <1>7, <3>1, <3>2 DEF ConfirmedIsStored, TypeOK, Committed, Finish
  <2> QED
    BY <2>1, <2>2
<1>8. ASSUME NEW w \in Workers, CallThrows(w)
      PROVE  IInv'
  BY <1>8 DEF TypeOK, OneThreadPerRequest, WrittenWasTaken, OneWriter,
     SoldOnce, EarlierEnded, NoLateReport, LatestReportShown,
     ExecutedIsWritten, ConfirmedIsStored, ReportTakesEffect, Running,
     CallThrows, Finish, GoTo
<1>9. ASSUME NEW w \in Workers, ServerFails(w)
      PROVE  IInv'
  BY <1>9 DEF TypeOK, OneThreadPerRequest, WrittenWasTaken, OneWriter,
     SoldOnce, EarlierEnded, NoLateReport, LatestReportShown,
     ExecutedIsWritten, ConfirmedIsStored, ReportTakesEffect, Running,
     ServerFails, Finish, Discard, GoTo
<1>10. ASSUME NEW r \in Requests, ServerCommits(r)
      PROVE  IInv'
  <2>1. TypeOK' /\ OneThreadPerRequest' /\ WrittenWasTaken' /\ OneWriter' /\ EarlierEnded'
        /\ ExecutedIsWritten' /\ ConfirmedIsStored' /\ ReportTakesEffect'
    BY <1>10 DEF TypeOK, OneThreadPerRequest, WrittenWasTaken, OneWriter,
       SoldOnce, EarlierEnded, NoLateReport, LatestReportShown,
       ExecutedIsWritten, ConfirmedIsStored, ReportTakesEffect, Running,
       ServerCommits, Discard
  <2>2. SoldOnce'
    <3>1. r \in staged /\ stored' = stored \cup {r}
      BY <1>10 DEF TypeOK, ServerCommits
    <3> QED
      BY <3>1 DEF SoldOnce, OneWriter, TypeOK
  <2>3. NoLateReport'
    <3>1. r \in staged /\ stored' = stored \cup {r} /\ staged' = staged \ {r}
      BY <1>10 DEF TypeOK, ServerCommits, Discard
    <3>2. \A q \in staged' : ~Alike(q, r)
      BY <3>1 DEF OneWriter
    <3> QED
      BY <1>10, <3>1, <3>2 DEF NoLateReport, ServerCommits
  <2>4. LatestReportShown'
    <3>1. /\ r \in staged /\ stored' = stored \cup {r}
          /\ r \notin earlier[r]
      BY <1>10 DEF TypeOK, EarlierEnded, ServerCommits
    <3>2. ASSUME NEW x \in stored', Kind(x) = "status"
          PROVE  shown'[Attr[x].key] \notin earlier[x]
      <4>1. CASE Kind(r) = "status" /\ Attr[r].key = Attr[x].key
        <5>1. shown'[Attr[x].key] = r
          BY <1>10, <3>1, <4>1 DEF TypeOK, ServerCommits
        <5> QED
          BY <3>1, <3>2, <4>1, <5>1 DEF NoLateReport
      <4>2. CASE ~(Kind(r) = "status" /\ Attr[r].key = Attr[x].key)
        <5>1. x \in stored /\ shown'[Attr[x].key] = shown[Attr[x].key]
          BY <1>10, <3>1, <3>2, <4>2 DEF TypeOK, ServerCommits
        <5> QED
          BY <3>2, <5>1 DEF LatestReportShown
      <4> QED
        BY <4>1, <4>2
    <3> QED
      BY <1>10, <3>2 DEF LatestReportShown, ServerCommits
  <2> QED
    BY <2>1, <2>2, <2>3, <2>4
<1>11. ASSUME NEW r \in Requests, ServerAborts(r)
      PROVE  IInv'
  BY <1>11 DEF TypeOK, OneThreadPerRequest, WrittenWasTaken, OneWriter,
     SoldOnce, EarlierEnded, NoLateReport, LatestReportShown,
     ExecutedIsWritten, ConfirmedIsStored, ReportTakesEffect, Running,
     ServerAborts, Discard
<1>12. ASSUME NEW p \in Processes, LoseLink(p)
      PROVE  IInv'
  BY <1>12 DEF TypeOK, OneThreadPerRequest, WrittenWasTaken, OneWriter,
     SoldOnce, EarlierEnded, NoLateReport, LatestReportShown,
     ExecutedIsWritten, ConfirmedIsStored, ReportTakesEffect, Running,
     LoseLink
<1>13. ASSUME NEW p \in Processes, Restart(p)
      PROVE  IInv'
  BY <1>13, SMTT(30) DEF TypeOK, OneThreadPerRequest, WrittenWasTaken, OneWriter,
     SoldOnce, EarlierEnded, NoLateReport, LatestReportShown,
     ExecutedIsWritten, ConfirmedIsStored, ReportTakesEffect, Running, Restart
<1>14. ASSUME NEW w \in Workers, Crash(w)
      PROVE  IInv'
  BY <1>14, <1>13 DEF Crash
<1>15. CASE UNCHANGED vars
  BY <1>15 DEF vars, TypeOK, OneThreadPerRequest, WrittenWasTaken, OneWriter,
     SoldOnce, EarlierEnded, NoLateReport, LatestReportShown,
     ExecutedIsWritten, ConfirmedIsStored, ReportTakesEffect, Running
<1> QED
  BY <1>1, <1>2, <1>3, <1>4, <1>5, <1>6, <1>7, <1>8, <1>9, <1>10, <1>11,
     <1>12, <1>13, <1>14, <1>15 DEF Next, Work, Server

(* The initial state has no transactions. *)
LEMMA InitWrites == Init => WritesStand
BY DEF Init, WritesStand, AwaitedIsSent, StagedRefers

(* A transaction's COMMIT is sent before it is waited for, and what its     *)
(* statement has found stays: no row is ever deleted.                      *)
LEMMA StepWrites == IInv /\ WritesStand /\ [Next]_vars => WritesStand'
<1> SUFFICES ASSUME IInv, WritesStand, [Next]_vars PROVE WritesStand'
  OBVIOUS
<1> USE HostAssumption, RequestAssumption DEF IInv, WritesStand, TypeOK
<1>1. AwaitedIsSent'
  <2> USE DEF AwaitedIsSent
  <2>1. ASSUME NEW w \in Workers, Execute(w)
        PROVE  AwaitedIsSent'
    <3>1. \A v \in Workers : pc[v] = "committing" => job[v] # job[w]
      BY <2>1 DEF OneThreadPerRequest, Execute, Running
    <3> QED
      BY <2>1, <3>1 DEF Execute, Running, GoTo
  <2>2. ASSUME NEW w \in Workers, NEW r \in Requests, Receive(w, r)
        PROVE  AwaitedIsSent'
    BY <2>2 DEF Receive, GoTo
  <2>3. ASSUME NEW w \in Workers, Begin(w) \/ BeginThrows(w) \/ Violation(w) \/ SendCommit(w)
        PROVE  AwaitedIsSent'
    BY <2>3 DEF Begin, BeginThrows, Violation, SendCommit, Running, Finish, GoTo
  <2>4. ASSUME NEW w \in Workers, Committed(w) \/ CallThrows(w) \/ ServerFails(w)
        PROVE  AwaitedIsSent'
    BY <2>4 DEF Committed, CallThrows, ServerFails, Running, Finish, Discard, GoTo
  <2>5. ASSUME NEW r \in Requests, Server(r)
        PROVE  AwaitedIsSent'
    BY <2>5 DEF Server, ServerCommits, ServerAborts, Discard
  <2>6. ASSUME NEW p \in Processes, LoseLink(p) \/ Restart(p)
        PROVE  AwaitedIsSent'
    BY <2>6 DEF LoseLink, Restart
  <2>7. ASSUME NEW w \in Workers, Crash(w)
        PROVE  AwaitedIsSent'
    BY <2>6, <2>7 DEF Crash
  <2>8. CASE UNCHANGED vars
    BY <2>8 DEF vars
  <2> QED
    BY <2>1, <2>2, <2>3, <2>4, <2>5, <2>6, <2>7, <2>8 DEF Next, Work
<1>2. StagedRefers'
  <2> USE DEF StagedRefers, Referred, Tagged
  <2>1. stored \subseteq stored'
    BY DEF Next, Work, Server, Receive, Begin, BeginThrows, Execute, Violation, SendCommit,
       Committed, CallThrows, Crash, Restart, ServerFails, ServerCommits, ServerAborts, LoseLink,
       vars
  <2>2. CASE staged' \subseteq staged
    BY <2>1, <2>2
  <2>3. ASSUME NEW w \in Workers, Execute(w)
        PROVE  StagedRefers'
    BY <2>3 DEF Execute
  <2>4. CASE ~(\E w \in Workers : Execute(w))
    <3>1. staged' \subseteq staged
      BY <2>4 DEF Next, Work, Server, Receive, Begin, BeginThrows, Violation, SendCommit,
         Committed, CallThrows, Crash, Restart, ServerFails, ServerCommits, ServerAborts,
         LoseLink, Finish, Discard, vars
    <3> QED
      BY <2>2, <3>1
  <2> QED
    BY <2>3, <2>4
<1> QED
  BY <1>1, <1>2

(* What a statement waits for was written by a request that is over, or by *)
(* a thread past its own statement, which waits for nothing.               *)
LEMMA WaitsEnd ==
  ASSUME TypeOK, OneThreadPerRequest, WrittenWasTaken, AwaitedIsSent
  PROVE  \A q \in staged : EndsAlone(q)
<1> SUFFICES ASSUME NEW q \in staged PROVE EndsAlone(q)
  OBVIOUS
<1>1. CASE answer[q] # "none"
  BY <1>1, RequestAssumption DEF TypeOK, EndsAlone
<1>2. CASE \E w \in Workers : job[w] = q /\ pc[w] \in {"commit", "committing"}
  BY <1>2 DEF AwaitedIsSent, EndsAlone
<1> QED
  BY <1>1, <1>2 DEF WrittenWasTaken

(* Booking is type correct: a request is handled by a thread that has not  *)
(* answered it, and nothing is both committed and in a transaction.        *)
THEOREM TypeCorrect == Spec => []TypeOK
<1>1. IInv => TypeOK
  BY DEF IInv
<1> QED
  BY <1>1, InitInvariant, StepInvariant, PTL DEF Spec

(* Seats are sold once and tags are on one bag, with any number of         *)
(* processes, lost connections and restarts.                               *)
THEOREM SeatSoldOnce == Spec => []SoldOnce
<1>1. IInv => SoldOnce
  BY DEF IInv
<1> QED
  BY <1>1, InitInvariant, StepInvariant, PTL DEF Spec

(* A booking or check-in that is confirmed is in the database.             *)
THEOREM ConfirmationHolds == Spec => []ConfirmedIsStored
<1>1. IInv => ConfirmedIsStored
  BY DEF IInv
<1> QED
  BY <1>1, InitInvariant, StepInvariant, PTL DEF Spec

(* No late COMMIT overwrites a later report of a bag.                      *)
THEOREM LatestReportHolds == Spec => []LatestReportShown
<1>1. IInv => LatestReportShown
  BY DEF IInv
<1> QED
  BY <1>1, InitInvariant, StepInvariant, PTL DEF Spec

(* A report that is confirmed, of a bag whose check-in had been confirmed  *)
(* when it came, is in the bag's row.                                      *)
THEOREM ReportHolds == Spec => []ReportTakesEffect
<1>1. IInv => ReportTakesEffect
  BY DEF IInv
<1> QED
  BY <1>1, InitInvariant, StepInvariant, PTL DEF Spec

(* No two statements wait for each other, and none waits for a transaction *)
(* that nobody ends: the waits inside PostgreSQL are over when the one     *)
(* transaction that is in the way is.                                      *)
THEOREM WaitsAreShort == Spec => []NoCircularWait
<1>1. IInv /\ WritesStand => NoCircularWait
  BY WaitsEnd DEF IInv, WritesStand, NoCircularWait, InTheWay
<1> QED
  BY <1>1, InitInvariant, StepInvariant, InitWrites, StepWrites, PTL DEF Spec
-----------------------------------------------------------------------------
(* Booking implements Inventory. *)

Missed   == {r \in Requests : MissedItsBag(r)}
Doubtful == {r \in staged : answer[r] # "none"}
Replies  == [r \in Requests |-> Reply(r)]
Handled(r) == \E w \in Workers : job[w] = r

(* How the invariant reads through the mapping. *)
LEMMA RepliesRead ==
  ASSUME IInv
  PROVE  /\ \A r \in Requests : Replies[r] = "pending" <=> Handled(r)
         /\ \A r \in Requests : Replies[r] = "none" => answer[r] = "none" /\ ~Handled(r)
         /\ \A w \in Workers : pc[w] # "idle" => job[w] \in Requests /\ Handled(job[w])
                                                 /\ answer[job[w]] = "none"
BY DEF IInv, TypeOK, Replies, Reply, Handled

(* A row in a transaction may be committed as far as the others go, and is *)
(* the only one of its seat, tag or bag in a transaction.                  *)
LEMMA StagedPossible ==
  ASSUME IInv, WritesStand, NEW r \in staged
  PROVE  Promise!Possible(r) /\ \A q \in staged : Promise!Alike(q, r) => q = r
<1>1. r \in Requests /\ r \notin stored /\ r \notin Missed
  BY DEF IInv, TypeOK, Missed, MissedItsBag
<1>2. Kind(r) # "status" => \A q \in stored : ~Alike(q, r)
  BY <1>1 DEF IInv, OneWriter, Kind, Alike
<1>3. Kind(r) = "bag" => Attr[r].ticket \in stored
  BY DEF WritesStand, StagedRefers, Referred
<1>4. Kind(r) = "status" => Promise!BagOf(r) # {}
  BY DEF WritesStand, StagedRefers, Tagged, Promise!BagOf, Promise!Kind, Kind
<1>5. \A q \in staged : Alike(q, r) => q = r
  BY DEF IInv, OneWriter, Alike, Kind
<1> QED
  BY <1>1, <1>2, <1>3, <1>4, <1>5 DEF Promise!Possible, Promise!Alike, Promise!Kind, Alike, Kind,
     Missed

(* Threads other than w keep their requests, and so does w its own's reply *)
(* until it is over.                                                       *)
LEMMA FinishSeen ==
  ASSUME IInv, NEW w \in Workers, pc[w] # "idle", NEW a \in {"ok", "error"}, Finish(w, a),
         UNCHANGED <<link, stored>>, staged' \in {staged, staged \ {job[w]}}
  PROVE  /\ Replies' = [Replies EXCEPT ![job[w]] = a]
         /\ Missed' = Missed \ {job[w]}
         /\ Doubtful' = Doubtful \cup ({job[w]} \cap staged')
<1> DEFINE r == job[w]
<1>1. /\ r \in Requests /\ answer[r] = "none"
      /\ \A v \in Workers : v # w => job[v] # r
      /\ job' = [job EXCEPT ![w] = NoRequest] /\ pc' = [pc EXCEPT ![w] = "idle"]
      /\ answer' = [answer EXCEPT ![r] = a]
      /\ answer \in [Requests -> {"none", "ok", "error", "lost"}]
      /\ job \in [Workers -> Requests \cup {NoRequest}]
      /\ pc \in [Workers -> {"idle", "begin", "execute", "commit", "committing", "crash"}]
  BY DEF IInv, TypeOK, OneThreadPerRequest, Finish, GoTo
<1>2. \A q \in Requests : Handled(q)' <=> Handled(q) /\ q # r
  BY <1>1, RequestAssumption DEF Handled
<1>3. Replies' = [Replies EXCEPT ![r] = a]
  <2>1. \A q \in Requests : Reply(q)' = IF q = r THEN a ELSE Reply(q)
    BY <1>1, <1>2 DEF Reply, Handled
  <2> QED
    BY <2>1 DEF Replies
<1>4. \A q \in Requests : MissedItsBag(q)' <=> MissedItsBag(q) /\ q # r
  <2> SUFFICES ASSUME NEW q \in Requests PROVE MissedItsBag(q)' <=> MissedItsBag(q) /\ q # r
    OBVIOUS
  <2>1. CASE q = r
    BY <1>1, <2>1, RequestAssumption DEF MissedItsBag
  <2>2. CASE q # r
    <3>1. q \in staged' \cup stored' <=> q \in staged \cup stored
      BY <2>2
    <3>2. \A v \in Workers : job'[v] = q <=> job[v] = q /\ v # w
      BY <1>1, <2>2, RequestAssumption
    <3>3. job[w] # q /\ \A v \in Workers : v # w => pc'[v] = pc[v]
      BY <1>1, <2>2
    <3> QED
      BY <2>2, <3>1, <3>2, <3>3 DEF MissedItsBag, Running
  <2> QED
    BY <2>1, <2>2
<1>5. Missed' = Missed \ {r}
  BY <1>4 DEF Missed
<1>6. Doubtful' = Doubtful \cup ({r} \cap staged')
  BY <1>1 DEF Doubtful, IInv, TypeOK
<1> QED
  BY <1>3, <1>5, <1>6

(* An answer "error", wherever it comes from. *)
LEMMA ErrorSeen ==
  ASSUME IInv, WritesStand, NEW w \in Workers, pc[w] # "idle", Finish(w, "error"),
         UNCHANGED <<link, stored, shown>>, staged' \in {staged, staged \ {job[w]}}
  PROVE  Promise!Next
<1> DEFINE r == job[w]  D == {r} \cap staged'
<1>1. r \in Requests /\ Replies[r] = "pending"
  BY RepliesRead
<1>2. Replies' = [q \in Requests |-> IF q \in {r} THEN "error" ELSE Replies[q]]
  BY <1>1, FinishSeen DEF Replies
<1>3. Missed' = Missed \ {r} /\ Doubtful' = Doubtful \cup D
  BY FinishSeen
<1>4. Promise!LeaveInDoubt(D)
  <2>1. D \subseteq staged /\ Doubtful \subseteq staged
    BY DEF Doubtful
  <2> QED
    BY <1>3, <2>1, StagedPossible DEF Promise!LeaveInDoubt, Doubtful
<1>5. Promise!GiveUp({r}, "error")
  <2>1. \E E \in SUBSET {r} : Promise!LeaveInDoubt(E)
    BY <1>4 DEF Promise!LeaveInDoubt
  <2> QED
    BY <1>2, <1>3, <2>1 DEF Promise!GiveUp, Replies, Missed
<1>6. {r} \in SUBSET Promise!Pending
  BY <1>1 DEF Promise!Pending, Replies
<1> QED
  BY <1>5, <1>6 DEF Promise!Next

(* Calls that nobody sees. *)
LEMMA Unseen ==
  ASSUME UNCHANGED <<job, stored, shown, answer>>, Missed' = Missed, Doubtful' = Doubtful
  PROVE  UNCHANGED Promise!vars
BY DEF Promise!vars, Missed, Doubtful, Reply

(* One step of a handler, of PostgreSQL or of the network. *)
LEMMA StepPromised ==
  ASSUME IInv, WritesStand, [Next]_vars
  PROVE  [Promise!Next]_(Promise!vars)
<1> USE HostAssumption, RequestAssumption DEF IInv
<1>1. ASSUME NEW w \in Workers, NEW r \in Requests, Receive(w, r)
      PROVE  Promise!Next
  <2>1. Replies[r] = "none" /\ answer[r] = "none" /\ r \notin staged \cup stored
        /\ \A v \in Workers : job[v] # r
    BY <1>1 DEF Receive, TypeOK, WrittenWasTaken, Replies, Reply
  <2>2. Missed' = Missed
    BY <1>1, <2>1 DEF Receive, TypeOK, Missed, MissedItsBag, Running, GoTo
  <2>3. Doubtful' = Doubtful /\ UNCHANGED <<stored, shown>>
    BY <1>1, <2>1 DEF Receive, TypeOK, Doubtful
  <2>4. CASE Attr[r].form = "bad"
    <3>1. Replies' = [Replies EXCEPT ![r] = "error"]
      <4>1. \A q \in Requests : Reply(q)' = IF q = r THEN "error" ELSE Reply(q)
        BY <1>1, <2>1, <2>4 DEF Receive, TypeOK, Reply
      <4> QED
        BY <4>1 DEF Replies
    <3>2. Promise!Reject(r)
      BY <2>1, <2>2, <2>3, <3>1 DEF Promise!Reject, Replies, Missed, Doubtful
    <3> QED
      BY <3>2 DEF Promise!Next
  <2>5. CASE Attr[r].form # "bad"
    <3>1. \A q \in Requests : Handled(q)' <=> Handled(q) \/ q = r
      BY <1>1, <2>1, <2>5 DEF Receive, TypeOK, Handled
    <3>2. Replies' = [Replies EXCEPT ![r] = "pending"]
      <4>1. \A q \in Requests : Reply(q)' = IF q = r THEN "pending" ELSE Reply(q)
        BY <1>1, <2>5, <3>1 DEF Receive, Reply, Handled
      <4> QED
        BY <4>1 DEF Replies
    <3>3. Promise!Accept(r)
      BY <2>1, <2>2, <2>3, <3>2 DEF Promise!Accept, Replies, Missed, Doubtful
    <3> QED
      BY <3>3 DEF Promise!Next
  <2> QED
    BY <2>4, <2>5
<1>2. ASSUME NEW w \in Workers, Begin(w) \/ SendCommit(w)
      PROVE  UNCHANGED Promise!vars
  <2>1. Missed' = Missed
    BY <1>2 DEF Begin, SendCommit, TypeOK, Missed, MissedItsBag, Running, GoTo
  <2>2. Doubtful' = Doubtful
    BY <1>2 DEF Begin, SendCommit, Doubtful
  <2> QED
    BY <1>2, <2>1, <2>2, Unseen DEF Begin, SendCommit
<1>3. ASSUME NEW w \in Workers, Execute(w)
      PROVE  [Promise!Next]_(Promise!vars)
  <2> DEFINE r == job[w]
  <2>1. /\ r \in Requests /\ Handled(r) /\ answer[r] = "none" /\ r \notin staged \cup stored
        /\ pc' = [pc EXCEPT ![w] = "commit"] /\ link[Host[w]]
        /\ UNCHANGED <<job, link, stored, shown, answer>>
        /\ \A v \in Workers : v # w => job[v] # r
    <3>1. pc[w] = "execute" /\ pc[w] # "idle"
      BY <1>3 DEF Execute, Running
    <3>2. \A v \in Workers : v # w => job[v] # r
      BY <3>1 DEF OneThreadPerRequest, TypeOK
    <3>3. r \notin staged \cup stored
      BY <3>1, <3>2, RepliesRead DEF WrittenWasTaken
    <3> QED
      BY <1>3, <3>1, <3>2, <3>3, RepliesRead DEF Execute, Running, GoTo
  <2>2. Doubtful' = Doubtful
    BY <1>3, <2>1 DEF Execute, Doubtful
  <2>3. \A q \in Requests : q # r => (MissedItsBag(q)' <=> MissedItsBag(q))
    BY <1>3, <2>1 DEF Execute, MissedItsBag, Running, TypeOK
  <2>4. ~MissedItsBag(r)
    BY <1>3, <2>1 DEF MissedItsBag, Execute, Running
  <2>5. CASE Kind(r) = "status" /\ ~Tagged(Attr[r].key)
    <3>1. UNCHANGED staged
      BY <1>3, <2>5 DEF Execute
    <3>2. MissedItsBag(r)'
      BY <2>1, <3>1 DEF MissedItsBag, Running, TypeOK, Handled
    <3>3. Missed' = Missed \cup {r}
      BY <2>1, <2>3, <3>2 DEF Missed
    <3>4. UNCHANGED Replies
      BY <2>1 DEF Replies, Reply
    <3>5. Promise!Kind(r) = "status" /\ Promise!BagOf(r) = {}
      BY <2>5 DEF Tagged, Promise!BagOf, Promise!Kind, Kind
    <3>6. Replies[r] = "pending"
      BY <2>1 DEF Replies, Reply, Handled
    <3>7. Promise!Miss(r)
      BY <2>1, <2>2, <3>3, <3>4, <3>5, <3>6 DEF Promise!Miss, Replies, Missed, Doubtful
    <3> QED
      BY <2>1, <3>7 DEF Promise!Next
  <2>6. CASE ~(Kind(r) = "status" /\ ~Tagged(Attr[r].key))
    <3>1. staged' = staged \cup {r}
      BY <1>3, <2>6 DEF Execute
    <3>2. ~MissedItsBag(r)'
      BY <2>1, <3>1 DEF MissedItsBag
    <3>3. Missed' = Missed
      BY <2>1, <2>3, <2>4, <3>2 DEF Missed
    <3> QED
      BY <2>1, <2>2, <3>3, Unseen
  <2> QED
    BY <2>5, <2>6
<1>4. ASSUME NEW w \in Workers,
             BeginThrows(w) \/ Violation(w) \/ CallThrows(w) \/ ServerFails(w)
      PROVE  Promise!Next
  <2>1. /\ pc[w] # "idle" /\ Finish(w, "error") /\ UNCHANGED <<link, stored, shown>>
        /\ staged' \in {staged, staged \ {job[w]}}
    BY <1>4 DEF BeginThrows, Violation, CallThrows, ServerFails, Running, Discard
  <2> QED
    BY <2>1, ErrorSeen
<1>5. ASSUME NEW w \in Workers, Committed(w)
      PROVE  Promise!Next
  <2> DEFINE r == job[w]
  <2>1. /\ pc[w] = "committing" /\ pc[w] # "idle" /\ link[Host[w]] /\ r \notin staged
        /\ Finish(w, "ok") /\ UNCHANGED <<link, stored, shown, staged>>
    BY <1>5 DEF Committed, Running
  <2>2. r \in Requests /\ Replies[r] = "pending"
    BY <2>1, RepliesRead
  <2>3. r \in stored \cup Missed
    BY <2>1, <2>2 DEF Missed, MissedItsBag, Running
  <2>4. /\ Replies' = [Replies EXCEPT ![r] = "ok"] /\ Missed' = Missed \ {r}
        /\ Doubtful' = Doubtful
    BY <2>1, FinishSeen
  <2>5. Promise!Confirm(r)
    BY <2>1, <2>2, <2>3, <2>4 DEF Promise!Confirm, Replies, Missed, Doubtful
  <2> QED
    BY <2>2, <2>5 DEF Promise!Next
<1>6. ASSUME NEW r \in Requests, ServerCommits(r)
      PROVE  Promise!Next
  <2>1. /\ r \in staged /\ staged' = staged \ {r} /\ stored' = stored \cup {r}
        /\ UNCHANGED <<pc, job, link, answer>>
    BY <1>6 DEF ServerCommits, Discard, TypeOK
  <2>2. Missed' = Missed
    BY <2>1 DEF Missed, MissedItsBag, Running
  <2>3. Doubtful' = Doubtful \ {r} /\ Replies' = Replies
    BY <2>1 DEF Doubtful, Replies, Reply
  <2>4. Replies[r] = "pending" \/ r \in Doubtful
    BY <2>1 DEF WrittenWasTaken, Replies, Reply, Doubtful
  <2>5. Promise!Possible(r) /\ \A q \in Doubtful : Promise!Alike(q, r) => q = r
    BY <2>1, StagedPossible DEF Doubtful
  <2>6. shown' = IF Promise!Kind(r) = "status" THEN [shown EXCEPT ![Attr[r].key] = r] ELSE shown
    BY <1>6 DEF ServerCommits, Promise!Kind, Kind
  <2>7. Promise!TakeEffect(r)
    BY <2>1, <2>2, <2>3, <2>4, <2>5, <2>6 DEF Promise!TakeEffect, Replies, Missed, Doubtful
  <2> QED
    BY <2>7 DEF Promise!Next
<1>7. ASSUME NEW r \in Requests, ServerAborts(r)
      PROVE  Promise!Next
  <2>1. /\ staged' = staged \ {r} /\ UNCHANGED <<pc, job, link, stored, shown, answer>>
        /\ \A w \in Workers : job[w] = r => ~link[Host[w]]
    BY <1>7 DEF ServerAborts, Discard
  <2>2. Missed' = Missed
    BY <2>1 DEF Missed, MissedItsBag, Running
  <2>3. Doubtful' \in SUBSET Doubtful /\ Replies' = Replies
    BY <2>1 DEF Doubtful, Replies, Reply
  <2>4. Promise!Forget
    BY <2>1, <2>2, <2>3 DEF Promise!Forget, Replies, Missed, Doubtful
  <2> QED
    BY <2>4 DEF Promise!Next
<1>8. ASSUME NEW p \in Processes, LoseLink(p)
      PROVE  Promise!Next
  <2>1. /\ link' = [link EXCEPT ![p] = FALSE]
        /\ UNCHANGED <<pc, job, staged, stored, shown, answer>>
    BY <1>8 DEF LoseLink
  <2>2. Missed' \in SUBSET Missed
    BY <2>1 DEF Missed, MissedItsBag, Running, TypeOK
  <2>3. Doubtful' = Doubtful /\ Replies' = Replies
    BY <2>1 DEF Doubtful, Replies, Reply
  <2>4. Promise!Forget
    BY <2>1, <2>2, <2>3 DEF Promise!Forget, Replies, Missed, Doubtful
  <2> QED
    BY <2>4 DEF Promise!Next
<1>9. ASSUME NEW p \in Processes, Restart(p)
      PROVE  Promise!Next
  <2> DEFINE R == {r \in Requests : \E w \in Workers : Host[w] = p /\ job[w] = r}
             D == R \cap staged
  <2>1. \A r \in R : answer[r] = "none" /\ Replies[r] = "pending"
    BY RepliesRead DEF Handled, TypeOK
  <2>2. \A r \in R, w \in Workers : job[w] = r => Host[w] = p
    BY DEF OneThreadPerRequest
  <2>3. \A r \in Requests : Handled(r)' <=> Handled(r) /\ r \notin R
    BY <1>9, <2>2 DEF Restart, Handled
  <2>4. Replies' = [r \in Requests |-> IF r \in R THEN "lost" ELSE Replies[r]]
    <3>1. \A r \in Requests : Reply(r)' = IF r \in R THEN "lost" ELSE Reply(r)
      BY <1>9, <2>3 DEF Restart, Reply, Handled
    <3> QED
      BY <3>1 DEF Replies
  <2>5. Missed' = Missed \ R
    <3>1. \A r \in Requests, w \in Workers :
            job'[w] = r <=> job[w] = r /\ Host[w] # p
      BY <1>9 DEF Restart
    <3>2. \A w \in Workers : Host[w] # p => pc'[w] = pc[w] /\ link'[Host[w]] = link[Host[w]]
      BY <1>9 DEF Restart, TypeOK
    <3>3. \A r \in Requests : MissedItsBag(r)' <=> MissedItsBag(r) /\ r \notin R
      BY <1>9, <2>2, <3>1, <3>2 DEF MissedItsBag, Running, Restart
    <3> QED
      BY <3>3 DEF Missed
  <2>6. Doubtful' = Doubtful \cup D
    BY <1>9, <2>1 DEF Restart, Doubtful, TypeOK
  <2>7. \E E \in SUBSET R : Promise!LeaveInDoubt(E)
    <3>1. D \in SUBSET R /\ D \subseteq staged /\ Doubtful \subseteq staged
      BY DEF Doubtful
    <3>2. Promise!LeaveInDoubt(D)
      BY <2>6, <3>1, StagedPossible DEF Promise!LeaveInDoubt, Doubtful
    <3> QED
      BY <3>1, <3>2 DEF Promise!LeaveInDoubt
  <2>8. Promise!GiveUp(R, "lost")
    BY <1>9, <2>4, <2>5, <2>7 DEF Promise!GiveUp, Restart, Replies, Missed
  <2>9. R \in SUBSET Promise!Pending
    BY <2>1 DEF Promise!Pending, Replies
  <2> QED
    BY <2>8, <2>9 DEF Promise!Next
<1>10. ASSUME NEW w \in Workers, Crash(w)
       PROVE  Promise!Next
  BY <1>9, <1>10 DEF Crash
<1>11. CASE UNCHANGED vars
  BY <1>11, Unseen DEF vars, Missed, Doubtful, MissedItsBag, Running
<1> QED
  BY <1>1, <1>2, <1>3, <1>4, <1>5, <1>6, <1>7, <1>8, <1>9, <1>10, <1>11 DEF Next, Work, Server

LEMMA InitPromised == Init => Promise!Init
BY RequestAssumption DEF Init, Promise!Init, Reply, MissedItsBag, Running

(* The three requests keep Inventory's promise with any number of threads,  *)
(* processes and requests, through lost connections, COMMITs in doubt and  *)
(* restarts: each takes effect at one moment, confirmed ones surely, and   *)
(* one in doubt keeps its seat or bag until it is known.                   *)
THEOREM InventoryImplemented == Spec => ImplementsInventory
<1>1. IInv /\ WritesStand /\ [Next]_vars => [Promise!Next]_(Promise!vars)
  BY StepPromised
<1> QED
  BY <1>1, InitPromised, InitInvariant, StepInvariant, InitWrites, StepWrites, PTL
     DEF Spec, ImplementsInventory, Promise!Spec
=============================================================================
