--------------------------- MODULE AddFlight_proofs ---------------------------
(***************************************************************************)
(* Proofs about AddFlight, for every set of threads, processes, requests,  *)
(* tenants and plans.                                                      *)
(***************************************************************************)
EXTENDS AddFlight, FiniteSetTheorems, TLAPS

(* The constants whose value the proofs expand. *)
LEMMA ControlTypes ==
  /\ AfterBegin \in [DOMAIN AfterBegin -> Statements]
  /\ AfterInsert \in [DOMAIN AfterInsert -> InTxn]
  /\ TableOf \in [DOMAIN AfterInsert -> Tables]
  /\ DOMAIN AfterBegin \subseteq Steps \ {"idle"}
  /\ InTxn \subseteq Steps \ {"idle"}
  /\ "none" \in Answers /\ "pending" \in Answers
BY DEF AfterBegin, AfterInsert, TableOf, Statements, InTxn, Commits, Steps, Tables, Answers

LEMMA InitTypeOK == Init => TypeOK
BY HostAssumption, RequestAssumption, PlanAssumption
   DEF Init, TypeOK, Steps, Rows, Answers

LEMMA FinishTypeOK ==
  ASSUME TypeOK, NEW w \in Workers, pc[w] # "idle", NEW a \in Answers, Finish(w, a)
  PROVE  /\ pc' \in [Workers -> Steps]
         /\ job' \in [Workers -> Requests \cup {NoRequest}]
         /\ conn' \in [Processes -> Workers \cup {NoWorker}]
         /\ staged' \in [Workers -> SUBSET Rows]
         /\ answer' \in [Requests -> Answers]
         /\ \A v \in Workers : pc'[v] = "idle" <=> job'[v] = NoRequest
BY RequestAssumption DEF TypeOK, Finish, Release, GoTo, Steps

LEMMA ThrownAnswerType == \A w \in Workers : ThrownAnswer(w) \in Answers
BY DEF ThrownAnswer, Answers

LEMMA NextTypeOK == TypeOK /\ [Next]_vars => TypeOK'
<1> USE HostAssumption, RequestAssumption, PlanAssumption, ControlTypes
<1> SUFFICES ASSUME TypeOK, [Next]_vars PROVE TypeOK'
  OBVIOUS
<1>1. ASSUME NEW w \in Workers, NEW r \in Requests, Receive(w, r)
      PROVE  TypeOK'
  BY <1>1 DEF TypeOK, Receive, GoTo, Steps, AfterBegin, Answers
<1>2. ASSUME NEW w \in Workers, Begin(w)
      PROVE  TypeOK'
  BY <1>2 DEF TypeOK, Begin, GoTo, InTxn
<1>3. ASSUME NEW w \in Workers, BeginThrows(w)
      PROVE  TypeOK'
  BY <1>3, FinishTypeOK, ThrownAnswerType DEF TypeOK, BeginThrows
<1>4. ASSUME NEW w \in Workers, CheckPermission(w)
      PROVE  TypeOK'
  BY <1>4 DEF TypeOK, CheckPermission, Running, GoTo, Release, Steps, AfterBegin
<1>5. ASSUME NEW w \in Workers, CheckLimit(w)
      PROVE  TypeOK'
  <2>1. pc[w] # "idle"
    BY <1>5 DEF CheckLimit, Running
  <2>2. CASE BelowLimit(TenantOf(job[w])) /\ Attr[job[w]].body
    BY <1>5, <2>1, <2>2 DEF TypeOK, CheckLimit, GoTo, Release, Steps, AfterBegin
  <2>3. CASE ~(BelowLimit(TenantOf(job[w])) /\ Attr[job[w]].body)
    BY <1>5, <2>1, <2>3, FinishTypeOK DEF TypeOK, CheckLimit, Answers
  <2> QED
    BY <2>2, <2>3
<1>6. ASSUME NEW w \in Workers, Insert(w)
      PROVE  TypeOK'
  <2>1. pc[w] \in DOMAIN AfterInsert /\ pc[w] # "idle" /\ AfterInsert[pc[w]] # "idle"
    BY <1>6 DEF Insert, AfterInsert
  <2>2. job[w] \in Requests /\ <<TableOf[pc[w]], job[w]>> \in Rows
    BY <2>1 DEF TypeOK, Rows
  <2>3. AfterInsert[pc[w]] \in Steps
    BY <2>1
  <2> QED
    BY <1>6, <2>1, <2>2, <2>3 DEF TypeOK, Insert, GoTo
<1>7. ASSUME NEW w \in Workers, StatementThrows(w)
      PROVE  TypeOK'
  BY <1>7, FinishTypeOK, ThrownAnswerType DEF TypeOK, StatementThrows
<1>8. ASSUME NEW w \in Workers, Commit(w)
      PROVE  TypeOK'
  <2>1. pc[w] # "idle" /\ db' \subseteq Rows
    BY <1>8 DEF TypeOK, Commit, Commits, Persist
  <2>2. CASE pc[w] = "denied_commit"
    BY <1>8, <2>1, <2>2, FinishTypeOK DEF TypeOK, Commit, Answers
  <2>3. CASE pc[w] # "denied_commit"
    BY <1>8, <2>1, <2>3 DEF TypeOK, Commit, GoTo, Release, Steps, AfterBegin
  <2> QED
    BY <2>2, <2>3
<1>9. ASSUME NEW w \in Workers, CommitInDoubt(w)
      PROVE  TypeOK'
  <2>1. pc[w] # "idle" /\ orphans' \subseteq SUBSET Rows
    BY <1>9 DEF TypeOK, CommitInDoubt, Commits
  <2> QED
    BY <1>9, <2>1, FinishTypeOK DEF TypeOK, CommitInDoubt, Answers
<1>10. ASSUME NEW w \in Workers, Publish(w)
       PROVE  TypeOK'
  BY <1>10 DEF TypeOK, Publish, GoTo, Steps
<1>11. ASSUME NEW w \in Workers, Return(w)
       PROVE  TypeOK'
  BY <1>11, FinishTypeOK DEF TypeOK, Return, Answers
<1>12. ASSUME NEW t \in Tenants, NEW p \in Plans, ChangePlan(t, p)
       PROVE  TypeOK'
  BY <1>12 DEF TypeOK, ChangePlan
<1>13. CASE NewMonth
  BY <1>13 DEF TypeOK, NewMonth
<1>14. ASSUME NEW p \in Processes, LoseLink(p)
       PROVE  TypeOK'
  BY <1>14 DEF TypeOK, LoseLink
<1>15. ASSUME NEW T \in orphans, ServerCommits(T)
       PROVE  TypeOK'
  BY <1>15 DEF TypeOK, ServerCommits
<1>16. ASSUME NEW p \in Processes, Restart(p)
       PROVE  TypeOK'
  <2>1. orphans' \subseteq SUBSET Rows
    BY <1>16 DEF TypeOK, Restart
  <2> QED
    BY <1>16, <2>1 DEF TypeOK, Restart, Steps, Answers
<1>17. CASE UNCHANGED vars
  BY <1>17 DEF TypeOK, vars
<1> QED
  BY <1>1, <1>2, <1>3, <1>4, <1>5, <1>6, <1>7, <1>8, <1>9, <1>10, <1>11, <1>12, <1>13,
     <1>14, <1>15, <1>16, <1>17 DEF Next, Work, Environment

(* Every variable keeps its type, and a thread has a request exactly while *)
(* it is handling one (FlightController::addFlight on every path).         *)
THEOREM TypeCorrect == Spec => []TypeOK
BY InitTypeOK, NextTypeOK, PTL DEF Spec

-----------------------------------------------------------------------------
(* The connection. *)

LEMMA InitConnection == Init => ConnectionMatchesWork
BY DEF Init, ConnectionMatchesWork, InTxn, Commits, Statements

LEMMA NextConnection ==
  ASSUME TypeOK, ConnectionMatchesWork, [Next]_vars
  PROVE  ConnectionMatchesWork'
<1> USE HostAssumption, WorkersAssumption
<1>1. ASSUME NEW w \in Workers, NEW r \in Requests, Receive(w, r)
      PROVE  ConnectionMatchesWork'
  BY <1>1 DEF TypeOK, ConnectionMatchesWork, InTxn, Commits, Statements, Receive, GoTo
<1>2. ASSUME NEW w \in Workers, Begin(w)
      PROVE  ConnectionMatchesWork'
  BY <1>2 DEF TypeOK, ConnectionMatchesWork, InTxn, Commits, Statements, Begin, AfterBegin, GoTo
<1>3. ASSUME NEW w \in Workers, BeginThrows(w)
      PROVE  ConnectionMatchesWork'
  BY <1>3
     DEF TypeOK, ConnectionMatchesWork, InTxn, Commits, Statements, BeginThrows, AfterBegin,
         Finish, GoTo, Release
<1>4. ASSUME NEW w \in Workers, CheckPermission(w)
      PROVE  ConnectionMatchesWork'
  BY <1>4
     DEF TypeOK, ConnectionMatchesWork, InTxn, Commits, Statements, CheckPermission, Running,
         GoTo, Release
<1>5. ASSUME NEW w \in Workers, CheckLimit(w)
      PROVE  ConnectionMatchesWork'
  BY <1>5
     DEF TypeOK, ConnectionMatchesWork, InTxn, Commits, Statements, CheckLimit, Running,
         Finish, GoTo, Release
<1>6. ASSUME NEW w \in Workers, Insert(w)
      PROVE  ConnectionMatchesWork'
  BY <1>6
     DEF TypeOK, ConnectionMatchesWork, InTxn, Commits, Statements, Insert, AfterInsert, GoTo
<1>7. ASSUME NEW w \in Workers, StatementThrows(w)
      PROVE  ConnectionMatchesWork'
  BY <1>7
     DEF TypeOK, ConnectionMatchesWork, InTxn, Commits, Statements, StatementThrows, Finish,
         GoTo, Release
<1>8. ASSUME NEW w \in Workers, Commit(w)
      PROVE  ConnectionMatchesWork'
  BY <1>8
     DEF TypeOK, ConnectionMatchesWork, InTxn, Commits, Statements, Commit, Commits, Finish,
         GoTo, Release
<1>9. ASSUME NEW w \in Workers, CommitInDoubt(w)
      PROVE  ConnectionMatchesWork'
  BY <1>9
     DEF TypeOK, ConnectionMatchesWork, InTxn, Commits, Statements, CommitInDoubt, Commits,
         Finish, GoTo, Release
<1>10. ASSUME NEW w \in Workers, Publish(w)
       PROVE  ConnectionMatchesWork'
  BY <1>10 DEF TypeOK, ConnectionMatchesWork, InTxn, Commits, Statements, Publish, GoTo
<1>11. ASSUME NEW w \in Workers, Return(w)
       PROVE  ConnectionMatchesWork'
  BY <1>11
     DEF TypeOK, ConnectionMatchesWork, InTxn, Commits, Statements, Return, Finish, GoTo,
         Release
<1>12. ASSUME NEW t \in Tenants, NEW p \in Plans, ChangePlan(t, p)
      PROVE  ConnectionMatchesWork'
  BY <1>12 DEF TypeOK, ConnectionMatchesWork, InTxn, Commits, Statements, ChangePlan
<1>13. CASE NewMonth
  BY <1>13 DEF TypeOK, ConnectionMatchesWork, InTxn, Commits, Statements, NewMonth
<1>14. ASSUME NEW p \in Processes, LoseLink(p)
      PROVE  ConnectionMatchesWork'
  BY <1>14 DEF TypeOK, ConnectionMatchesWork, InTxn, Commits, Statements, LoseLink
<1>15. ASSUME NEW T \in orphans, ServerCommits(T)
       PROVE  ConnectionMatchesWork'
  BY <1>15 DEF TypeOK, ConnectionMatchesWork, InTxn, Commits, Statements, ServerCommits
<1>16. ASSUME NEW p \in Processes, Restart(p)
      PROVE  ConnectionMatchesWork'
  BY <1>16 DEF TypeOK, ConnectionMatchesWork, InTxn, Commits, Statements, Restart
<1>17. CASE UNCHANGED vars
  BY <1>17 DEF TypeOK, ConnectionMatchesWork, InTxn, Commits, Statements, vars
<1> QED
  BY <1>1, <1>2, <1>3, <1>4, <1>5, <1>6, <1>7, <1>8, <1>9, <1>10, <1>11, <1>12, <1>13,
     <1>14, <1>15, <1>16, <1>17 DEF Next, Work, Environment

(* No path through the handler leaves its transaction on the connection    *)
(* that every thread of the process shares (DatabaseManager).              *)
THEOREM ConnectionCorrect == Spec => []ConnectionMatchesWork
<1>1. Init => TypeOK /\ ConnectionMatchesWork
  BY InitTypeOK, InitConnection
<1>2. TypeOK /\ ConnectionMatchesWork /\ [Next]_vars => (TypeOK /\ ConnectionMatchesWork)'
  BY NextTypeOK, NextConnection
<1> QED
  BY <1>1, <1>2, PTL DEF Spec

-----------------------------------------------------------------------------
(* What a step does to the rows and to the answers. *)

(* What a thread commits. *)
LEMMA CommittedRows ==
  ASSUME StagedMatchesStep, NEW w \in Workers, pc[w] \in Commits
  PROVE  \A r \in Requests :
           /\ <<"flights", r>> \in staged[w] <=> pc[w] = "flight_commit" /\ r = job[w]
           /\ <<"usage_metrics", r>> \in staged[w] <=> pc[w] = "flight_commit" /\ r = job[w]
           /\ <<"audit_create", r>> \in staged[w] <=> pc[w] = "create_commit" /\ r = job[w]
           /\ <<"audit_denied", r>> \in staged[w] <=> pc[w] = "denied_commit" /\ r = job[w]
<1>1. staged[w] = StagedBy(w)
  BY DEF StagedMatchesStep
<1>2. CASE pc[w] = "flight_commit"
  <2>1. staged[w] = {<<"flights", job[w]>>, <<"usage_metrics", job[w]>>}
    BY <1>1, <1>2 DEF StagedBy
  <2> QED
    BY <1>2, <2>1
<1>3. CASE pc[w] = "create_commit"
  <2>1. staged[w] = {<<"audit_create", job[w]>>}
    BY <1>1, <1>3 DEF StagedBy
  <2> QED
    BY <1>3, <2>1
<1>4. CASE pc[w] = "denied_commit"
  <2>1. staged[w] = {<<"audit_denied", job[w]>>}
    BY <1>1, <1>4 DEF StagedBy
  <2> QED
    BY <1>4, <2>1
<1> QED
  BY <1>2, <1>3, <1>4 DEF Commits

(* What the database holds after a commit. *)
LEMMA PersistEffect ==
  ASSUME StagedMatchesStep, NEW w \in Workers, pc[w] \in Commits, Persist(w)
  PROVE  \A r \in Requests :
           /\ <<"flights", r>> \in db' <=>
                <<"flights", r>> \in db \/ (pc[w] = "flight_commit" /\ r = job[w])
           /\ <<"usage_metrics", r>> \in db' <=>
                <<"usage_metrics", r>> \in db \/ (pc[w] = "flight_commit" /\ r = job[w])
           /\ <<"audit_create", r>> \in db' <=>
                <<"audit_create", r>> \in db \/ (pc[w] = "create_commit" /\ r = job[w])
           /\ <<"audit_denied", r>> \in db' <=>
                <<"audit_denied", r>> \in db \/ (pc[w] = "denied_commit" /\ r = job[w])
BY CommittedRows DEF Persist

(* What a transaction of request r that ends at COMMIT step makes of the    *)
(* database.                                                               *)
Lands(r, step) ==
  \A q \in Requests :
    /\ <<"flights", q>> \in db' <=>
         <<"flights", q>> \in db \/ (step = "flight_commit" /\ q = r)
    /\ <<"usage_metrics", q>> \in db' <=>
         <<"usage_metrics", q>> \in db \/ (step = "flight_commit" /\ q = r)
    /\ <<"audit_create", q>> \in db' <=>
         <<"audit_create", q>> \in db \/ (step = "create_commit" /\ q = r)
    /\ <<"audit_denied", q>> \in db' <=>
         <<"audit_denied", q>> \in db \/ (step = "denied_commit" /\ q = r)

(* What the database holds after the commit of an orphan. *)
LEMMA OrphanEffect ==
  ASSUME OrphansWhole, NEW T \in orphans, ServerCommits(T)
  PROVE  \E r \in Requests, step \in Commits :
           /\ answer[r] \in {"error", "lost"}
           /\ step = "flight_commit" => MayCreate(r)
           /\ step = "create_commit" => <<"flights", r>> \in db
           /\ step = "denied_commit" => ~MayCreate(r)
           /\ Lands(r, step)
<1>1. PICK r \in Requests :
        /\ answer[r] \in {"error", "lost"}
        /\ \/ T = {<<"flights", r>>, <<"usage_metrics", r>>} /\ MayCreate(r)
           \/ T = {<<"audit_create", r>>} /\ <<"flights", r>> \in db
           \/ T = {<<"audit_denied", r>>} /\ ~MayCreate(r)
  BY DEF OrphansWhole
<1>2. db' = db \cup T
  BY DEF ServerCommits
<1>3. CASE T = {<<"flights", r>>, <<"usage_metrics", r>>} /\ MayCreate(r)
  <2>1. Lands(r, "flight_commit")
    BY <1>2, <1>3 DEF Lands
  <2> QED
    BY <1>1, <1>3, <2>1 DEF Commits
<1>4. CASE T = {<<"audit_create", r>>} /\ <<"flights", r>> \in db
  <2>1. Lands(r, "create_commit")
    BY <1>2, <1>4 DEF Lands
  <2> QED
    BY <1>1, <1>4, <2>1 DEF Commits
<1>5. CASE T = {<<"audit_denied", r>>} /\ ~MayCreate(r)
  <2>1. Lands(r, "denied_commit")
    BY <1>2, <1>5 DEF Lands
  <2> QED
    BY <1>1, <1>5, <2>1 DEF Commits
<1> QED
  BY <1>1, <1>3, <1>4, <1>5

(* What becomes an orphan is the open transaction of a thread at COMMIT    *)
(* whose request ends without a promise.                                   *)
LEMMA OrphansFrom ==
  ASSUME StagedMatchesStep, StepMatchesRows, OrphansWhole, db \subseteq db', TypeOK,
         \A r \in Requests :
           answer[r] \in {"error", "lost"} => answer'[r] \in {"error", "lost"},
         \A T \in orphans' \ orphans : \E w \in Workers :
           /\ pc[w] \in Commits /\ T = staged[w]
           /\ answer'[job[w]] \in {"error", "lost"}
  PROVE  OrphansWhole'
<1> DEFINE Whole(T) == \E r \in Requests :
      /\ answer'[r] \in {"error", "lost"}
      /\ \/ T = {<<"flights", r>>, <<"usage_metrics", r>>} /\ MayCreate(r)
         \/ T = {<<"audit_create", r>>} /\ <<"flights", r>> \in db'
         \/ T = {<<"audit_denied", r>>} /\ ~MayCreate(r)
<1>1. ASSUME NEW T \in orphans PROVE Whole(T)
  BY <1>1 DEF OrphansWhole
<1>2. ASSUME NEW T \in orphans' \ orphans PROVE Whole(T)
  <2>1. PICK w \in Workers : /\ pc[w] \in Commits /\ T = staged[w]
                             /\ answer'[job[w]] \in {"error", "lost"}
    BY <1>2
  <2>2. job[w] \in Requests /\ T = StagedBy(w)
    BY <2>1 DEF TypeOK, Commits, StagedMatchesStep
  <2>3. /\ pc[w] = "flight_commit" => MayCreate(job[w])
        /\ pc[w] = "create_commit" => <<"flights", job[w]>> \in db'
        /\ pc[w] = "denied_commit" => ~MayCreate(job[w])
    BY DEF StepMatchesRows, Allowed, Refused, PastCheck, Stored
  <2> QED
    BY <2>1, <2>2, <2>3 DEF StagedBy, Commits
<1> QED
  BY <1>1, <1>2 DEF OrphansWhole, MayCreate

(* What a thread leaves behind when it answers. *)
LEMMA FinishEffect ==
  ASSUME TypeOK, NEW w \in Workers, pc[w] # "idle", NEW a \in Answers, Finish(w, a)
  PROVE  /\ job[w] \in Requests /\ job'[w] = NoRequest /\ pc'[w] = "idle" /\ staged'[w] = {}
         /\ \A v \in Workers \ {w} :
              pc'[v] = pc[v] /\ job'[v] = job[v] /\ staged'[v] = staged[v]
         /\ answer'[job[w]] = a
         /\ \A r \in Requests \ {job[w]} : answer'[r] = answer[r]
BY DEF TypeOK, Finish, GoTo

LEMMA FinishStaged ==
  ASSUME TypeOK, StagedMatchesStep, NEW w \in Workers, pc[w] # "idle", NEW a \in Answers,
         Finish(w, a)
  PROVE  StagedMatchesStep'
<1>1. /\ staged'[w] = {} /\ pc'[w] = "idle"
      /\ \A v \in Workers \ {w} : pc'[v] = pc[v] /\ job'[v] = job[v] /\ staged'[v] = staged[v]
  BY FinishEffect
<1> QED
  BY <1>1 DEF StagedMatchesStep, StagedBy

LEMMA FinishSteps ==
  ASSUME TypeOK, OneThreadPerRequest, StepMatchesRows, NEW w \in Workers, pc[w] # "idle",
         NEW a \in Answers \ {"none"}, Finish(w, a), db \subseteq db',
         \A r \in Requests \ {job[w]} : <<"flights", r>> \in db' <=> <<"flights", r>> \in db
  PROVE  StepMatchesRows'
<1>1. /\ job[w] \in Requests /\ pc'[w] = "idle" /\ answer'[job[w]] # "none"
      /\ \A v \in Workers \ {w} : pc'[v] = pc[v] /\ job'[v] = job[v]
      /\ \A r \in Requests \ {job[w]} : answer'[r] = answer[r]
  BY FinishEffect
<1>2. \A v \in Workers \ {w} : pc[v] # "idle" => job[v] \in Requests \ {job[w]}
  BY <1>1 DEF TypeOK, OneThreadPerRequest
<1> QED
  BY <1>1, <1>2 DEF StepMatchesRows, Allowed, Refused, PastCheck, Stored

LEMMA FinishTrail ==
  ASSUME TypeOK, TrailOrdered, NEW w \in Workers, pc[w] # "idle",
         NEW a \in {"error", "plan_limit"}, Finish(w, a), db' = db, events' = events,
         a = "plan_limit" => <<"flights", job[w]>> \notin db
  PROVE  TrailOrdered'
<1>1. /\ job[w] \in Requests /\ answer'[job[w]] = a
      /\ \A r \in Requests \ {job[w]} : answer'[r] = answer[r]
  BY FinishEffect DEF Answers
<1> QED
  BY <1>1 DEF TrailOrdered


-----------------------------------------------------------------------------
(* What the control state says about the data. *)

LEMMA NextOneThread ==
  ASSUME TypeOK, OneThreadPerRequest, [Next]_vars
  PROVE  OneThreadPerRequest'
<1> USE RequestAssumption
<1>1. ASSUME NEW w \in Workers, NEW r \in Requests, Receive(w, r)
      PROVE  OneThreadPerRequest'
  BY <1>1, SMTT(30) DEF TypeOK, OneThreadPerRequest, Receive, GoTo
<1>2. ASSUME NEW w \in Workers, Begin(w)
      PROVE  OneThreadPerRequest'
  BY <1>2 DEF TypeOK, OneThreadPerRequest, Begin, AfterBegin, GoTo
<1>3. ASSUME NEW w \in Workers, BeginThrows(w)
      PROVE  OneThreadPerRequest'
  BY <1>3 DEF TypeOK, OneThreadPerRequest, BeginThrows, AfterBegin, Finish, GoTo
<1>4. ASSUME NEW w \in Workers, CheckPermission(w)
      PROVE  OneThreadPerRequest'
  BY <1>4 DEF TypeOK, OneThreadPerRequest, CheckPermission, Running, GoTo
<1>5. ASSUME NEW w \in Workers, CheckLimit(w)
      PROVE  OneThreadPerRequest'
  BY <1>5 DEF TypeOK, OneThreadPerRequest, CheckLimit, Running, Finish, GoTo
<1>6. ASSUME NEW w \in Workers, Insert(w)
      PROVE  OneThreadPerRequest'
  BY <1>6 DEF TypeOK, OneThreadPerRequest, Insert, AfterInsert, GoTo
<1>7. ASSUME NEW w \in Workers, StatementThrows(w)
      PROVE  OneThreadPerRequest'
  BY <1>7
     DEF TypeOK, OneThreadPerRequest, StatementThrows, Finish, GoTo, InTxn, Commits,
         Statements
<1>8. ASSUME NEW w \in Workers, Commit(w)
      PROVE  OneThreadPerRequest'
  BY <1>8 DEF TypeOK, OneThreadPerRequest, Commit, Commits, Finish, GoTo
<1>9. ASSUME NEW w \in Workers, CommitInDoubt(w)
      PROVE  OneThreadPerRequest'
  BY <1>9 DEF TypeOK, OneThreadPerRequest, CommitInDoubt, Commits, Finish, GoTo
<1>10. ASSUME NEW w \in Workers, Publish(w)
       PROVE  OneThreadPerRequest'
  BY <1>10 DEF TypeOK, OneThreadPerRequest, Publish, GoTo
<1>11. ASSUME NEW w \in Workers, Return(w)
       PROVE  OneThreadPerRequest'
  BY <1>11 DEF TypeOK, OneThreadPerRequest, Return, Finish, GoTo
<1>12. ASSUME NEW t \in Tenants, NEW p \in Plans, ChangePlan(t, p)
      PROVE  OneThreadPerRequest'
  BY <1>12 DEF TypeOK, OneThreadPerRequest, ChangePlan
<1>13. CASE NewMonth
  BY <1>13 DEF TypeOK, OneThreadPerRequest, NewMonth
<1>14. ASSUME NEW p \in Processes, LoseLink(p)
      PROVE  OneThreadPerRequest'
  BY <1>14 DEF TypeOK, OneThreadPerRequest, LoseLink
<1>15. ASSUME NEW T \in orphans, ServerCommits(T)
       PROVE  OneThreadPerRequest'
  BY <1>15 DEF TypeOK, OneThreadPerRequest, ServerCommits
<1>16. ASSUME NEW p \in Processes, Restart(p)
      PROVE  OneThreadPerRequest'
  BY <1>16 DEF TypeOK, OneThreadPerRequest, Restart
<1>17. CASE UNCHANGED vars
  BY <1>17 DEF TypeOK, OneThreadPerRequest, vars
<1> QED
  BY <1>1, <1>2, <1>3, <1>4, <1>5, <1>6, <1>7, <1>8, <1>9, <1>10, <1>11, <1>12, <1>13,
     <1>14, <1>15, <1>16, <1>17 DEF Next, Work, Environment

LEMMA NextStaged ==
  ASSUME TypeOK, StagedMatchesStep, [Next]_vars
  PROVE  StagedMatchesStep'
<1> USE RequestAssumption
<1>1. ASSUME NEW w \in Workers, NEW r \in Requests, Receive(w, r)
      PROVE  StagedMatchesStep'
  BY <1>1 DEF TypeOK, StagedMatchesStep, StagedBy, Receive, GoTo
<1>2. ASSUME NEW w \in Workers, Begin(w)
      PROVE  StagedMatchesStep'
  BY <1>2 DEF TypeOK, StagedMatchesStep, StagedBy, Begin, AfterBegin, GoTo
<1>3. ASSUME NEW w \in Workers, BeginThrows(w)
      PROVE  StagedMatchesStep'
  <2>1. pc[w] # "idle" /\ Finish(w, ThrownAnswer(w)) /\ db' = db /\ events' = events
    BY <1>3 DEF BeginThrows, AfterBegin, InTxn, Statements, Commits
  <2>2. ThrownAnswer(w) \in {"error", "plan_limit"} \cap Answers
    BY DEF ThrownAnswer, Answers
  <2> QED
    BY <2>1, <2>2, FinishStaged
<1>4. ASSUME NEW w \in Workers, CheckPermission(w)
      PROVE  StagedMatchesStep'
  BY <1>4 DEF TypeOK, StagedMatchesStep, StagedBy, CheckPermission, Running, GoTo
<1>5. ASSUME NEW w \in Workers, CheckLimit(w)
      PROVE  StagedMatchesStep'
  <2>1. CASE BelowLimit(TenantOf(job[w])) /\ Attr[job[w]].body
    BY <1>5, <2>1 DEF StagedMatchesStep, StagedBy, CheckLimit, Running, TypeOK, GoTo
  <2>2. CASE ~(BelowLimit(TenantOf(job[w])) /\ Attr[job[w]].body)
    <3>1. PICK a \in {"error", "plan_limit"} : Finish(w, a)
      BY <1>5, <2>2 DEF CheckLimit
    <3>2. pc[w] = "limit" /\ db' = db /\ events' = events
      BY <1>5 DEF CheckLimit, Running
    <3> QED
      BY <3>1, <3>2, FinishStaged DEF Answers
  <2> QED
    BY <2>1, <2>2
<1>6. ASSUME NEW w \in Workers, Insert(w)
      PROVE  StagedMatchesStep'
  <2>1. ASSUME NEW v \in Workers, v # w
        PROVE  staged'[v] = StagedBy(v)'
    BY <1>6, <2>1 DEF TypeOK, StagedMatchesStep, StagedBy, Insert, GoTo
  <2>2. staged'[w] = staged[w] \cup {<<TableOf[pc[w]], job[w]>>} /\ pc'[w] = AfterInsert[pc[w]]
    BY <1>6 DEF TypeOK, Insert, GoTo
  <2>3. pc[w] \in {"flight", "usage", "audit_create", "audit_denied"} /\ job' = job
    BY <1>6 DEF Insert, AfterInsert
  <2>4. staged[w] = StagedBy(w)
    BY DEF StagedMatchesStep
  <2>5. staged'[w] = StagedBy(w)'
    BY <2>2, <2>3, <2>4 DEF StagedBy, AfterInsert, TableOf
  <2> QED
    BY <2>1, <2>5 DEF StagedMatchesStep
<1>7. ASSUME NEW w \in Workers, StatementThrows(w)
      PROVE  StagedMatchesStep'
  <2>1. pc[w] # "idle" /\ Finish(w, ThrownAnswer(w)) /\ db' = db /\ events' = events
    BY <1>7 DEF StatementThrows, AfterBegin, InTxn, Statements, Commits
  <2>2. ThrownAnswer(w) \in {"error", "plan_limit"} \cap Answers
    BY DEF ThrownAnswer, Answers
  <2> QED
    BY <2>1, <2>2, FinishStaged
<1>8. ASSUME NEW w \in Workers, Commit(w)
      PROVE  StagedMatchesStep'
  <2>1. CASE pc[w] = "denied_commit"
    BY <1>8, <2>1, FinishStaged DEF Commit, Answers
  <2>2. CASE ~(pc[w] = "denied_commit")
    BY <1>8, <2>2 DEF StagedMatchesStep, StagedBy, TypeOK, Commit, Commits, GoTo
  <2> QED
    BY <2>1, <2>2
<1>9. ASSUME NEW w \in Workers, CommitInDoubt(w)
      PROVE  StagedMatchesStep'
  BY <1>9, FinishStaged DEF CommitInDoubt, Commits, Answers
<1>10. ASSUME NEW w \in Workers, Publish(w)
       PROVE  StagedMatchesStep'
  BY <1>10 DEF TypeOK, StagedMatchesStep, StagedBy, Publish, GoTo
<1>11. ASSUME NEW w \in Workers, Return(w)
       PROVE  StagedMatchesStep'
  BY <1>11, FinishStaged DEF Return, Answers
<1>12. ASSUME NEW t \in Tenants, NEW p \in Plans, ChangePlan(t, p)
      PROVE  StagedMatchesStep'
  BY <1>12 DEF TypeOK, StagedMatchesStep, StagedBy, ChangePlan
<1>13. CASE NewMonth
  BY <1>13 DEF TypeOK, StagedMatchesStep, StagedBy, NewMonth
<1>14. ASSUME NEW p \in Processes, LoseLink(p)
      PROVE  StagedMatchesStep'
  BY <1>14 DEF TypeOK, StagedMatchesStep, StagedBy, LoseLink
<1>15. ASSUME NEW T \in orphans, ServerCommits(T)
       PROVE  StagedMatchesStep'
  BY <1>15 DEF TypeOK, StagedMatchesStep, StagedBy, ServerCommits
<1>16. ASSUME NEW p \in Processes, Restart(p)
      PROVE  StagedMatchesStep'
  BY <1>16 DEF TypeOK, StagedMatchesStep, StagedBy, Restart
<1>17. CASE UNCHANGED vars
  BY <1>17 DEF TypeOK, StagedMatchesStep, StagedBy, vars
<1> QED
  BY <1>1, <1>2, <1>3, <1>4, <1>5, <1>6, <1>7, <1>8, <1>9, <1>10, <1>11, <1>12, <1>13,
     <1>14, <1>15, <1>16, <1>17 DEF Next, Work, Environment

LEMMA NextSteps ==
  ASSUME TypeOK, StagedMatchesStep, OneThreadPerRequest, OrphansWhole, StepMatchesRows,
         [Next]_vars
  PROVE  StepMatchesRows'
<1> USE RequestAssumption
<1>1. ASSUME NEW w \in Workers, NEW r \in Requests, Receive(w, r)
      PROVE  StepMatchesRows'
  BY <1>1
     DEF TypeOK, OneThreadPerRequest, StepMatchesRows, Allowed, Refused, PastCheck, Stored,
         Receive, GoTo
<1>2. ASSUME NEW w \in Workers, Begin(w)
      PROVE  StepMatchesRows'
  BY <1>2
     DEF TypeOK, OneThreadPerRequest, StepMatchesRows, Allowed, Refused, PastCheck, Stored,
         Begin, AfterBegin, GoTo
<1>3. ASSUME NEW w \in Workers, BeginThrows(w)
      PROVE  StepMatchesRows'
  <2>1. pc[w] # "idle" /\ Finish(w, ThrownAnswer(w)) /\ db' = db /\ events' = events
    BY <1>3 DEF BeginThrows, AfterBegin, InTxn, Statements, Commits
  <2>2. ThrownAnswer(w) \in {"error", "plan_limit"} \cap Answers
    BY DEF ThrownAnswer, Answers
  <2> QED
    BY <2>1, <2>2, FinishSteps
<1>4. ASSUME NEW w \in Workers, CheckPermission(w)
      PROVE  StepMatchesRows'
  BY <1>4
     DEF TypeOK, OneThreadPerRequest, StepMatchesRows, Allowed, Refused, PastCheck, Stored,
         CheckPermission, Running, GoTo
<1>5. ASSUME NEW w \in Workers, CheckLimit(w)
      PROVE  StepMatchesRows'
  <2>1. CASE BelowLimit(TenantOf(job[w])) /\ Attr[job[w]].body
    BY <1>5, <2>1
       DEF TypeOK, OneThreadPerRequest, StepMatchesRows, Allowed, Refused, PastCheck, Stored,
           CheckLimit, Running, GoTo
  <2>2. CASE ~(BelowLimit(TenantOf(job[w])) /\ Attr[job[w]].body)
    <3>1. PICK a \in {"error", "plan_limit"} : Finish(w, a)
      BY <1>5, <2>2 DEF CheckLimit
    <3>2. pc[w] = "limit" /\ db' = db /\ events' = events
      BY <1>5 DEF CheckLimit, Running
    <3> QED
      BY <3>1, <3>2, FinishSteps DEF Answers
  <2> QED
    BY <2>1, <2>2
<1>6. ASSUME NEW w \in Workers, Insert(w)
      PROVE  StepMatchesRows'
  BY <1>6
     DEF TypeOK, OneThreadPerRequest, StepMatchesRows, Allowed, Refused, PastCheck, Stored,
         Insert, AfterInsert, GoTo
<1>7. ASSUME NEW w \in Workers, StatementThrows(w)
      PROVE  StepMatchesRows'
  <2>1. pc[w] # "idle" /\ Finish(w, ThrownAnswer(w)) /\ db' = db /\ events' = events
    BY <1>7 DEF StatementThrows, AfterBegin, InTxn, Statements, Commits
  <2>2. ThrownAnswer(w) \in {"error", "plan_limit"} \cap Answers
    BY DEF ThrownAnswer, Answers
  <2> QED
    BY <2>1, <2>2, FinishSteps
<1>8. ASSUME NEW w \in Workers, Commit(w)
      PROVE  StepMatchesRows'
  <2>1. pc[w] \in Commits /\ pc[w] # "idle" /\ Persist(w) /\ db \subseteq db'
    BY <1>8 DEF Commit, Commits, Persist
  <2>2. CASE pc[w] = "denied_commit"
    <3>1. \A r \in Requests : <<"flights", r>> \in db' <=> <<"flights", r>> \in db
      BY <2>1, <2>2, PersistEffect
    <3> QED
      BY <1>8, <2>1, <2>2, <3>1, FinishSteps DEF Commit, Answers
  <2>3. CASE pc[w] # "denied_commit"
    <3>1. /\ answer' = answer /\ job' = job
          /\ pc'[w] = IF pc[w] = "flight_commit" THEN "create_begin" ELSE "publish"
          /\ \A v \in Workers \ {w} : pc'[v] = pc[v]
      BY <1>8, <2>3 DEF Commit, TypeOK, GoTo
    <3>2. /\ job[w] \in Requests /\ answer[job[w]] = "pending"
          /\ \A v \in Workers \ {w} : pc[v] # "idle" => job[v] \in Requests \ {job[w]}
      BY <2>1 DEF TypeOK, OneThreadPerRequest
    <3>3. /\ pc[w] = "flight_commit" => <<"flights", job[w]>> \in db'
          /\ pc[w] = "create_commit" => <<"audit_create", job[w]>> \in db'
          /\ \A r \in Requests \ {job[w]} : <<"flights", r>> \in db' <=> <<"flights", r>> \in db
      BY <2>1, <3>2, PersistEffect
    <3>4. pc[w] \in {"flight_commit", "create_commit"}
      BY <2>1, <2>3 DEF Commits
    <3> QED
      BY <2>1, <3>1, <3>2, <3>3, <3>4 DEF StepMatchesRows, Allowed, Refused, PastCheck, Stored
  <2> QED
    BY <2>2, <2>3
<1>9. ASSUME NEW w \in Workers, CommitInDoubt(w)
      PROVE  StepMatchesRows'
  BY <1>9, FinishSteps DEF CommitInDoubt, Commits, Answers
<1>10. ASSUME NEW w \in Workers, Publish(w)
       PROVE  StepMatchesRows'
  BY <1>10
     DEF TypeOK, OneThreadPerRequest, StepMatchesRows, Allowed, Refused, PastCheck, Stored,
         Publish, GoTo
<1>11. ASSUME NEW w \in Workers, Return(w)
       PROVE  StepMatchesRows'
  BY <1>11, FinishSteps DEF Return, Answers
<1>12. ASSUME NEW t \in Tenants, NEW p \in Plans, ChangePlan(t, p)
      PROVE  StepMatchesRows'
  BY <1>12
     DEF TypeOK, OneThreadPerRequest, StepMatchesRows, Allowed, Refused, PastCheck, Stored,
         ChangePlan
<1>13. CASE NewMonth
  BY <1>13
     DEF TypeOK, OneThreadPerRequest, StepMatchesRows, Allowed, Refused, PastCheck, Stored,
         NewMonth
<1>14. ASSUME NEW p \in Processes, LoseLink(p)
      PROVE  StepMatchesRows'
  BY <1>14
     DEF TypeOK, OneThreadPerRequest, StepMatchesRows, Allowed, Refused, PastCheck, Stored,
         LoseLink
<1>15. ASSUME NEW T \in orphans, ServerCommits(T)
       PROVE  StepMatchesRows'
  <2>1. PICK r \in Requests, step \in Commits :
          /\ answer[r] \in {"error", "lost"}
          /\ step = "create_commit" => <<"flights", r>> \in db
          /\ Lands(r, step)
    BY <1>15, OrphanEffect
  <2>2. \A w \in Workers : pc[w] # "idle" => job[w] \in Requests \ {r}
    BY <2>1 DEF TypeOK, OneThreadPerRequest
  <2>3. \A w \in Workers : pc[w] \in Allowed \cup Refused \cup {"publish", "reply"} => pc[w] # "idle"
    BY DEF Allowed, Refused, PastCheck, Stored
  <2> QED
    BY <1>15, <2>1, <2>2, <2>3 DEF StepMatchesRows, ServerCommits, Lands
<1>16. ASSUME NEW p \in Processes, Restart(p)
      PROVE  StepMatchesRows'
  BY <1>16
     DEF TypeOK, OneThreadPerRequest, StepMatchesRows, Allowed, Refused, PastCheck, Stored,
         Restart
<1>17. CASE UNCHANGED vars
  BY <1>17
     DEF TypeOK, OneThreadPerRequest, StepMatchesRows, Allowed, Refused, PastCheck, Stored,
         vars
<1> QED
  BY <1>1, <1>2, <1>3, <1>4, <1>5, <1>6, <1>7, <1>8, <1>9, <1>10, <1>11, <1>12, <1>13,
     <1>14, <1>15, <1>16, <1>17 DEF Next, Work, Environment

-----------------------------------------------------------------------------
(* The ledger and the trail. *)

LEMMA NextLedger ==
  ASSUME TypeOK, StagedMatchesStep, OrphansWhole, LedgerComplete, [Next]_vars
  PROVE  LedgerComplete'
<1>1. ASSUME NEW w \in Workers, NEW r \in Requests, Receive(w, r)
      PROVE  LedgerComplete'
  BY <1>1 DEF LedgerComplete, Receive
<1>2. ASSUME NEW w \in Workers, Begin(w)
      PROVE  LedgerComplete'
  BY <1>2 DEF LedgerComplete, Begin
<1>3. ASSUME NEW w \in Workers, BeginThrows(w)
      PROVE  LedgerComplete'
  BY <1>3 DEF LedgerComplete, BeginThrows
<1>4. ASSUME NEW w \in Workers, CheckPermission(w)
      PROVE  LedgerComplete'
  BY <1>4 DEF LedgerComplete, CheckPermission
<1>5. ASSUME NEW w \in Workers, CheckLimit(w)
      PROVE  LedgerComplete'
  BY <1>5 DEF LedgerComplete, CheckLimit
<1>6. ASSUME NEW w \in Workers, Insert(w)
      PROVE  LedgerComplete'
  BY <1>6 DEF LedgerComplete, Insert
<1>7. ASSUME NEW w \in Workers, StatementThrows(w)
      PROVE  LedgerComplete'
  BY <1>7 DEF LedgerComplete, StatementThrows
<1>8. ASSUME NEW w \in Workers, Commit(w)
      PROVE  LedgerComplete'
  BY <1>8, PersistEffect DEF LedgerComplete, Commit
<1>9. ASSUME NEW w \in Workers, CommitInDoubt(w)
      PROVE  LedgerComplete'
  BY <1>9 DEF LedgerComplete, CommitInDoubt
<1>10. ASSUME NEW w \in Workers, Publish(w)
       PROVE  LedgerComplete'
  BY <1>10 DEF LedgerComplete, Publish
<1>11. ASSUME NEW w \in Workers, Return(w)
       PROVE  LedgerComplete'
  BY <1>11 DEF LedgerComplete, Return
<1>12. ASSUME NEW t \in Tenants, NEW p \in Plans, ChangePlan(t, p)
      PROVE  LedgerComplete'
  BY <1>12 DEF LedgerComplete, ChangePlan
<1>13. CASE NewMonth
  BY <1>13 DEF LedgerComplete, NewMonth
<1>14. ASSUME NEW p \in Processes, LoseLink(p)
      PROVE  LedgerComplete'
  BY <1>14 DEF LedgerComplete, LoseLink
<1>15. ASSUME NEW T \in orphans, ServerCommits(T)
       PROVE  LedgerComplete'
  BY <1>15, OrphanEffect DEF LedgerComplete, Lands
<1>16. ASSUME NEW p \in Processes, Restart(p)
      PROVE  LedgerComplete'
  BY <1>16 DEF LedgerComplete, Restart
<1>17. CASE UNCHANGED vars
  BY <1>17 DEF LedgerComplete, vars
<1> QED
  BY <1>1, <1>2, <1>3, <1>4, <1>5, <1>6, <1>7, <1>8, <1>9, <1>10, <1>11, <1>12, <1>13,
     <1>14, <1>15, <1>16, <1>17 DEF Next, Work, Environment

LEMMA NextTrail ==
  ASSUME TypeOK, StagedMatchesStep, OneThreadPerRequest, OrphansWhole, StepMatchesRows,
         TrailOrdered, [Next]_vars
  PROVE  TrailOrdered'
<1> USE RequestAssumption
<1>1. ASSUME NEW w \in Workers, NEW r \in Requests, Receive(w, r)
      PROVE  TrailOrdered'
  <2>1. /\ db' = db /\ events' = events /\ answer'[r] \in {"pending", "error"}
        /\ \A q \in Requests \ {r} : answer'[q] = answer[q]
    BY <1>1 DEF TypeOK, Receive
  <2> QED
    BY <2>1 DEF TrailOrdered
<1>2. ASSUME NEW w \in Workers, Begin(w)
      PROVE  TrailOrdered'
  BY <1>2 DEF TypeOK, TrailOrdered, Begin, Running, GoTo, Finish
<1>3. ASSUME NEW w \in Workers, BeginThrows(w)
      PROVE  TrailOrdered'
  <2>1. pc[w] # "idle" /\ Finish(w, ThrownAnswer(w)) /\ db' = db /\ events' = events
    BY <1>3 DEF BeginThrows, AfterBegin, InTxn, Statements, Commits
  <2>2. /\ ThrownAnswer(w) \in {"error", "plan_limit"}
        /\ ThrownAnswer(w) = "plan_limit" => pc[w] \in {"limit_begin", "limit"}
    BY DEF ThrownAnswer
  <2>3. pc[w] \in {"limit_begin", "limit"} => <<"flights", job[w]>> \notin db
    BY DEF StepMatchesRows, Stored
  <2> QED
    BY <2>1, <2>2, <2>3, FinishTrail
<1>4. ASSUME NEW w \in Workers, CheckPermission(w)
      PROVE  TrailOrdered'
  BY <1>4 DEF TypeOK, TrailOrdered, CheckPermission, Running, GoTo, Finish
<1>5. ASSUME NEW w \in Workers, CheckLimit(w)
      PROVE  TrailOrdered'
  <2>1. CASE BelowLimit(TenantOf(job[w])) /\ Attr[job[w]].body
    BY <1>5, <2>1 DEF TrailOrdered, CheckLimit
  <2>2. CASE ~(BelowLimit(TenantOf(job[w])) /\ Attr[job[w]].body)
    <3>1. PICK a \in {"error", "plan_limit"} : Finish(w, a)
      BY <1>5, <2>2 DEF CheckLimit
    <3>2. pc[w] = "limit" /\ db' = db /\ events' = events
      BY <1>5 DEF CheckLimit, Running
    <3> QED
      BY <3>1, <3>2, FinishTrail DEF StepMatchesRows, Stored
  <2> QED
    BY <2>1, <2>2
<1>6. ASSUME NEW w \in Workers, Insert(w)
      PROVE  TrailOrdered'
  BY <1>6 DEF TypeOK, TrailOrdered, Insert, Running, GoTo, Finish
<1>7. ASSUME NEW w \in Workers, StatementThrows(w)
      PROVE  TrailOrdered'
  <2>1. pc[w] # "idle" /\ Finish(w, ThrownAnswer(w)) /\ db' = db /\ events' = events
    BY <1>7 DEF StatementThrows, AfterBegin, InTxn, Statements, Commits
  <2>2. /\ ThrownAnswer(w) \in {"error", "plan_limit"}
        /\ ThrownAnswer(w) = "plan_limit" => pc[w] \in {"limit_begin", "limit"}
    BY DEF ThrownAnswer
  <2>3. pc[w] \in {"limit_begin", "limit"} => <<"flights", job[w]>> \notin db
    BY DEF StepMatchesRows, Stored
  <2> QED
    BY <2>1, <2>2, <2>3, FinishTrail
<1>8. ASSUME NEW w \in Workers, Commit(w)
      PROVE  TrailOrdered'
  <2>1. /\ pc[w] \in Commits /\ pc[w] # "idle" /\ Persist(w)
        /\ job[w] \in Requests /\ events' = events
    BY <1>8 DEF TypeOK, Commit, Commits
  <2>2. /\ pc[w] = "flight_commit" => MayCreate(job[w])
        /\ pc[w] = "create_commit" => <<"flights", job[w]>> \in db
        /\ pc[w] = "denied_commit" => ~MayCreate(job[w]) /\ <<"flights", job[w]>> \notin db
        /\ answer[job[w]] = "pending"
    BY <2>1
       DEF StepMatchesRows, OneThreadPerRequest, Allowed, Refused, PastCheck, Stored, TypeOK
  <2>3. /\ \A r \in Requests \ {job[w]} : answer'[r] = answer[r]
        /\ answer'[job[w]] \in {"pending", "error", "denied"}
        /\ answer'[job[w]] = "denied" => pc[w] = "denied_commit"
    <3>1. CASE pc[w] = "denied_commit"
      BY <1>8, <2>1, <3>1, FinishEffect DEF Commit, Answers
    <3>2. CASE pc[w] # "denied_commit"
      BY <1>8, <2>2, <3>2 DEF Commit
    <3> QED
      BY <3>1, <3>2
  <2>4. /\ <<"flights", job[w]>> \in db' <=>
             <<"flights", job[w]>> \in db \/ pc[w] = "flight_commit"
        /\ <<"audit_create", job[w]>> \in db' <=>
             <<"audit_create", job[w]>> \in db \/ pc[w] = "create_commit"
        /\ <<"audit_denied", job[w]>> \in db' <=>
             <<"audit_denied", job[w]>> \in db \/ pc[w] = "denied_commit"
    BY <2>1, PersistEffect
  <2>5. ASSUME NEW r \in Requests, r # job[w]
        PROVE  /\ <<"flights", r>> \in db' <=> <<"flights", r>> \in db
               /\ <<"audit_create", r>> \in db' <=> <<"audit_create", r>> \in db
               /\ <<"audit_denied", r>> \in db' <=> <<"audit_denied", r>> \in db
               /\ answer'[r] = answer[r]
    BY <2>1, <2>3, <2>5, PersistEffect
  <2> QED
    BY <2>1, <2>2, <2>3, <2>4, <2>5 DEF TrailOrdered
<1>9. ASSUME NEW w \in Workers, CommitInDoubt(w)
      PROVE  TrailOrdered'
  BY <1>9, FinishTrail DEF CommitInDoubt, Commits
<1>10. ASSUME NEW w \in Workers, Publish(w)
       PROVE  TrailOrdered'
  <2>1. /\ pc[w] = "publish" /\ db' = db /\ answer' = answer /\ job[w] \in Requests
        /\ events' \in {events, events \cup {job[w]}}
    BY <1>10 DEF Publish, TypeOK
  <2>2. <<"audit_create", job[w]>> \in db
    BY <2>1 DEF StepMatchesRows
  <2> QED
    BY <2>1, <2>2 DEF TrailOrdered
<1>11. ASSUME NEW w \in Workers, Return(w)
       PROVE  TrailOrdered'
  <2>1. pc[w] = "reply" /\ Finish(w, "ok") /\ db' = db /\ events' = events
    BY <1>11 DEF Return
  <2>2. /\ job[w] \in Requests /\ answer'[job[w]] = "ok"
        /\ \A r \in Requests \ {job[w]} : answer'[r] = answer[r]
    BY <2>1, FinishEffect DEF Answers
  <2>3. <<"audit_create", job[w]>> \in db
    BY <2>1 DEF StepMatchesRows
  <2> QED
    BY <2>1, <2>2, <2>3 DEF TrailOrdered
<1>12. ASSUME NEW t \in Tenants, NEW p \in Plans, ChangePlan(t, p)
      PROVE  TrailOrdered'
  BY <1>12 DEF TypeOK, TrailOrdered, ChangePlan, Running, GoTo, Finish
<1>13. CASE NewMonth
  BY <1>13 DEF TypeOK, TrailOrdered, NewMonth, Running, GoTo, Finish
<1>14. ASSUME NEW p \in Processes, LoseLink(p)
      PROVE  TrailOrdered'
  BY <1>14 DEF TypeOK, TrailOrdered, LoseLink, Running, GoTo, Finish
<1>15. ASSUME NEW T \in orphans, ServerCommits(T)
       PROVE  TrailOrdered'
  <2>1. answer' = answer /\ events' = events
    BY <1>15 DEF ServerCommits
  <2>2. PICK r \in Requests, step \in Commits :
          /\ answer[r] \in {"error", "lost"}
          /\ step = "flight_commit" => MayCreate(r)
          /\ step = "create_commit" => <<"flights", r>> \in db
          /\ step = "denied_commit" => ~MayCreate(r)
          /\ Lands(r, step)
    BY <1>15, OrphanEffect
  <2> QED
    BY <2>1, <2>2 DEF TrailOrdered, Lands
<1>16. ASSUME NEW p \in Processes, Restart(p)
      PROVE  TrailOrdered'
  <2>1. /\ db' = db /\ events' = events
        /\ \A r \in Requests : answer'[r] \in {answer[r], "lost"}
    BY <1>16 DEF Restart
  <2> QED
    BY <2>1 DEF TrailOrdered
<1>17. CASE UNCHANGED vars
  BY <1>17 DEF TypeOK, TrailOrdered, vars, Running, GoTo, Finish
<1> QED
  BY <1>1, <1>2, <1>3, <1>4, <1>5, <1>6, <1>7, <1>8, <1>9, <1>10, <1>11, <1>12, <1>13,
     <1>14, <1>15, <1>16, <1>17 DEF Next, Work, Environment

LEMMA NextOrphans ==
  ASSUME TypeOK, StagedMatchesStep, OneThreadPerRequest, StepMatchesRows, OrphansWhole,
         [Next]_vars
  PROVE  OrphansWhole'
<1>1. ASSUME NEW w \in Workers, Work(w) \/ Return(w)
      PROVE  OrphansWhole'
  <2>1. pc[w] # "idle"
    BY <1>1
       DEF Work, Begin, BeginThrows, CheckPermission, CheckLimit, Insert, StatementThrows,
           Commit, CommitInDoubt, Publish, Return, Running, AfterBegin, AfterInsert, InTxn,
           Statements, Commits
  <2>2. answer' = answer \/ \E a : answer' = [answer EXCEPT ![job[w]] = a]
    BY <1>1
       DEF Work, Begin, BeginThrows, CheckPermission, CheckLimit, Insert, StatementThrows,
           Commit, CommitInDoubt, Publish, Return, Finish
  <2>3. /\ db \subseteq db'
         /\ \/ orphans' = orphans
            \/ /\ pc[w] \in Commits /\ orphans' = orphans \cup {staged[w]}
               /\ answer' = [answer EXCEPT ![job[w]] = "error"]
    BY <1>1
       DEF Work, Begin, BeginThrows, CheckPermission, CheckLimit, Insert, StatementThrows,
           Commit, CommitInDoubt, Publish, Return, Finish, Persist
  <2>4. job[w] \in Requests /\ answer[job[w]] = "pending"
    BY <2>1 DEF TypeOK, OneThreadPerRequest
  <2>5. \A r \in Requests : answer[r] \in {"error", "lost"} => answer'[r] = answer[r]
    BY <2>2, <2>4 DEF TypeOK
  <2>6. pc[w] \in Commits /\ answer' = [answer EXCEPT ![job[w]] = "error"]
          => answer'[job[w]] = "error"
    BY <2>4 DEF TypeOK
  <2> QED
    BY <2>3, <2>5, <2>6, OrphansFrom
<1>2. ASSUME NEW p \in Processes, Restart(p)
      PROVE  OrphansWhole'
  <2>1. \A w \in Workers : Host[w] = p /\ pc[w] \in Commits => answer'[job[w]] = "lost"
    BY <1>2 DEF TypeOK, Restart, Commits
  <2>2. \A T \in orphans' \ orphans : \E w \in Workers :
          Host[w] = p /\ pc[w] \in Commits /\ T = staged[w]
    BY <1>2 DEF Restart
  <2>3. db' = db /\ \A r \in Requests : answer'[r] \in {answer[r], "lost"}
    BY <1>2 DEF Restart
  <2> QED
    BY <2>1, <2>2, <2>3, OrphansFrom
<1>3. ASSUME NEW w \in Workers, NEW r \in Requests, Receive(w, r)
      PROVE  OrphansWhole'
  <2>1. \A q \in Requests : answer[q] \in {"error", "lost"} => answer'[q] = answer[q]
    BY <1>3 DEF TypeOK, Receive
  <2> QED
    BY <1>3, <2>1, OrphansFrom DEF Receive
<1>4. CASE /\ orphans' = orphans /\ answer' = answer /\ db \subseteq db'
  BY <1>4, OrphansFrom
<1> QED
  BY <1>1, <1>2, <1>3, <1>4
     DEF Next, Environment, ChangePlan, NewMonth, LoseLink, ServerCommits, vars

-----------------------------------------------------------------------------
(* The plan limit. *)

LEMMA LoadFinite ==
  ASSUME NEW t \in Tenants, IsFiniteSet(month)
  PROVE  /\ UsageCount(t) \in Nat
         /\ IsFiniteSet(Counted(t)) /\ Cardinality(Counted(t)) \in Nat
         /\ Cardinality(Counted(t)) <= UsageCount(t)
         /\ IsFiniteSet(InFlight(t)) /\ Cardinality(InFlight(t)) \in Nat
         /\ Cardinality(InFlight(t)) <= Cardinality(Workers)
         /\ Cardinality(Workers) \in Nat \ {0}
<1>1. /\ Usage(t) \subseteq month /\ Counted(t) \subseteq Usage(t)
      /\ InFlight(t) \subseteq Workers
  BY DEF Usage, Counted, InFlight
<1>2. Cardinality(Workers) \in Nat /\ Cardinality(Workers) # 0
  BY WorkersAssumption, FS_CardinalityType, FS_EmptySet
<1> QED
  BY <1>1, <1>2, WorkersAssumption, FS_Subset, FS_CardinalityType DEF UsageCount

(* A step that adds neither usage nor a thread past the check. *)
LEMMA LoadShrinks ==
  ASSUME TypeOK, TypeOK', IsFiniteSet(month), OvershootBounded, NEW t \in Tenants,
         Counted(t)' \subseteq Counted(t), InFlight(t)' \subseteq InFlight(t),
         ceiling[t] <= ceiling'[t]
  PROVE  Cardinality(Counted(t))' + Cardinality(InFlight(t))' < ceiling'[t] + Cardinality(Workers)
<1>1. /\ Cardinality(Counted(t))' \in Nat /\ Cardinality(Counted(t))' <= Cardinality(Counted(t))
      /\ Cardinality(InFlight(t))' \in Nat
      /\ Cardinality(InFlight(t))' <= Cardinality(InFlight(t))
  BY LoadFinite, FS_Subset, FS_CardinalityType
<1>2. Cardinality(Counted(t)) + Cardinality(InFlight(t)) < ceiling[t] + Cardinality(Workers)
  BY DEF OvershootBounded
<1>3. ceiling[t] \in Nat /\ ceiling'[t] \in Nat
  BY DEF TypeOK
<1> QED
  BY <1>1, <1>2, <1>3, LoadFinite

(* A step that turns a thread past the check into usage. *)
LEMMA LoadMoves ==
  ASSUME TypeOK, IsFiniteSet(month), OvershootBounded, NEW t \in Tenants,
         NEW r, NEW w \in InFlight(t), ceiling' = ceiling,
         Counted(t)' \subseteq Counted(t) \cup {r}, InFlight(t)' \subseteq InFlight(t) \ {w}
  PROVE  Cardinality(Counted(t))' + Cardinality(InFlight(t))' < ceiling'[t] + Cardinality(Workers)
<1>1. IsFiniteSet(Counted(t)) /\ Cardinality(Counted(t)) \in Nat /\ IsFiniteSet(InFlight(t))
  BY LoadFinite
<1>2. /\ IsFiniteSet(Counted(t) \cup {r})
      /\ Cardinality(Counted(t) \cup {r}) \in Nat
      /\ Cardinality(Counted(t) \cup {r}) <= Cardinality(Counted(t)) + 1
  <2>1. /\ IsFiniteSet(Counted(t) \cup {r})
        /\ \/ Cardinality(Counted(t) \cup {r}) = Cardinality(Counted(t))
           \/ Cardinality(Counted(t) \cup {r}) = Cardinality(Counted(t)) + 1
    BY <1>1, FS_AddElement
  <2> QED
    BY <1>1, <2>1
<1>3. Cardinality(Counted(t))' \in Nat /\ Cardinality(Counted(t))' <= Cardinality(Counted(t)) + 1
  BY <1>1, <1>2, FS_Subset, FS_CardinalityType
<1>4. /\ IsFiniteSet(InFlight(t) \ {w})
      /\ Cardinality(InFlight(t) \ {w}) = Cardinality(InFlight(t)) - 1
  BY <1>1, FS_RemoveElement
<1>5. /\ Cardinality(InFlight(t))' \in Nat
      /\ Cardinality(InFlight(t))' <= Cardinality(InFlight(t)) - 1
  BY <1>4, FS_Subset, FS_CardinalityType
<1>6. Cardinality(Counted(t)) + Cardinality(InFlight(t)) < ceiling[t] + Cardinality(Workers)
  BY DEF OvershootBounded
<1>7. ceiling[t] \in Nat /\ Cardinality(InFlight(t)) \in Nat /\ Cardinality(Workers) \in Nat
  BY LoadFinite DEF TypeOK
<1> QED
  BY <1>1, <1>3, <1>5, <1>6, <1>7

LEMMA NextCeiling ==
  ASSUME TypeOK, TypeOK', IsFiniteSet(month), PlanWithinCeiling, [Next]_vars
  PROVE  PlanWithinCeiling'
<1> USE PlanAssumption
<1>1. ASSUME NEW w \in Workers, NEW r \in Requests, Receive(w, r)
      PROVE  PlanWithinCeiling'
  BY <1>1 DEF TypeOK, PlanWithinCeiling, InFlight, PastCheck, Receive, GoTo
<1>2. ASSUME NEW w \in Workers, Begin(w)
      PROVE  PlanWithinCeiling'
  BY <1>2 DEF TypeOK, PlanWithinCeiling, InFlight, PastCheck, Begin, AfterBegin, GoTo
<1>3. ASSUME NEW w \in Workers, BeginThrows(w)
      PROVE  PlanWithinCeiling'
  BY <1>3
     DEF TypeOK, PlanWithinCeiling, InFlight, PastCheck, BeginThrows, AfterBegin, Finish, GoTo
<1>4. ASSUME NEW w \in Workers, CheckPermission(w)
      PROVE  PlanWithinCeiling'
  BY <1>4 DEF TypeOK, PlanWithinCeiling, InFlight, PastCheck, CheckPermission, Running, GoTo
<1>5. ASSUME NEW w \in Workers, CheckLimit(w)
      PROVE  PlanWithinCeiling'
  <2>1. CASE BelowLimit(TenantOf(job[w])) /\ Attr[job[w]].body
    <3>1. UsageCount(TenantOf(job[w])) >= 0 /\ TenantOf(job[w]) \in Tenants
      BY <1>5, LoadFinite, RequestAssumption
         DEF CheckLimit, Running, TypeOK, TenantOf, RequestAttr
    <3>2. ceiling[TenantOf(job[w])] >= 1
      <4>1. UsageCount(TenantOf(job[w])) < PlanLimit[plan[TenantOf(job[w])]]
        BY <2>1 DEF BelowLimit
      <4>2. PlanLimit[plan[TenantOf(job[w])]] <= ceiling[TenantOf(job[w])]
        BY <3>1 DEF PlanWithinCeiling
      <4>3. UsageCount(TenantOf(job[w])) \in Nat
        BY <3>1, LoadFinite
      <4> QED
        BY <3>1, <4>1, <4>2, <4>3 DEF TypeOK
    <3>3. \A t \in Tenants \ {TenantOf(job[w])} : InFlight(t)' \subseteq InFlight(t)
      BY <1>5, <2>1 DEF TypeOK, InFlight, PastCheck, CheckLimit, GoTo
    <3> QED
      BY <1>5, <3>2, <3>3 DEF TypeOK, PlanWithinCeiling, CheckLimit
  <2>2. CASE ~(BelowLimit(TenantOf(job[w])) /\ Attr[job[w]].body)
    BY <1>5, <2>2 DEF TypeOK, PlanWithinCeiling, InFlight, PastCheck, CheckLimit, Finish, GoTo
  <2> QED
    BY <2>1, <2>2
<1>6. ASSUME NEW w \in Workers, Insert(w)
      PROVE  PlanWithinCeiling'
  BY <1>6 DEF TypeOK, PlanWithinCeiling, InFlight, PastCheck, Insert, AfterInsert, GoTo
<1>7. ASSUME NEW w \in Workers, StatementThrows(w)
      PROVE  PlanWithinCeiling'
  BY <1>7 DEF TypeOK, PlanWithinCeiling, InFlight, PastCheck, StatementThrows, Finish, GoTo
<1>8. ASSUME NEW w \in Workers, Commit(w)
      PROVE  PlanWithinCeiling'
  BY <1>8 DEF TypeOK, PlanWithinCeiling, InFlight, PastCheck, Commit, Commits, Finish, GoTo
<1>9. ASSUME NEW w \in Workers, CommitInDoubt(w)
      PROVE  PlanWithinCeiling'
  BY <1>9
     DEF TypeOK, PlanWithinCeiling, InFlight, PastCheck, CommitInDoubt, Commits, Finish, GoTo
<1>10. ASSUME NEW w \in Workers, Publish(w)
       PROVE  PlanWithinCeiling'
  BY <1>10 DEF TypeOK, PlanWithinCeiling, InFlight, PastCheck, Publish, GoTo
<1>11. ASSUME NEW w \in Workers, Return(w)
       PROVE  PlanWithinCeiling'
  BY <1>11 DEF TypeOK, PlanWithinCeiling, InFlight, PastCheck, Return, Finish, GoTo
<1>12. ASSUME NEW t \in Tenants, NEW p \in Plans, ChangePlan(t, p)
      PROVE  PlanWithinCeiling'
  BY <1>12 DEF TypeOK, PlanWithinCeiling, InFlight, PastCheck, ChangePlan
<1>13. CASE NewMonth
  BY <1>13 DEF TypeOK, PlanWithinCeiling, InFlight, PastCheck, NewMonth
<1>14. ASSUME NEW p \in Processes, LoseLink(p)
      PROVE  PlanWithinCeiling'
  BY <1>14 DEF TypeOK, PlanWithinCeiling, InFlight, PastCheck, LoseLink
<1>15. ASSUME NEW T \in orphans, ServerCommits(T)
       PROVE  PlanWithinCeiling'
  BY <1>15 DEF TypeOK, PlanWithinCeiling, InFlight, PastCheck, ServerCommits
<1>16. ASSUME NEW p \in Processes, Restart(p)
      PROVE  PlanWithinCeiling'
  BY <1>16 DEF TypeOK, PlanWithinCeiling, InFlight, PastCheck, Restart
<1>17. CASE UNCHANGED vars
  BY <1>17 DEF TypeOK, PlanWithinCeiling, InFlight, PastCheck, vars
<1> QED
  BY <1>1, <1>2, <1>3, <1>4, <1>5, <1>6, <1>7, <1>8, <1>9, <1>10, <1>11, <1>12, <1>13,
     <1>14, <1>15, <1>16, <1>17 DEF Next, Work, Environment

LEMMA NextMonthFinite ==
  ASSUME IsFiniteSet(month), [Next]_vars
  PROVE  IsFiniteSet(month)'
<1>1. ASSUME NEW w \in Workers, NEW r \in Requests, Receive(w, r)
      PROVE  IsFiniteSet(month)'
  BY <1>1 DEF Receive
<1>2. ASSUME NEW w \in Workers, Begin(w)
      PROVE  IsFiniteSet(month)'
  BY <1>2, FS_AddElement DEF Begin
<1>3. ASSUME NEW w \in Workers, BeginThrows(w)
      PROVE  IsFiniteSet(month)'
  BY <1>3 DEF BeginThrows
<1>4. ASSUME NEW w \in Workers, CheckPermission(w)
      PROVE  IsFiniteSet(month)'
  BY <1>4 DEF CheckPermission
<1>5. ASSUME NEW w \in Workers, CheckLimit(w)
      PROVE  IsFiniteSet(month)'
  BY <1>5 DEF CheckLimit
<1>6. ASSUME NEW w \in Workers, Insert(w)
      PROVE  IsFiniteSet(month)'
  BY <1>6 DEF Insert
<1>7. ASSUME NEW w \in Workers, StatementThrows(w)
      PROVE  IsFiniteSet(month)'
  BY <1>7 DEF StatementThrows
<1>8. ASSUME NEW w \in Workers, Commit(w)
      PROVE  IsFiniteSet(month)'
  BY <1>8 DEF Commit
<1>9. ASSUME NEW w \in Workers, CommitInDoubt(w)
      PROVE  IsFiniteSet(month)'
  BY <1>9 DEF CommitInDoubt
<1>10. ASSUME NEW w \in Workers, Publish(w)
       PROVE  IsFiniteSet(month)'
  BY <1>10 DEF Publish
<1>11. ASSUME NEW w \in Workers, Return(w)
       PROVE  IsFiniteSet(month)'
  BY <1>11 DEF Return
<1>12. ASSUME NEW t \in Tenants, NEW p \in Plans, ChangePlan(t, p)
      PROVE  IsFiniteSet(month)'
  BY <1>12 DEF ChangePlan
<1>13. CASE NewMonth
  BY <1>13, FS_EmptySet DEF NewMonth
<1>14. ASSUME NEW p \in Processes, LoseLink(p)
      PROVE  IsFiniteSet(month)'
  BY <1>14 DEF LoseLink
<1>15. ASSUME NEW T \in orphans, ServerCommits(T)
       PROVE  IsFiniteSet(month)'
  BY <1>15 DEF ServerCommits
<1>16. ASSUME NEW p \in Processes, Restart(p)
      PROVE  IsFiniteSet(month)'
  BY <1>16 DEF Restart
<1>17. CASE UNCHANGED vars
  BY <1>17 DEF vars
<1> QED
  BY <1>1, <1>2, <1>3, <1>4, <1>5, <1>6, <1>7, <1>8, <1>9, <1>10, <1>11, <1>12, <1>13,
     <1>14, <1>15, <1>16, <1>17 DEF Next, Work, Environment

LEMMA NextOvershoot ==
  ASSUME TypeOK, TypeOK', LedgerComplete, StagedMatchesStep, StepMatchesRows,
         PlanWithinCeiling, IsFiniteSet(month), OvershootBounded, [Next]_vars
  PROVE  OvershootBounded'
<1>1. ASSUME NEW w \in Workers, NEW r \in Requests, Receive(w, r)
      PROVE  OvershootBounded'
  <2>1. ASSUME NEW t \in Tenants
        PROVE  /\ Counted(t)' \subseteq Counted(t)
               /\ InFlight(t)' \subseteq InFlight(t)
               /\ ceiling[t] <= ceiling'[t]
    BY <1>1 DEF TypeOK, InFlight, PastCheck, Usage, Counted, Orphaned, Receive, GoTo
  <2> QED
    BY <2>1, LoadShrinks DEF OvershootBounded
<1>2. ASSUME NEW w \in Workers, Begin(w)
      PROVE  OvershootBounded'
  <2>1. pc[w] = "flight_begin" => <<"usage_metrics", job[w]>> \notin db
    BY DEF StepMatchesRows, Stored, LedgerComplete, TypeOK
  <2>2. ASSUME NEW t \in Tenants
        PROVE  /\ Counted(t)' \subseteq Counted(t)
               /\ InFlight(t)' \subseteq InFlight(t)
               /\ ceiling[t] <= ceiling'[t]
    BY <1>2, <2>1 DEF TypeOK, InFlight, PastCheck, Usage, Counted, Orphaned, Begin, AfterBegin, GoTo
  <2> QED
    BY <2>2, LoadShrinks DEF OvershootBounded
<1>3. ASSUME NEW w \in Workers, BeginThrows(w)
      PROVE  OvershootBounded'
  <2>1. ASSUME NEW t \in Tenants
        PROVE  /\ Counted(t)' \subseteq Counted(t)
               /\ InFlight(t)' \subseteq InFlight(t)
               /\ ceiling[t] <= ceiling'[t]
    BY <1>3 DEF TypeOK, InFlight, PastCheck, Usage, Counted, Orphaned, BeginThrows, Finish, GoTo
  <2> QED
    BY <2>1, LoadShrinks DEF OvershootBounded
<1>4. ASSUME NEW w \in Workers, CheckPermission(w)
      PROVE  OvershootBounded'
  <2>1. ASSUME NEW t \in Tenants
        PROVE  /\ Counted(t)' \subseteq Counted(t)
               /\ InFlight(t)' \subseteq InFlight(t)
               /\ ceiling[t] <= ceiling'[t]
    BY <1>4 DEF TypeOK, InFlight, PastCheck, Usage, Counted, Orphaned, CheckPermission, GoTo
  <2> QED
    BY <2>1, LoadShrinks DEF OvershootBounded
<1>5. ASSUME NEW w \in Workers, CheckLimit(w)
      PROVE  OvershootBounded'
  <2>1. CASE BelowLimit(TenantOf(job[w])) /\ Attr[job[w]].body
    <3> DEFINE t0 == TenantOf(job[w])
    <3>1. UsageCount(t0) < ceiling[t0]
      <4>1. job[w] \in Requests /\ t0 \in Tenants
        BY <1>5, RequestAssumption DEF TypeOK, CheckLimit, Running, TenantOf, RequestAttr
      <4>2. UsageCount(t0) \in Nat /\ PlanLimit[plan[t0]] \in Nat /\ ceiling[t0] \in Nat
        BY <4>1, LoadFinite, PlanAssumption DEF TypeOK
      <4> QED
        BY <2>1, <4>1, <4>2 DEF BelowLimit, PlanWithinCeiling
    <3>2. ASSUME NEW t \in Tenants
          PROVE  Cardinality(Counted(t))' + Cardinality(InFlight(t))' < ceiling'[t] + Cardinality(Workers)
      <4>1. Counted(t)' = Counted(t) /\ ceiling' = ceiling
        BY <1>5 DEF CheckLimit, Usage, Counted, Orphaned
      <4>2. CASE t = t0
        <5>1. /\ Cardinality(InFlight(t))' <= Cardinality(Workers)
              /\ Cardinality(InFlight(t))' \in Nat
          BY <1>5, <4>2, <4>1, FS_Subset, FS_CardinalityType, WorkersAssumption DEF InFlight
        <5> QED
          BY <3>1, <4>1, <4>2, <5>1, LoadFinite DEF TypeOK
      <4>3. CASE t # t0
        <5>1. InFlight(t)' \subseteq InFlight(t)
          BY <1>5, <2>1, <4>3 DEF CheckLimit, GoTo, TypeOK, InFlight, PastCheck
        <5> QED
          BY <4>1, <5>1, LoadShrinks DEF TypeOK
      <4> QED
        BY <4>2, <4>3
    <3> QED
      BY <3>2 DEF OvershootBounded
  <2>2. CASE ~(BelowLimit(TenantOf(job[w])) /\ Attr[job[w]].body)
    <3>1. ASSUME NEW t \in Tenants
          PROVE  /\ Counted(t)' \subseteq Counted(t)
                 /\ InFlight(t)' \subseteq InFlight(t)
                 /\ ceiling[t] <= ceiling'[t]
      BY <1>5, <2>2 DEF TypeOK, InFlight, PastCheck, Usage, Counted, Orphaned, CheckLimit, Finish, GoTo
    <3> QED
      BY <3>1, LoadShrinks DEF OvershootBounded
  <2> QED
    BY <2>1, <2>2
<1>6. ASSUME NEW w \in Workers, Insert(w)
      PROVE  OvershootBounded'
  <2>1. ASSUME NEW t \in Tenants
        PROVE  /\ Counted(t)' \subseteq Counted(t)
               /\ InFlight(t)' \subseteq InFlight(t)
               /\ ceiling[t] <= ceiling'[t]
    BY <1>6 DEF TypeOK, InFlight, PastCheck, Usage, Counted, Orphaned, Insert, AfterInsert, GoTo
  <2> QED
    BY <2>1, LoadShrinks DEF OvershootBounded
<1>7. ASSUME NEW w \in Workers, StatementThrows(w)
      PROVE  OvershootBounded'
  <2>1. ASSUME NEW t \in Tenants
        PROVE  /\ Counted(t)' \subseteq Counted(t)
               /\ InFlight(t)' \subseteq InFlight(t)
               /\ ceiling[t] <= ceiling'[t]
    BY <1>7 DEF TypeOK, InFlight, PastCheck, Usage, Counted, Orphaned, StatementThrows, Finish, GoTo
  <2> QED
    BY <2>1, LoadShrinks DEF OvershootBounded
<1>8. ASSUME NEW w \in Workers, Commit(w)
      PROVE  OvershootBounded'
  <2>1. pc[w] \in Commits /\ Persist(w) /\ month' = month /\ ceiling' = ceiling /\ job[w] \in Requests
    BY <1>8 DEF TypeOK, Commit, Commits
  <2>2. /\ pc'[w] \notin PastCheck
        /\ \A v \in Workers \ {w} : pc'[v] = pc[v] /\ job'[v] = job[v]
    BY <1>8 DEF TypeOK, Commit, PastCheck, Commits, GoTo, Finish
  <2>3. \A t \in Tenants : InFlight(t)' \subseteq InFlight(t) \ {w}
    BY <2>2 DEF InFlight
  <2>4. ASSUME NEW t \in Tenants
        PROVE  Cardinality(Counted(t))' + Cardinality(InFlight(t))' < ceiling'[t] + Cardinality(Workers)
    <3>1. CASE pc[w] = "flight_commit" /\ TenantOf(job[w]) = t
      <4>1. w \in InFlight(t)
        BY <3>1 DEF InFlight, PastCheck
      <4>2. Counted(t)' \subseteq Counted(t) \cup {job[w]}
        <5>1. \A r \in Requests : Orphaned(r)' <=> Orphaned(r)
          BY <1>8 DEF Commit, Orphaned
        <5>2. \A r \in Requests \ {job[w]} :
                <<"usage_metrics", r>> \in db' => <<"usage_metrics", r>> \in db
          BY <2>1, PersistEffect
        <5> QED
          BY <2>1, <5>1, <5>2 DEF TypeOK, Usage, Counted
      <4> QED
        BY <2>1, <2>3, <4>1, <4>2, LoadMoves
    <3>2. CASE ~(pc[w] = "flight_commit" /\ TenantOf(job[w]) = t)
      <4>1. Counted(t)' \subseteq Counted(t)
        BY <1>8, <2>1, <3>2, PersistEffect DEF TypeOK, Commit, Usage, Counted, Orphaned
      <4> QED
        BY <2>1, <2>3, <4>1, LoadShrinks DEF TypeOK
    <3> QED
      BY <3>1, <3>2
  <2> QED
    BY <2>4 DEF OvershootBounded
<1>9. ASSUME NEW w \in Workers, CommitInDoubt(w)
      PROVE  OvershootBounded'
  <2>1. ASSUME NEW t \in Tenants
        PROVE  /\ Counted(t)' \subseteq Counted(t)
               /\ InFlight(t)' \subseteq InFlight(t)
               /\ ceiling[t] <= ceiling'[t]
    BY <1>9 DEF TypeOK, InFlight, PastCheck, Usage, Counted, Orphaned, CommitInDoubt, Finish, GoTo
  <2> QED
    BY <2>1, LoadShrinks DEF OvershootBounded
<1>10. ASSUME NEW w \in Workers, Publish(w)
      PROVE  OvershootBounded'
  <2>1. ASSUME NEW t \in Tenants
        PROVE  /\ Counted(t)' \subseteq Counted(t)
               /\ InFlight(t)' \subseteq InFlight(t)
               /\ ceiling[t] <= ceiling'[t]
    BY <1>10 DEF TypeOK, InFlight, PastCheck, Usage, Counted, Orphaned, Publish, GoTo
  <2> QED
    BY <2>1, LoadShrinks DEF OvershootBounded
<1>11. ASSUME NEW w \in Workers, Return(w)
       PROVE  OvershootBounded'
  <2>1. ASSUME NEW t \in Tenants
        PROVE  /\ Counted(t)' \subseteq Counted(t)
               /\ InFlight(t)' \subseteq InFlight(t)
               /\ ceiling[t] <= ceiling'[t]
    BY <1>11 DEF TypeOK, InFlight, PastCheck, Usage, Counted, Orphaned, Return, Finish, GoTo
  <2> QED
    BY <2>1, LoadShrinks DEF OvershootBounded
<1>12. ASSUME NEW t \in Tenants, NEW p \in Plans, ChangePlan(t, p)
      PROVE  OvershootBounded'
  <2>1. ASSUME NEW u \in Tenants
        PROVE  /\ Counted(u)' \subseteq Counted(u)
               /\ InFlight(u)' \subseteq InFlight(u)
               /\ ceiling[u] <= ceiling'[u]
    BY <1>12, PlanAssumption DEF TypeOK, InFlight, PastCheck, Usage, Counted, Orphaned, ChangePlan, InFlight
  <2> QED
    BY <2>1, LoadShrinks DEF OvershootBounded
<1>13. CASE NewMonth
  <2>1. ASSUME NEW t \in Tenants
        PROVE  Cardinality(Counted(t))' + Cardinality(InFlight(t))' < ceiling'[t] + Cardinality(Workers)
    <3>1. Cardinality(Counted(t))' = 0 /\ InFlight(t)' = InFlight(t) /\ ceiling'[t] = ceiling[t]
      BY <1>13, FS_EmptySet DEF NewMonth, Counted, Usage, InFlight
    <3>2. InFlight(t) = {} => Cardinality(InFlight(t)) = 0
      BY FS_EmptySet
    <3> QED
      BY <3>1, <3>2, LoadFinite DEF PlanWithinCeiling, TypeOK
  <2> QED
    BY <2>1 DEF OvershootBounded
<1>14. ASSUME NEW p \in Processes, LoseLink(p)
      PROVE  OvershootBounded'
  <2>1. ASSUME NEW t \in Tenants
        PROVE  /\ Counted(t)' \subseteq Counted(t)
               /\ InFlight(t)' \subseteq InFlight(t)
               /\ ceiling[t] <= ceiling'[t]
    BY <1>14 DEF TypeOK, InFlight, PastCheck, Usage, Counted, Orphaned, LoseLink, TypeOK
  <2> QED
    BY <2>1, LoadShrinks DEF OvershootBounded
<1>15. ASSUME NEW T \in orphans, ServerCommits(T)
       PROVE  OvershootBounded'
  <2>1. ASSUME NEW t \in Tenants
        PROVE  /\ Counted(t)' \subseteq Counted(t)
               /\ InFlight(t)' \subseteq InFlight(t)
               /\ ceiling[t] <= ceiling'[t]
    BY <1>15 DEF TypeOK, InFlight, PastCheck, Usage, Counted, Orphaned, ServerCommits
  <2> QED
    BY <2>1, LoadShrinks DEF OvershootBounded
<1>16. ASSUME NEW p \in Processes, Restart(p)
      PROVE  OvershootBounded'
  <2>1. ASSUME NEW t \in Tenants
        PROVE  /\ Counted(t)' \subseteq Counted(t)
               /\ InFlight(t)' \subseteq InFlight(t)
               /\ ceiling[t] <= ceiling'[t]
    BY <1>16 DEF TypeOK, InFlight, PastCheck, Usage, Counted, Orphaned, Restart, TypeOK
  <2> QED
    BY <2>1, LoadShrinks DEF OvershootBounded
<1>17. CASE UNCHANGED vars
  <2>1. ASSUME NEW t \in Tenants
        PROVE  /\ Counted(t)' \subseteq Counted(t)
               /\ InFlight(t)' \subseteq InFlight(t)
               /\ ceiling[t] <= ceiling'[t]
    BY <1>17 DEF TypeOK, InFlight, PastCheck, Usage, Counted, Orphaned, vars, TypeOK
  <2> QED
    BY <2>1, LoadShrinks DEF OvershootBounded
<1> QED
  BY <1>1, <1>2, <1>3, <1>4, <1>5, <1>6, <1>7, <1>8, <1>9, <1>10, <1>11, <1>12, <1>13,
     <1>14, <1>15, <1>16, <1>17 DEF Next, Work, Environment

-----------------------------------------------------------------------------
(* The inductive invariant. *)

LEMMA InitIInv == Init => IInv
<1> SUFFICES ASSUME Init PROVE IInv
  OBVIOUS
<1>1. StagedMatchesStep /\ OneThreadPerRequest /\ LedgerComplete /\ TrailOrdered
  BY DEF Init, StagedMatchesStep, StagedBy, OneThreadPerRequest, LedgerComplete, TrailOrdered
<1>2. StepMatchesRows
  BY DEF Init, StepMatchesRows, Allowed, Refused, PastCheck, Stored
<1>3. \A t \in Tenants : Counted(t) = {} /\ InFlight(t) = {}
  BY DEF Init, Counted, Usage, InFlight, PastCheck
<1>4. PlanWithinCeiling
  BY <1>3, PlanAssumption DEF Init, PlanWithinCeiling
<1>5. IsFiniteSet(month)
  BY FS_EmptySet DEF Init
<1>6. OvershootBounded
  BY <1>3, <1>5, InitTypeOK, LoadFinite, FS_EmptySet DEF OvershootBounded, TypeOK
<1> QED
  BY <1>1, <1>2, <1>4, <1>5, <1>6, InitTypeOK, InitConnection DEF IInv, Init, OrphansWhole

LEMMA NextIInv == IInv /\ [Next]_vars => IInv'
<1> SUFFICES ASSUME IInv, [Next]_vars PROVE IInv'
  OBVIOUS
<1>1. TypeOK'
  BY NextTypeOK DEF IInv
<1>2. ConnectionMatchesWork' /\ OneThreadPerRequest' /\ StagedMatchesStep' /\ LedgerComplete'
  BY NextConnection, NextOneThread, NextStaged, NextLedger DEF IInv
<1>3. StepMatchesRows' /\ TrailOrdered' /\ OrphansWhole'
  BY NextSteps, NextTrail, NextOrphans DEF IInv
<1>4. PlanWithinCeiling' /\ IsFiniteSet(month)' /\ OvershootBounded'
  BY <1>1, NextCeiling, NextMonthFinite, NextOvershoot DEF IInv
<1> QED
  BY <1>1, <1>2, <1>3, <1>4 DEF IInv

LEMMA Inductive == Spec => []IInv
BY InitIInv, NextIInv, PTL DEF Spec

(* "Atomic commit!": no failure separates a flight from its usage row.     *)
THEOREM LedgerCorrect == Spec => []LedgerComplete
BY Inductive, PTL DEF IInv

(* The audit trail, the events and the answers never run ahead of what the *)
(* database holds, whatever the threads and processes do.                  *)
THEOREM TrailCorrect == Spec => []TrailOrdered
BY Inductive, PTL DEF IInv

(* Concurrent requests overshoot a plan by less than the number of threads *)
(* of the deployment, for every number of requests.                        *)
THEOREM OvershootCorrect == Spec => []OvershootBounded
BY Inductive, PTL DEF IInv

-----------------------------------------------------------------------------
(* Nobody waits. *)

(* A request is answered by the step that takes it from its thread. *)
Handled == \A r \in Requests : answer[r] = "pending" => \E w \in Workers : job[w] = r

LEMMA FinishHandled ==
  ASSUME TypeOK, Handled, NEW w \in Workers, NEW a \in Final, Finish(w, a), pc[w] # "idle"
  PROVE  Handled'
<1> SUFFICES ASSUME NEW r \in Requests, answer'[r] = "pending"
             PROVE  \E v \in Workers : job'[v] = r
  BY DEF Handled
<1>1. answer' = [answer EXCEPT ![job[w]] = a] /\ job' = [job EXCEPT ![w] = NoRequest]
  BY DEF Finish
<1>2. r # job[w] /\ answer[r] = "pending"
  BY <1>1 DEF TypeOK, Final
<1>3. PICK v \in Workers : job[v] = r
  BY <1>2 DEF Handled
<1> QED
  BY <1>1, <1>2, <1>3 DEF TypeOK

LEMMA NextHandled ==
  ASSUME TypeOK, OneThreadPerRequest, Handled, [Next]_vars
  PROVE  Handled'
<1>1. ASSUME NEW w \in Workers, NEW r \in Requests, Receive(w, r) PROVE Handled'
  <2> SUFFICES ASSUME NEW q \in Requests, answer'[q] = "pending"
               PROVE  \E v \in Workers : job'[v] = q
    BY DEF Handled
  <2>1. CASE q = r
    BY <1>1, <2>1 DEF Receive, TypeOK
  <2>2. CASE q # r
    <3>1. answer[q] = "pending"
      BY <1>1, <2>2 DEF Receive, TypeOK
    <3>2. PICK v \in Workers : job[v] = q
      BY <3>1 DEF Handled
    <3>3. v # w
      BY <1>1, <3>2, RequestAssumption DEF Receive, TypeOK
    <3> QED
      BY <1>1, <3>2, <3>3 DEF Receive, TypeOK
  <2> QED
    BY <2>1, <2>2
<1>2. ASSUME NEW w \in Workers, NEW a \in Final, Finish(w, a), pc[w] # "idle" PROVE Handled'
  BY <1>2, FinishHandled
<1>3. ASSUME UNCHANGED <<job, answer>> PROVE Handled'
  BY <1>3 DEF Handled
<1>4. ASSUME NEW w \in Workers, Work(w) \/ Return(w) PROVE Handled'
  <2>1. "plan_limit" \in Final /\ "error" \in Final /\ "denied" \in Final /\ "ok" \in Final
        /\ ThrownAnswer(w) \in Final
    BY DEF Final, Answers, ThrownAnswer
  <2>2. \/ UNCHANGED <<job, answer>>
        \/ pc[w] # "idle" /\ \E a \in Final : Finish(w, a)
    BY <1>4, <2>1
       DEF Work, Begin, BeginThrows, CheckPermission, CheckLimit, Insert, StatementThrows,
           Commit, CommitInDoubt, Publish, Return, Running, AfterBegin, InTxn, Statements, Commits
  <2> QED
    BY <1>2, <1>3, <2>2
<1>5. ASSUME NEW p \in Processes, Restart(p) PROVE Handled'
  <2> SUFFICES ASSUME NEW q \in Requests, answer'[q] = "pending"
               PROVE  \E v \in Workers : job'[v] = q
    BY DEF Handled
  <2>1. answer[q] = "pending" /\ ~\E v \in Workers : Host[v] = p /\ job[v] = q
    BY <1>5 DEF Restart
  <2>2. PICK v \in Workers : job[v] = q
    BY <2>1 DEF Handled
  <2> QED
    BY <1>5, <2>1, <2>2 DEF Restart
<1> QED
  BY <1>1, <1>3, <1>4, <1>5 DEF Next, Environment, ChangePlan, NewMonth, LoseLink, ServerCommits, vars

(* A request that was received and not answered is in the hands of a       *)
(* thread that has a step to take - no thread waits for another one's      *)
(* transaction, libpqxx throws instead - or that waits in PUBLISH for      *)
(* Redis' reply.  Whoever waits there has stored and audited its flight    *)
(* and holds no transaction, so that the wait spreads to nobody else.      *)
THEOREM NobodyWaitsForAThread == Spec => []OnlyRedisIsAwaited
<1>1. Init => Handled
  BY DEF Init, Handled
<1>2. IInv /\ Handled => OnlyRedisIsAwaited
  <2> SUFFICES ASSUME IInv, Handled, NEW r \in Requests, answer[r] = "pending"
               PROVE  Hanging(r) \/ \E w \in Workers : job[w] = r /\ CanStep(w)
    BY DEF OnlyRedisIsAwaited
  <2>1. PICK w \in Workers : job[w] = r
    BY DEF Handled
  <2>2. pc[w] \in Steps \ {"idle"}
    BY <2>1, RequestAssumption DEF IInv, TypeOK
  <2>3. CASE pc[w] = "reply"
    <3>1. <<"audit_create", r>> \in db /\ staged[w] = {}
      BY <2>1, <2>3 DEF IInv, StepMatchesRows, StagedMatchesStep, StagedBy
    <3>2. conn[Host[w]] # w
      <4>1. Host[w] \in Processes /\ w # NoWorker /\ pc[w] \notin InTxn
        BY <2>3, HostAssumption, WorkersAssumption DEF InTxn, Statements, Commits
      <4> QED
        BY <4>1 DEF IInv, ConnectionMatchesWork
    <3> QED
      BY <2>1, <2>3, <3>1, <3>2 DEF Hanging
  <2>4. CASE pc[w] # "reply"
    <3>1. pc[w] \in InTxn => conn[Host[w]] = w
      BY DEF IInv, ConnectionMatchesWork
    <3> QED
      BY <2>1, <2>2, <2>4, <3>1 DEF CanStep, Steps
  <2> QED
    BY <2>3, <2>4
<1>3. IInv /\ Handled /\ [Next]_vars => Handled'
  BY NextHandled DEF IInv
<1> QED
  BY <1>1, <1>2, <1>3, InitIInv, NextIInv, PTL DEF Spec
=============================================================================
