------------------------- MODULE AddFlight_refinement -------------------------
(***************************************************************************)
(* AddFlight implements FlightLifecycle: every step of the handlers, of    *)
(* their connections and of their processes is, for the client, a step of  *)
(* the lifecycle of its flight or no step at all.                          *)
(***************************************************************************)
EXTENDS AddFlight_proofs

(* The value of the lifecycle's variables. *)
Stage     == [r \in Requests |-> StageOf(r)]
Refusal   == {r \in Requests : <<"audit_denied", r>> \in db}
Permitted == {r \in Requests : MayCreate(r)}

(* Steps that touch neither rows nor events nor answers are not seen. *)
LEMMA Unseen ==
  ASSUME UNCHANGED <<db, events, answer>>
  PROVE  UNCHANGED Lifecycle!vars
BY DEF Lifecycle!vars, StageOf

(* An answer that promises nothing settles a pending request. *)
LEMMA SettleWithError ==
  ASSUME IInv, NEW r \in Requests, answer[r] = "pending", NEW a \in {"error", "lost"},
         UNCHANGED <<db, events>>, answer' = [answer EXCEPT ![r] = a]
  PROVE  Lifecycle!Settle(r, a)
<1>1. Stage' = Stage /\ Refusal' = Refusal
  BY DEF Stage, Refusal, StageOf
<1> QED
  BY <1>1 DEF Lifecycle!Settle, Lifecycle!Truthful, Stage, Refusal

(* A request that was found over the limit has stored nothing. *)
LEMMA SettleWithLimit ==
  ASSUME IInv, NEW r \in Requests, answer[r] = "pending", MayCreate(r),
         <<"flights", r>> \notin db,
         UNCHANGED <<db, events>>, answer' = [answer EXCEPT ![r] = "plan_limit"]
  PROVE  Lifecycle!Settle(r, "plan_limit")
<1>1. Stage' = Stage /\ Refusal' = Refusal
  BY DEF Stage, Refusal, StageOf
<1>2. Stage[r] = "absent"
  BY DEF IInv, TrailOrdered, Stage, StageOf
<1> QED
  BY <1>1, <1>2 DEF Lifecycle!Settle, Lifecycle!Truthful, Stage, Refusal

(* An exception, wherever it is thrown. *)
LEMMA ThrowSettles ==
  ASSUME IInv, NEW w \in Workers, pc[w] # "idle", Finish(w, ThrownAnswer(w)),
         UNCHANGED <<db, events>>
  PROVE  Lifecycle!Next
<1>1. job[w] \in Requests /\ answer[job[w]] = "pending"
  BY DEF IInv, TypeOK, OneThreadPerRequest
<1>2. CASE pc[w] \in {"limit_begin", "limit"}
  <2>1. MayCreate(job[w]) /\ <<"flights", job[w]>> \notin db
    BY <1>2 DEF IInv, StepMatchesRows, Allowed, Stored
  <2>2. Lifecycle!Settle(job[w], "plan_limit")
    BY <1>1, <1>2, <2>1, SettleWithLimit DEF Finish, ThrownAnswer
  <2> QED
    BY <1>1, <2>2 DEF Lifecycle!Next, Lifecycle!Replies
<1>3. CASE pc[w] \notin {"limit_begin", "limit"}
  <2>1. Lifecycle!Settle(job[w], "error")
    BY <1>1, <1>3, SettleWithError DEF Finish, ThrownAnswer
  <2> QED
    BY <1>1, <2>1 DEF Lifecycle!Next, Lifecycle!Replies
<1> QED
  BY <1>2, <1>3

(* What a commit, of a handler or of an orphan, makes of a flight. *)
LEMMA LandsSeen ==
  ASSUME IInv, NEW r \in Requests, NEW step \in Commits, Lands(r, step), UNCHANGED events,
         step = "flight_commit" => MayCreate(r),
         step = "create_commit" => <<"flights", r>> \in db
  PROVE  /\ \/ Stage' = Stage
            \/ \E s \in Lifecycle!Successors(r) \ {"announced"} :
                 Stage' = [Stage EXCEPT ![r] = s]
         /\ step = "denied_commit" => Stage' = Stage /\ Refusal' = Refusal \cup {r}
         /\ step # "denied_commit" => Refusal' = Refusal
<1>1. \A q \in Requests :
        /\ <<"flights", q>> \in db' <=>
             <<"flights", q>> \in db \/ (step = "flight_commit" /\ q = r)
        /\ <<"audit_create", q>> \in db' <=>
             <<"audit_create", q>> \in db \/ (step = "create_commit" /\ q = r)
        /\ <<"audit_denied", q>> \in db' <=>
             <<"audit_denied", q>> \in db \/ (step = "denied_commit" /\ q = r)
  BY DEF Lands
<1>2. step # "denied_commit" => Refusal' = Refusal
  BY <1>1 DEF Refusal
<1>3. CASE step = "denied_commit"
  BY <1>1, <1>3 DEF Refusal, Stage, StageOf
<1>4. CASE step = "flight_commit" /\ <<"flights", r>> \in db
  BY <1>1, <1>2, <1>4 DEF Stage, StageOf
<1>5. CASE step = "flight_commit" /\ <<"flights", r>> \notin db
  <2>1. Stage[r] = "absent" /\ r \in Permitted /\ r \notin events /\ <<"audit_create", r>> \notin db
    BY <1>5 DEF IInv, TrailOrdered, Stage, StageOf, Permitted
  <2>2. Stage' = [Stage EXCEPT ![r] = "recorded"]
    BY <1>1, <1>5, <2>1 DEF Stage, StageOf
  <2>3. "recorded" \in Lifecycle!Successors(r)
    BY <2>1 DEF Lifecycle!Successors, Stage, Permitted
  <2> QED
    BY <1>2, <1>5, <2>2, <2>3
<1>6. CASE step = "create_commit" /\ <<"audit_create", r>> \in db
  BY <1>1, <1>2, <1>6 DEF Stage, StageOf
<1>7. CASE step = "create_commit" /\ <<"audit_create", r>> \notin db
  <2>1. r \notin events /\ Stage[r] = "recorded"
    BY <1>7 DEF IInv, TrailOrdered, Stage, StageOf
  <2>2. Stage' = [Stage EXCEPT ![r] = "audited"]
    BY <1>1, <1>7, <2>1 DEF Stage, StageOf
  <2>3. "audited" \in Lifecycle!Successors(r)
    BY <2>1 DEF Lifecycle!Successors, Stage
  <2> QED
    BY <1>2, <1>7, <2>2, <2>3
<1> QED
  BY <1>3, <1>4, <1>5, <1>6, <1>7 DEF Commits

(* The commit at which a thread has arrived. *)
LEMMA CommitSeen ==
  ASSUME IInv, NEW w \in Workers, pc[w] \in Commits, Persist(w)
  PROVE  /\ job[w] \in Requests /\ answer[job[w]] = "pending"
         /\ pc[w] = "flight_commit" => MayCreate(job[w])
         /\ pc[w] = "create_commit" => <<"flights", job[w]>> \in db
         /\ pc[w] = "denied_commit" => job[w] \notin Permitted /\ Stage[job[w]] = "absent"
         /\ Lands(job[w], pc[w])
<1>1. job[w] \in Requests /\ answer[job[w]] = "pending"
  BY DEF IInv, TypeOK, OneThreadPerRequest, Commits
<1>2. /\ pc[w] = "flight_commit" => MayCreate(job[w])
      /\ pc[w] = "create_commit" => <<"flights", job[w]>> \in db
      /\ pc[w] = "denied_commit" => ~MayCreate(job[w]) /\ <<"flights", job[w]>> \notin db
  BY DEF IInv, StepMatchesRows, Allowed, Refused, PastCheck, Stored
<1>3. pc[w] = "denied_commit" => job[w] \notin Permitted /\ Stage[job[w]] = "absent"
  BY <1>1, <1>2 DEF IInv, TrailOrdered, Stage, StageOf, Permitted
<1>4. Lands(job[w], pc[w])
  BY PersistEffect DEF IInv, Lands
<1> QED
  BY <1>1, <1>2, <1>3, <1>4

(* One step of a handler or of its environment. *)
LEMMA StepRefines ==
  ASSUME IInv, [Next]_vars
  PROVE  [Lifecycle!Next]_(Lifecycle!vars)
<1> USE DEF IInv
<1>1. ASSUME NEW w \in Workers, NEW r \in Requests, Receive(w, r)
      PROVE  Lifecycle!Next
  <2>1. Stage' = Stage /\ Refusal' = Refusal
    BY <1>1 DEF Receive, Stage, StageOf, Refusal
  <2>2. Lifecycle!Accept(r) \/ Lifecycle!Reject(r)
    BY <1>1, <2>1 DEF Receive, Lifecycle!Accept, Lifecycle!Reject, Stage, Refusal
  <2> QED
    BY <2>2 DEF Lifecycle!Next
<1>2. ASSUME NEW w \in Workers, Begin(w) \/ CheckPermission(w) \/ Insert(w)
      PROVE  UNCHANGED Lifecycle!vars
  BY <1>2, Unseen DEF Begin, CheckPermission, Insert
<1>3. ASSUME NEW w \in Workers, BeginThrows(w) \/ StatementThrows(w)
      PROVE  Lifecycle!Next
  <2>1. pc[w] # "idle"
    BY <1>3, ControlTypes DEF BeginThrows, StatementThrows
  <2> QED
    BY <1>3, <2>1, ThrowSettles DEF BeginThrows, StatementThrows
<1>4. ASSUME NEW w \in Workers, CheckLimit(w)
      PROVE  [Lifecycle!Next]_(Lifecycle!vars)
  <2>1. /\ job[w] \in Requests /\ answer[job[w]] = "pending"
        /\ MayCreate(job[w]) /\ <<"flights", job[w]>> \notin db
    BY <1>4 DEF CheckLimit, Running, TypeOK, OneThreadPerRequest, StepMatchesRows, Allowed,
       Stored
  <2>2. CASE BelowLimit(TenantOf(job[w])) /\ Attr[job[w]].body
    BY <1>4, <2>2, Unseen DEF CheckLimit
  <2>3. CASE BelowLimit(TenantOf(job[w])) /\ ~Attr[job[w]].body
    <3>1. Lifecycle!Settle(job[w], "error")
      BY <1>4, <2>1, <2>3, SettleWithError DEF CheckLimit, Finish
    <3> QED
      BY <2>1, <3>1 DEF Lifecycle!Next, Lifecycle!Replies
  <2>4. CASE ~BelowLimit(TenantOf(job[w]))
    <3>1. Lifecycle!Settle(job[w], "plan_limit")
      BY <1>4, <2>1, <2>4, SettleWithLimit DEF CheckLimit, Finish
    <3> QED
      BY <2>1, <3>1 DEF Lifecycle!Next, Lifecycle!Replies
  <2> QED
    BY <2>2, <2>3, <2>4
<1>5. ASSUME NEW w \in Workers, Commit(w)
      PROVE  [Lifecycle!Next]_(Lifecycle!vars)
  <2> DEFINE r == job[w]
  <2>1. /\ pc[w] \in Commits /\ UNCHANGED events
        /\ r \in Requests /\ answer[r] = "pending" /\ Lands(r, pc[w])
        /\ pc[w] = "flight_commit" => MayCreate(r)
        /\ pc[w] = "create_commit" => <<"flights", r>> \in db
        /\ pc[w] = "denied_commit" => r \notin Permitted /\ Stage[r] = "absent"
    BY <1>5, CommitSeen DEF Commit
  <2>2. CASE pc[w] = "denied_commit"
    <3>1. answer' = [answer EXCEPT ![r] = "denied"]
      BY <1>5, <2>2 DEF Commit, Finish
    <3>2. Stage' = Stage /\ Refusal' = Refusal \cup {r}
      BY <2>1, <2>2, LandsSeen
    <3>3. Lifecycle!Settle(r, "denied")
      BY <2>1, <2>2, <3>1, <3>2
         DEF Lifecycle!Settle, Lifecycle!Truthful, Stage, Refusal, Permitted
    <3> QED
      BY <2>1, <3>3 DEF Lifecycle!Next, Lifecycle!Replies
  <2>3. CASE pc[w] # "denied_commit"
    <3>1. UNCHANGED answer
      BY <1>5, <2>3 DEF Commit
    <3>2. Refusal' = Refusal
      BY <2>1, <2>3, LandsSeen
    <3>3. CASE Stage' = Stage
      BY <3>1, <3>2, <3>3 DEF Lifecycle!vars, Stage, Refusal
    <3>4. CASE \E s \in Lifecycle!Successors(r) \ {"announced"} : Stage' = [Stage EXCEPT ![r] = s]
      <4>1. Lifecycle!Advance(r)
        BY <2>1, <3>1, <3>2, <3>4 DEF Lifecycle!Advance, Stage, Refusal
      <4> QED
        BY <2>1, <4>1 DEF Lifecycle!Next
    <3> QED
      BY <2>1, <3>3, <3>4, LandsSeen
  <2> QED
    BY <2>2, <2>3
<1>6. ASSUME NEW w \in Workers, CommitInDoubt(w)
      PROVE  Lifecycle!Next
  <2>1. job[w] \in Requests /\ answer[job[w]] = "pending"
    BY <1>6 DEF CommitInDoubt, Commits, TypeOK, OneThreadPerRequest
  <2>2. Lifecycle!Settle(job[w], "error")
    BY <1>6, <2>1, SettleWithError DEF CommitInDoubt, Finish
  <2> QED
    BY <2>1, <2>2 DEF Lifecycle!Next, Lifecycle!Replies
<1>7. ASSUME NEW w \in Workers, Publish(w)
      PROVE  [Lifecycle!Next]_(Lifecycle!vars)
  <2> DEFINE r == job[w]
  <2>1. /\ r \in Requests /\ answer[r] = "pending" /\ <<"audit_create", r>> \in db
    BY <1>7 DEF Publish, TypeOK, OneThreadPerRequest, StepMatchesRows
  <2>2. UNCHANGED <<db, answer>> /\ events' \in {events, events \cup {r}}
    BY <1>7 DEF Publish
  <2>3. CASE events' = events
    BY <2>2, <2>3, Unseen
  <2>4. CASE events' = events \cup {r} /\ r \notin events
    <3>1. Stage[r] = "audited" /\ Refusal' = Refusal
      BY <2>1, <2>2, <2>4 DEF Stage, StageOf, Refusal
    <3>2. Stage' = [Stage EXCEPT ![r] = "announced"]
      BY <2>1, <2>2, <2>4 DEF Stage, StageOf
    <3>3. Lifecycle!Advance(r)
      BY <2>1, <2>2, <3>1, <3>2
         DEF Lifecycle!Advance, Lifecycle!Successors, Stage, Refusal
    <3> QED
      BY <2>1, <3>3 DEF Lifecycle!Next
  <2> QED
    BY <2>2, <2>3, <2>4
<1>8. ASSUME NEW w \in Workers, Return(w)
      PROVE  Lifecycle!Next
  <2> DEFINE r == job[w]
  <2>1. /\ r \in Requests /\ answer[r] = "pending" /\ <<"audit_create", r>> \in db
    BY <1>8 DEF Return, TypeOK, OneThreadPerRequest, StepMatchesRows
  <2>2. UNCHANGED <<db, events>> /\ answer' = [answer EXCEPT ![r] = "ok"]
    BY <1>8 DEF Return, Finish
  <2>3. Stage' = Stage /\ Refusal' = Refusal /\ Stage[r] \in {"audited", "announced"}
    BY <2>1, <2>2 DEF Stage, StageOf, Refusal
  <2>4. Lifecycle!Settle(r, "ok")
    BY <2>1, <2>2, <2>3 DEF Lifecycle!Settle, Lifecycle!Truthful, Stage, Refusal
  <2> QED
    BY <2>1, <2>4 DEF Lifecycle!Next, Lifecycle!Replies
<1>9. ASSUME NEW T \in orphans, ServerCommits(T)
      PROVE  [Lifecycle!Next]_(Lifecycle!vars)
  <2>1. PICK r \in Requests, step \in Commits :
          /\ answer[r] \in {"error", "lost"}
          /\ step = "flight_commit" => MayCreate(r)
          /\ step = "create_commit" => <<"flights", r>> \in db
          /\ step = "denied_commit" => ~MayCreate(r)
          /\ Lands(r, step)
    BY <1>9, OrphanEffect
  <2>2. UNCHANGED <<answer, events>>
    BY <1>9 DEF ServerCommits
  <2>3. CASE step = "denied_commit"
    <3>1. Stage' = Stage /\ Refusal' = Refusal \cup {r}
      BY <2>1, <2>2, <2>3, LandsSeen
    <3>2. Lifecycle!Refuse(r)
      BY <2>1, <2>2, <2>3, <3>1 DEF Lifecycle!Refuse, Stage, Refusal
    <3> QED
      BY <3>2 DEF Lifecycle!Next
  <2>4. CASE step # "denied_commit" /\ Stage' = Stage
    <3>1. Refusal' = Refusal
      BY <2>1, <2>2, <2>4, LandsSeen
    <3> QED
      BY <2>2, <2>4, <3>1 DEF Lifecycle!vars, Stage, Refusal
  <2>5. CASE /\ step # "denied_commit"
             /\ \E s \in Lifecycle!Successors(r) \ {"announced"} :
                  Stage' = [Stage EXCEPT ![r] = s]
    <3>1. Refusal' = Refusal
      BY <2>1, <2>2, <2>5, LandsSeen
    <3>2. Lifecycle!Advance(r)
      BY <2>1, <2>2, <2>5, <3>1 DEF Lifecycle!Advance, Stage, Refusal
    <3> QED
      BY <3>2 DEF Lifecycle!Next
  <2> QED
    BY <2>1, <2>2, <2>3, <2>4, <2>5, LandsSeen
<1>10. ASSUME NEW p \in Processes, Restart(p)
       PROVE  Lifecycle!Next
  <2> DEFINE R == {r \in Requests : \E w \in Workers : Host[w] = p /\ job[w] = r}
  <2>1. Stage' = Stage /\ Refusal' = Refusal
    BY <1>10 DEF Restart, Stage, StageOf, Refusal
  <2>2. answer' = [r \in Requests |-> IF r \in R THEN "lost" ELSE answer[r]]
    BY <1>10 DEF Restart
  <2>3. \A r \in R : answer[r] = "pending"
    BY RequestAssumption DEF OneThreadPerRequest
  <2>4. Lifecycle!Lose(R) /\ R \in SUBSET {r \in Requests : answer[r] = "pending"}
    BY <2>1, <2>2, <2>3 DEF Lifecycle!Lose, Stage, Refusal
  <2> QED
    BY <2>4 DEF Lifecycle!Next
<1>11. CASE /\ Environment /\ ~(\E p \in Processes : Restart(p))
            /\ ~(\E T \in orphans : ServerCommits(T))
  BY <1>11, Unseen DEF Environment, ChangePlan, NewMonth, LoseLink
<1>12. CASE UNCHANGED vars
  BY <1>12, Unseen DEF vars
<1> QED
  BY <1>1, <1>2, <1>3, <1>4, <1>5, <1>6, <1>7, <1>8, <1>9, <1>10, <1>11, <1>12
     DEF Next, Work, Environment

LEMMA InitRefines == Init => Lifecycle!Init
BY DEF Init, Lifecycle!Init, StageOf

(* What a client of POST /flights may rely on holds for any number of      *)
(* threads, processes and requests: the flight is recorded, audited and    *)
(* announced in this order, and an answer says what has become of it.      *)
THEOREM LifecycleImplemented == Spec => ImplementsLifecycle
<1>1. IInv /\ [Next]_vars => [Lifecycle!Next]_(Lifecycle!vars)
  BY StepRefines
<1> QED
  BY <1>1, InitRefines, Inductive, PTL DEF Spec, ImplementsLifecycle, Lifecycle!Spec
=============================================================================
