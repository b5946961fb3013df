------------------------------ MODULE AddFlight ------------------------------
(***************************************************************************)
(* POST /flights (FlightController::addFlight).  Every process of the      *)
(* deployment runs a pool of event-loop threads that share one database    *)
(* connection; a handler runs on one thread from the request to its        *)
(* answer, and every database call it makes opens a transaction of its own *)
(* on that connection.  libpqxx refuses a second transaction on a          *)
(* connection that has one open, so a handler that meets another thread's  *)
(* transaction throws instead of waiting.                                  *)
(*                                                                         *)
(* A request's identity stands for the UUID of the flight it creates.      *)
(***************************************************************************)
EXTENDS Naturals, FiniteSets

CONSTANTS
  Workers,     \* event-loop threads of all processes
  Processes,   \* server processes (replicas), one connection each
  Host,        \* Host[w] is the process thread w belongs to
  Requests,    \* POST /flights requests
  Attr,        \* Attr[r]: what request r carries, see RequestAttr
  Tenants, Users, Roles,
  Plans,       \* subscription plans
  PlanLimit,   \* PlanLimit[p]: flights per month under plan p
  Grants,      \* pairs <<user, permission>> the permission tables join to
  Accepted,    \* statements the deployed schema accepts
  NoWorker, NoRequest, NoUser

(* The handler's SQL statements, named for what they do. *)
Statements == {"permission", "limit", "flight", "usage", "audit_create", "audit_denied"}

(* token: the JWT verifies; user: the X-User-Id header (NoUser when it is  *)
(* absent or no UUID); role: the token's role; body: the body is JSON.     *)
RequestAttr == [tenant : Tenants, token : BOOLEAN, user : Users \cup {NoUser},
                role : Roles, body : BOOLEAN]

ASSUME WorkersAssumption == Workers # {} /\ IsFiniteSet(Workers) /\ NoWorker \notin Workers
ASSUME HostAssumption    == Host \in [Workers -> Processes]
ASSUME RequestAssumption == Attr \in [Requests -> RequestAttr] /\ NoRequest \notin Requests
ASSUME PlanAssumption    == PlanLimit \in [Plans -> Nat]
ASSUME SchemaAssumption  == Accepted \subseteq Statements

VARIABLES
  pc,       \* what each thread does next
  job,      \* the request each thread is handling
  conn,     \* the thread whose transaction is open on a process' connection
  link,     \* whether a process' connection to the database is up
  staged,   \* rows a thread's open transaction has inserted
  db,       \* committed rows, pairs <<table, request>>
  orphans,  \* transactions whose COMMIT was on its way when its sender was lost
  month,    \* requests whose flight transaction began in the current month
  plan,     \* subscription plan of each tenant
  ceiling,  \* history: largest limit each tenant has had
  events,   \* requests whose FLIGHT_CREATED event reached Redis
  answer    \* answer of each request

vars == <<pc, job, conn, link, staged, db, orphans, month, plan, ceiling, events, answer>>

Tables == {"flights", "usage_metrics", "audit_create", "audit_denied"}
Rows   == Tables \X Requests

(* The step that follows each transaction's BEGIN. *)
AfterBegin ==
  [permission_begin |-> "permission", limit_begin  |-> "limit",
   flight_begin     |-> "flight",     create_begin |-> "audit_create",
   denied_begin     |-> "audit_denied"]

(* The step that follows each INSERT, and the table it fills. *)
AfterInsert ==
  [flight       |-> "usage",         usage        |-> "flight_commit",
   audit_create |-> "create_commit", audit_denied |-> "denied_commit"]
TableOf ==
  [flight       |-> "flights",       usage        |-> "usage_metrics",
   audit_create |-> "audit_create",  audit_denied |-> "audit_denied"]

Commits == {"flight_commit", "create_commit", "denied_commit"}
InTxn   == Statements \cup Commits
Steps   == {"idle", "publish", "reply"} \cup DOMAIN AfterBegin \cup InTxn

Answers == {"none", "pending", "ok", "denied", "plan_limit", "error", "lost"}
Final   == Answers \ {"none", "pending"}

TenantOf(r) == Attr[r].tenant

(* The tenant's usage rows of this month: a row is stamped with the time   *)
(* its transaction began.                                                  *)
Usage(t) == {r \in month : TenantOf(r) = t /\ <<"usage_metrics", r>> \in db}
UsageCount(t) == Cardinality(Usage(t))

(* RBACService's table and lookup; a role that is not in it has nothing. *)
RolePermissions ==
  [admin      |-> {"MANAGE_FLIGHTS", "MANAGE_USERS", "VIEW_REPORTS"},
   staff      |-> {"VIEW_FLIGHTS", "UPDATE_BAGGAGE"},
   gate_agent |-> {"MANAGE_FLIGHTS", "VIEW_FLIGHTS"}]
RbacAllows(role, permission) ==
  role \in DOMAIN RolePermissions /\ permission \in RolePermissions[role]

MayCreate(r) == /\ <<Attr[r].user, "CREATE_FLIGHT">> \in Grants
                /\ RbacAllows(Attr[r].role, "MANAGE_FLIGHTS")

Init ==
  /\ pc = [w \in Workers |-> "idle"]
  /\ job = [w \in Workers |-> NoRequest]
  /\ conn = [p \in Processes |-> NoWorker]
  /\ link = [p \in Processes |-> TRUE]
  /\ staged = [w \in Workers |-> {}]
  /\ db = {} /\ orphans = {} /\ month = {} /\ events = {}
  /\ plan \in [Tenants -> Plans]
  /\ ceiling = [t \in Tenants |-> PlanLimit[plan[t]]]
  /\ answer = [r \in Requests |-> "none"]

-----------------------------------------------------------------------------
(* Helpers on a thread's control state. *)

GoTo(w, step) == pc' = [pc EXCEPT ![w] = step]
Release(w)    == conn' = [p \in Processes |-> IF conn[p] = w THEN NoWorker ELSE conn[p]]

(* Mutant of Finish: the transaction object outlives its handler. *)
FinishLeaksTransaction(w, a) ==
  /\ answer' = [answer EXCEPT ![job[w]] = a]
  /\ job' = [job EXCEPT ![w] = NoRequest]
  /\ staged' = [staged EXCEPT ![w] = {}]
  /\ UNCHANGED conn
  /\ GoTo(w, "idle")

(* Mutant of Finish: the handler answers and runs on. *)
FinishWithoutReturn(w, a) ==
  /\ answer' = [answer EXCEPT ![job[w]] = a]
  /\ staged' = [staged EXCEPT ![w] = {}]
  /\ Release(w)
  /\ GoTo(w, "idle")
  /\ UNCHANGED job

(* The callback answers, the stack unwinds: an open transaction is rolled  *)
(* back and its connection freed, and the thread returns to its loop.      *)
Finish(w, a) ==
  /\ answer' = [answer EXCEPT ![job[w]] = a]
  /\ job' = [job EXCEPT ![w] = NoRequest]
  /\ staged' = [staged EXCEPT ![w] = {}]
  /\ Release(w)
  /\ GoTo(w, "idle")

(* What an exception at the thread's current step is answered with: the    *)
(* plan check has a catch of its own, everything else falls to the outer.  *)
ThrownAnswer(w) == IF pc[w] \in {"limit_begin", "limit"} THEN "plan_limit" ELSE "error"

Running(w, stmt) == pc[w] = stmt /\ stmt \in Accepted /\ link[Host[w]]

-----------------------------------------------------------------------------
(* The handler, one action per call. *)

Receive(w, r) ==
  /\ pc[w] = "idle" /\ answer[r] = "none"
  /\ IF Attr[r].token
     THEN /\ GoTo(w, "permission_begin")
          /\ job' = [job EXCEPT ![w] = r]
          /\ answer' = [answer EXCEPT ![r] = "pending"]
     ELSE /\ answer' = [answer EXCEPT ![r] = "error"]
          /\ UNCHANGED <<pc, job>>
  /\ UNCHANGED <<conn, link, staged, db, orphans, month, plan, ceiling, events>>

Begin(w) ==
  /\ pc[w] \in DOMAIN AfterBegin
  /\ conn[Host[w]] = NoWorker /\ link[Host[w]]
  /\ conn' = [conn EXCEPT ![Host[w]] = w]
  /\ month' = IF pc[w] = "flight_begin" THEN month \cup {job[w]} ELSE month
  /\ GoTo(w, AfterBegin[pc[w]])
  /\ UNCHANGED <<job, link, staged, db, orphans, plan, ceiling, events, answer>>

(* The connection is taken by another thread's transaction, or is lost. *)
BeginThrows(w) ==
  /\ pc[w] \in DOMAIN AfterBegin
  /\ conn[Host[w]] # NoWorker \/ ~link[Host[w]]
  /\ Finish(w, ThrownAnswer(w))
  /\ UNCHANGED <<link, db, orphans, month, plan, ceiling, events>>

CheckPermission(w) ==
  /\ Running(w, "permission") /\ Attr[job[w]].user # NoUser
  /\ GoTo(w, IF MayCreate(job[w]) THEN "limit_begin" ELSE "denied_begin")
  /\ Release(w)
  /\ UNCHANGED <<job, link, staged, db, orphans, month, plan, ceiling, events, answer>>

(* Mutant of BelowLimit: the last flight of the plan is given away twice. *)
BelowLimitOffByOne(t) == UsageCount(t) <= PlanLimit[plan[t]]

BelowLimit(t) == UsageCount(t) < PlanLimit[plan[t]]

(* validateFlightLimit, and the test for a body that follows it. *)
CheckLimit(w) ==
  /\ Running(w, "limit")
  /\ IF BelowLimit(TenantOf(job[w])) /\ Attr[job[w]].body
     THEN GoTo(w, "flight_begin") /\ Release(w) /\ UNCHANGED <<job, staged, answer>>
     ELSE Finish(w, IF BelowLimit(TenantOf(job[w])) THEN "error" ELSE "plan_limit")
  /\ UNCHANGED <<link, db, orphans, month, plan, ceiling, events>>

(* Mutant of Insert: the statements run outside a transaction. *)
InsertAutocommits(w) ==
  /\ pc[w] \in DOMAIN AfterInsert /\ Running(w, pc[w])
  /\ db' = db \cup {<<TableOf[pc[w]], job[w]>>}
  /\ GoTo(w, AfterInsert[pc[w]])
  /\ UNCHANGED <<job, conn, link, staged, orphans, month, plan, ceiling, events, answer>>

Insert(w) ==
  /\ pc[w] \in DOMAIN AfterInsert /\ Running(w, pc[w])
  /\ staged' = [staged EXCEPT ![w] = @ \cup {<<TableOf[pc[w]], job[w]>>}]
  /\ GoTo(w, AfterInsert[pc[w]])
  /\ UNCHANGED <<job, conn, link, db, orphans, month, plan, ceiling, events, answer>>

(* Mutant of StatementThrows: the failure is swallowed, the handler waits. *)
StatementThrowsNothing(w) ==
  /\ pc[w] \in InTxn /\ link[Host[w]]
  /\ Finish(w, ThrownAnswer(w))
  /\ UNCHANGED <<link, db, orphans, month, plan, ceiling, events>>

(* Mutant of StatementThrows: a failed audit insert is only logged. *)
StatementThrowsAuditIgnored(w) ==
  /\ pc[w] \in InTxn
  /\ IF pc[w] = "audit_create"
     THEN GoTo(w, "publish") /\ Release(w) /\ UNCHANGED <<job, staged, answer>>
     ELSE Finish(w, ThrownAnswer(w))
  /\ UNCHANGED <<link, db, orphans, month, plan, ceiling, events>>

(* A permission or audit statement the server refuses, a lost connection:  *)
(* any statement, COMMIT included, may throw.                              *)
StatementThrows(w) ==
  /\ pc[w] \in InTxn
  /\ Finish(w, ThrownAnswer(w))
  /\ UNCHANGED <<link, db, orphans, month, plan, ceiling, events>>

Persist(w) == db' = db \cup staged[w]

(* Mutant of Commit: the event goes out as soon as the flight is stored,   *)
(* before its audit record.                                                *)
CommitPublishesFirst(w) ==
  /\ pc[w] \in Commits /\ link[Host[w]]
  /\ Persist(w)
  /\ IF pc[w] = "denied_commit"
     THEN Finish(w, "denied")
     ELSE /\ GoTo(w, "publish")
          /\ staged' = [staged EXCEPT ![w] = {}]
          /\ Release(w)
          /\ UNCHANGED <<job, answer>>
  /\ UNCHANGED <<link, orphans, month, plan, ceiling, events>>

Commit(w) ==
  /\ pc[w] \in Commits /\ link[Host[w]]
  /\ Persist(w)
  /\ IF pc[w] = "denied_commit"
     THEN Finish(w, "denied")
     ELSE /\ GoTo(w, IF pc[w] = "flight_commit" THEN "create_begin" ELSE "publish")
          /\ staged' = [staged EXCEPT ![w] = {}]
          /\ Release(w)
          /\ UNCHANGED <<job, answer>>
  /\ UNCHANGED <<link, orphans, month, plan, ceiling, events>>

(* COMMIT is sent and the connection dies before its answer arrives: the   *)
(* handler is told of an error, and what the server makes of the COMMIT    *)
(* shows later.                                                            *)
CommitInDoubt(w) ==
  /\ pc[w] \in Commits /\ link[Host[w]]
  /\ orphans' = orphans \cup {staged[w]}
  /\ link' = [link EXCEPT ![Host[w]] = FALSE]
  /\ Finish(w, "error")
  /\ UNCHANGED <<db, month, plan, ceiling, events>>

(* PUBLISH is sent, or is lost, which nothing reports; the thread goes on  *)
(* to wait for Redis' reply.                                               *)
Publish(w) ==
  /\ pc[w] = "publish"
  /\ events' \in {events, events \cup {job[w]}}
  /\ GoTo(w, "reply")
  /\ UNCHANGED <<job, conn, link, staged, db, orphans, month, plan, ceiling, answer>>

(* redisCommand returns, with a reply or with an error.  The threads of a  *)
(* process share one hiredis context without a lock and set no timeout: a  *)
(* thread whose reply another one has taken may wait here for ever         *)
(* (module RedisContext), so no fairness is assumed of this step.          *)
Return(w) ==
  /\ pc[w] = "reply"
  /\ Finish(w, "ok")
  /\ UNCHANGED <<link, db, orphans, month, plan, ceiling, events>>

-----------------------------------------------------------------------------
(* The environment. *)

(* POST /api/billing/upgrade writes tenants.subscription_plan. *)
ChangePlan(t, p) ==
  /\ plan' = [plan EXCEPT ![t] = p]
  /\ ceiling' = [ceiling EXCEPT ![t] = IF PlanLimit[p] > @ THEN PlanLimit[p] ELSE @]
  /\ UNCHANGED <<pc, job, conn, link, staged, db, orphans, month, events, answer>>

(* date_trunc('month', CURRENT_DATE) moves on. *)
NewMonth ==
  /\ month' = {}
  /\ UNCHANGED <<pc, job, conn, link, staged, db, orphans, plan, ceiling, events, answer>>

LoseLink(p) ==
  /\ link' = [link EXCEPT ![p] = FALSE]
  /\ UNCHANGED <<pc, job, conn, staged, db, orphans, month, plan, ceiling, events, answer>>

(* PostgreSQL performs a COMMIT whose sender is gone; an orphan it never   *)
(* performs is one that was lost on the way or rolled back.                *)
ServerCommits(T) ==
  /\ T \in orphans
  /\ db' = db \cup T
  /\ UNCHANGED <<pc, job, conn, link, staged, orphans, month, plan, ceiling, events, answer>>

(* The process dies with what its threads were doing and is started again; *)
(* its connection, a static, is opened anew.  A COMMIT it had sent reaches *)
(* the server or not.                                                      *)
Restart(p) ==
  LET mine == {w \in Workers : Host[w] = p} IN
  /\ \E sent \in SUBSET {w \in mine : pc[w] \in Commits /\ link[p]} :
       orphans' = orphans \cup {staged[w] : w \in sent}
  /\ pc' = [w \in Workers |-> IF w \in mine THEN "idle" ELSE pc[w]]
  /\ job' = [w \in Workers |-> IF w \in mine THEN NoRequest ELSE job[w]]
  /\ staged' = [w \in Workers |-> IF w \in mine THEN {} ELSE staged[w]]
  /\ answer' = [r \in Requests |-> IF \E w \in mine : job[w] = r THEN "lost" ELSE answer[r]]
  /\ conn' = [conn EXCEPT ![p] = NoWorker]
  /\ link' = [link EXCEPT ![p] = TRUE]
  /\ UNCHANGED <<db, month, plan, ceiling, events>>

-----------------------------------------------------------------------------
Work(w) ==
  \/ Begin(w) \/ BeginThrows(w)
  \/ CheckPermission(w) \/ CheckLimit(w)
  \/ Insert(w) \/ StatementThrows(w)
  \/ Commit(w) \/ CommitInDoubt(w)
  \/ Publish(w)

Environment ==
  \/ \E t \in Tenants, p \in Plans : ChangePlan(t, p)
  \/ NewMonth
  \/ \E p \in Processes : LoseLink(p) \/ Restart(p)
  \/ \E T \in orphans : ServerCommits(T)

Next ==
  \/ \E w \in Workers, r \in Requests : Receive(w, r)
  \/ \E w \in Workers : Work(w) \/ Return(w)
  \/ Environment

Spec == Init /\ [][Next]_vars

(* A thread that has a request keeps executing it: every call to the       *)
(* database returns or throws, and none waits for another thread.  Return  *)
(* is left out: the reply of Redis may never come.                         *)
FairSpec == Spec /\ \A w \in Workers : WF_vars(Work(w))

-----------------------------------------------------------------------------
(* Properties. *)

(* Type invariant; a thread has a request exactly while it is handling one. *)
TypeOK ==
  /\ pc \in [Workers -> Steps]
  /\ job \in [Workers -> Requests \cup {NoRequest}]
  /\ conn \in [Processes -> Workers \cup {NoWorker}]
  /\ link \in [Processes -> BOOLEAN]
  /\ staged \in [Workers -> SUBSET Rows]
  /\ db \subseteq Rows
  /\ orphans \subseteq SUBSET Rows
  /\ month \subseteq Requests
  /\ plan \in [Tenants -> Plans]
  /\ ceiling \in [Tenants -> Nat]
  /\ events \subseteq Requests
  /\ answer \in [Requests -> Answers]
  /\ \A w \in Workers : pc[w] = "idle" <=> job[w] = NoRequest

(* A connection is taken exactly by the thread that is inside a            *)
(* transaction: no path through the handler, its exceptions, a lost        *)
(* connection or a restart leaves a transaction behind that would make     *)
(* every later request of the process fail (DatabaseManager::getConnection *)
(* hands the same connection to everyone).                                 *)
ConnectionMatchesWork ==
  /\ \A w \in Workers : pc[w] \in InTxn => conn[Host[w]] = w
  /\ \A p \in Processes : conn[p] # NoWorker =>
       Host[conn[p]] = p /\ pc[conn[p]] \in InTxn

(* "Atomic commit!": a flight is stored with the usage row it is billed    *)
(* by, never one of them alone, whatever fails between the statements.     *)
LedgerComplete ==
  \A r \in Requests : <<"flights", r>> \in db <=> <<"usage_metrics", r>> \in db

(* The audit trail and the events never run ahead of the flight, and an    *)
(* answer that is not an error tells what the database holds.              *)
TrailOrdered ==
  \A r \in Requests :
    /\ <<"audit_create", r>> \in db => <<"flights", r>> \in db
    /\ r \in events => <<"audit_create", r>> \in db
    /\ <<"flights", r>> \in db => MayCreate(r)
    /\ <<"audit_denied", r>> \in db => ~MayCreate(r)
    /\ answer[r] = "ok" => <<"audit_create", r>> \in db
    /\ answer[r] = "denied" => <<"audit_denied", r>> \in db
    /\ answer[r] = "plan_limit" => <<"flights", r>> \notin db

(* Threads that have passed the plan check for a flight of tenant t and    *)
(* have not stored it yet.                                                 *)
PastCheck == {"flight_begin", "flight", "usage", "flight_commit"}
InFlight(t) == {w \in Workers : pc[w] \in PastCheck /\ TenantOf(job[w]) = t}

(* Usage that no orphan stores: of a flight whose COMMIT was answered.     *)
Orphaned(r) == \E T \in orphans : <<"usage_metrics", r>> \in T
Counted(t)  == {r \in Usage(t) : ~Orphaned(r)}

(* The plan check and the insert it guards are two transactions, so the    *)
(* limit can be overshot, but only by flights that were already past the   *)
(* check: by less than the number of threads, however many requests are    *)
(* sent (ceiling: a plan may have been downgraded meanwhile).  Only a      *)
(* COMMIT whose sender was lost adds to that, each at most one flight.     *)
OvershootBounded ==
  \A t \in Tenants :
    Cardinality(Counted(t)) + Cardinality(InFlight(t)) < ceiling[t] + Cardinality(Workers)

(* A client is told PLAN_LIMIT_REACHED because the limit is reached.  The  *)
(* handler does not keep it: the answer is the same for every exception.   *)
PlanLimitIsReached ==
  [][\A r \in Requests :
       (answer[r] = "pending" /\ answer'[r] = "plan_limit") => ~BelowLimit(TenantOf(r))]_vars

(* A request that was received is answered, or lost with its process,      *)
(* unless its thread hangs in PUBLISH: then its flight is stored and       *)
(* audited, and it holds no transaction that others would meet.            *)
Hanging(r) ==
  \E w \in Workers : /\ job[w] = r /\ pc[w] = "reply"
                      /\ <<"audit_create", r>> \in db
                      /\ staged[w] = {} /\ conn[Host[w]] # w
EveryRequestAnswered ==
  \A r \in Requests : answer[r] = "pending" ~> answer[r] \in Final \/ Hanging(r)

(* The promise to the client: the handlers of all threads together, with   *)
(* their shared connections, lost links and restarts, are FlightLifecycle. *)
StageOf(r) ==
  IF r \in events                     THEN "announced"
  ELSE IF <<"audit_create", r>> \in db THEN "audited"
  ELSE IF <<"flights", r>> \in db      THEN "recorded"
  ELSE "absent"

Lifecycle == INSTANCE FlightLifecycle WITH
  Permitted <- {r \in Requests : MayCreate(r)},
  stage     <- [r \in Requests |-> StageOf(r)],
  refusal   <- {r \in Requests : <<"audit_denied", r>> \in db},
  reply     <- answer

ImplementsLifecycle == Lifecycle!Spec

-----------------------------------------------------------------------------
(* What the handlers' control state says about the data: the facts that    *)
(* make the invariants above inductive.                                    *)

StagedBy(w) ==
  CASE pc[w] = "usage"         -> {<<"flights", job[w]>>}
    [] pc[w] = "flight_commit" -> {<<"flights", job[w]>>, <<"usage_metrics", job[w]>>}
    [] pc[w] = "create_commit" -> {<<"audit_create", job[w]>>}
    [] pc[w] = "denied_commit" -> {<<"audit_denied", job[w]>>}
    [] OTHER                   -> {}
StagedMatchesStep == \A w \in Workers : staged[w] = StagedBy(w)

(* No two threads handle one request, and it is not answered yet. *)
OneThreadPerRequest ==
  /\ \A v, w \in Workers : job[v] = job[w] /\ job[v] # NoRequest => v = w
  /\ \A w \in Workers : job[w] # NoRequest => answer[job[w]] = "pending"

Refused == {"denied_begin", "audit_denied", "denied_commit"}
Stored  == {"create_begin", "audit_create", "create_commit", "publish", "reply"}
Allowed == {"limit_begin", "limit"} \cup PastCheck \cup Stored

StepMatchesRows ==
  /\ \A r \in Requests : answer[r] = "none" => <<"flights", r>> \notin db
  /\ \A w \in Workers :
       /\ pc[w] \in Allowed => MayCreate(job[w])
       /\ pc[w] \in Refused => ~MayCreate(job[w])
       /\ pc[w] # "idle" => (<<"flights", job[w]>> \in db <=> pc[w] \in Stored)
       /\ pc[w] \in {"publish", "reply"} => <<"audit_create", job[w]>> \in db

(* An orphan is a whole transaction of a request that was answered with an *)
(* error or lost: its rows may still come, in the trail's order.           *)
OrphansWhole ==
  \A T \in orphans : \E r \in Requests :
    /\ answer[r] \in {"error", "lost"}
    /\ \/ T = {<<"flights", r>>, <<"usage_metrics", r>>} /\ MayCreate(r)
       \/ T = {<<"audit_create", r>>} /\ <<"flights", r>> \in db
       \/ T = {<<"audit_denied", r>>} /\ ~MayCreate(r)

PlanWithinCeiling ==
  \A t \in Tenants : /\ PlanLimit[plan[t]] <= ceiling[t]
                     /\ InFlight(t) # {} => ceiling[t] >= 1

IInv ==
  /\ TypeOK /\ ConnectionMatchesWork /\ LedgerComplete /\ TrailOrdered
  /\ OvershootBounded
  /\ StagedMatchesStep /\ OneThreadPerRequest /\ StepMatchesRows /\ PlanWithinCeiling
  /\ OrphansWhole /\ IsFiniteSet(month)

(* What EveryRequestAnswered says of a state: a request that was received   *)
(* and not answered is in the hands of one thread, and that thread has a    *)
(* step to take whatever the others do, or it waits for Redis and nothing   *)
(* else: its flight is stored and audited and no other thread meets a       *)
(* transaction of its.  At the first statement of a transaction a thread    *)
(* has the connection, or BEGIN throws; inside one the connection is its    *)
(* own.                                                                     *)
CanStep(w) ==
  \/ pc[w] \in DOMAIN AfterBegin \cup {"publish"}
  \/ pc[w] \in InTxn /\ conn[Host[w]] = w
OnlyRedisIsAwaited ==
  \A r \in Requests :
    answer[r] = "pending" => Hanging(r) \/ \E w \in Workers : job[w] = r /\ CanStep(w)
=============================================================================
