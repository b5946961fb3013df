# AeroBaseIndia in TLA+

AeroBaseIndia is a multi-tenant airport backend in C++ (drogon, libpqxx,
hiredis): every tenant is an airport that creates flights within its plan,
updates their status and gate, books tickets and checks in bags, and whose
screens follow along over WebSockets.  Kubernetes runs three replicas of it
against one PostgreSQL and one Redis.  This directory models what is hard to
test about that: handlers of several threads and processes that share a
connection, a database and a cache, and fail between two steps.

Paths below are relative to the repository.

## The code as it stands

The sources do not build as they are committed: `AuditRepository` uses
`log.staffId` where the model has `userId`; `FlightService` calls `publish` and
`broadcast` with the message alone; `EventPublisher` and `ServiceInitializer`
call `publish` and `psubscribe` on what `RedisManager` declares as a plain
`redisContext*`, and `getSubscriberConnection` is missing;
`BillingController` calls `generateInvoice`, `getInvoicesByTenant`,
`getSubscriptionInfo` and `updatePlan`, which are not there; some include
paths are wrong.  `ServiceInitializer::init` is called by nobody and so is
`FlightService`.  The models follow the calls as they are written and give the
missing pieces the meaning their callers rely on: the tenant id in scope is the
missing argument, `updatePlan` writes `tenants.subscription_plan`, the
subscriber has a connection of its own and throws when it is lost.  FlightStatus,
EventStream and the checked insert of FlightSchedule therefore describe code that
becomes live once somebody calls it.

The migrations contradict the queries too.  `audit_logs` (008 or 017) has no
column list that fits the INSERT of `AuditRepository::save`, and its
`entity_id UUID` cannot hold `"N/A"`; `usage_metrics` has `recorded_at` where
`SubscriptionValidator` reads `created_at`.  AddFlight has the constant
`Accepted`, the statements the deployed schema accepts: most runs give it all
of them (a schema repaired by hand), the run `reached` those the
migrations accept.

## Inventory

| Component | State | Operations | Meets | Hard parts |
|---|---|---|---|---|
| Flight creation (`FlightController::addFlight` and the services it calls) | rows of flights, usage_metrics, audit_logs | POST /flights, GET /flights | database session, event delivery | limit check and insert apart; audit in a transaction of its own; catch-alls |
| Database session (`DatabaseManager`) | one static connection per process | getConnection | every handler | all threads share it; one transaction at a time; never renewed |
| Flight status (`FlightService`, `FlightCacheService`, `FlightRepository`) | row, audit record, Redis hash, screens | updateStatusAndNotify, GET /flights/{id}/live, buildFlight, createFlight | database, Redis, sockets | four stores written one after the other by concurrent callers; a gate checked and taken in two transactions |
| Event delivery (`EventPublisher`, `ServiceInitializer`, `FlightSocketController`) | Redis channel, one Redis context, subscriber thread, set of clients | publish, psubscribe callback, connect, close | flight creation and status | unsynchronised set and context; a subscriber that ends for good |
| Bootstrap and health (`main`, `registerAirport`, `HealthController`) | first airport and admin | start, GET /health | database session, Kubernetes | replicas race; commits in doubt; restarts |
| Authentication | none (users are read) | login, token | all handlers | none: read and pure functions |
| Tickets and passengers (`BookingController`, `TicketRepository`) | tickets, passengers | POST /tickets | database session | repetitions against UNIQUE(flight, seat), across processes and orphaned transactions; no catch |
| Baggage (`BaggageController`, `BaggageRepository`) | baggage | POST /baggage, PUT /baggage/status | tickets | tags unique over all tenants; late COMMITs; updates of no row |
| Gates | gates | GET /gates | flights | availability is never written |
| Billing | subscription of a tenant, invoices | POST /api/billing/upgrade, invoices | flight creation | plan changes between check and insert |
| Live event sockets, observability, staff | a set, counters | trivial | none | none |
| Schema, deployment | | | | drift between migrations and queries; restarts |

What makes each correct: a flight is billed exactly when it is stored, is
announced only after it is audited, and the plan is kept as closely as the
design allows; a connection is always given back; travellers see only what
is stored, and see the last of it; events stay in their tenant, in order;
a reply of Redis is used by the command it belongs to; two flights do not stand at
one gate;
the first airport exists once and completely; a seat is sold once and a bag's
last reported status is the one stored.

## Modules

`FlightLifecycle` is the promise POST /flights makes to a client: a flight is
recorded, then audited, then announced; the reply closes the request and says
what has become of it ("denied" and "plan_limit": nothing was stored; "ok":
stored and audited; "error" and "lost": no promise, a COMMIT on its way may still
move the flight on, but no event goes out any more).

`AddFlight` is the handler.  A thread's `pc` names its next call, `conn[p]`
the thread whose transaction is open on process `p`'s connection, `staged` the
rows of open transactions, `db` what is committed.  Every transaction is three
kinds of step: BEGIN (which throws when another thread's transaction is
open on the connection), the statements, COMMIT.  A COMMIT whose sender loses
the connection or dies leaves its rows in `orphans`, out of which the server may
perform it at any later time (`ServerCommits`), when the client has long been told
of an error.  `Publish` sends the event, `Return` is `redisCommand` coming back,
which it may never do.  `Finish` is the callback with the unwinding of the stack: the
`pqxx::work` on it is rolled back.  The request's identity stands for the
flight's UUID.  The environment changes plans, turns the month, cuts
connections and restarts processes.

`FlightStatus` is `updateStatusAndNotify`, one action per call; its
repository calls open and close a transaction with one statement and are one
step each, which may throw before or after it has taken effect.  `rows[f]` is
the history of committed updates of a flight, so a state can be compared with
earlier ones.  `overlap` and `disturbed` are history variables: which updates
of a flight ran at once, and whose cache write was cut off.

`FlightSchedule` is the flights table under all its writers, the two transactions
of `buildFlight` and `createFlight` (taken one after the other, as a caller
would), the INSERT of `addFlight`, the UPDATE of `updateStatus`, and GET /flights,
by threads that share connections.  `gate[r]` is the gate of the flight that
request `r` made; `orphans` are the requests whose COMMIT was on its way when its
sender was lost, which the server performs later or rolls back (`ServerEnds`).  An
orphaned UPDATE keeps the lock on its row until then (`Executes`).
`seen`, `moved` and `known` are history variables: what a
passed check could see, which flights were moved, what had been confirmed when a list
was asked for.

`RedisContext` is one hiredis context under several threads: `obuf` its output
buffer, `wire` and `socket` the connection in both directions, `reader` the
replies taken in.  `redisCommand` is append, look for a reply, write the buffer
out, read, look again; no step knows whose reply it is.  `skewed` says that a race on the
output buffer, or an error, has changed the number of replies to come.
FlightStatus' `UpdateCache` and `PublishGateChange`, AddFlight's `Publish`, and
`getFlightStatus` are such commands.

`EventFeed` is what delivery promises: one order of events, out of which every
client is sent some of its tenant's, in that order and none twice.

`EventStream` takes an event from PUBLISH to the clients.  `inbox[p]` is the
subscriber's TCP stream, `current` and `todo` the loop of `broadcast`,
`clients[p]` the unsynchronised `std::set`.  A data race on the set is
undefined; short of a crash (`Restart`) the model lets an overlapping insertion
get lost and an overlapping loop end early.  `raced` records which clients were
in the set then.

`Bootstrap` is `main` up to the point where it serves.  `inserted` and
`insertedAdmins` are rows of open transactions, `sent` the COMMITs on their way;
a duplicate INSERT waits in PostgreSQL's unique index until the other
transaction ends.  A COMMIT that was sent may still be performed after its
sender has died.

`Booking` is the two handlers that insert, a ticket or a bag, and the one that
updates a bag, by threads of several processes on one database.  `staged` are
the rows of open transactions, `sent` those whose COMMIT is on its way,
`stored` the committed ones.  A statement waits while a transaction on the same
key or row is open (`InTheWay`), and one whose sender has died stays open until
the server commits (if it was told to) or aborts it; only then does `Violation`
or `Execute` follow.  An UPDATE that finds no row is executed, committed and
confirmed without staging anything.  bookTicket alone does not ask whether
there is a body, and takes the process down without one (`Crash`).  What
drogon does with an exception no handler catches (bookTicket, a token that
does not verify) is an error reply.  `earlier` is a history variable for
LatestReportShown and ReportTakesEffect.

`Inventory` is what those handlers promise together, without threads, connections
or transactions: a request takes effect at one moment after it came, once or never.
A seat or tag is given only while it is free, a bag only for a ticket that is sold;
an update changes what is shown of a bag that is there, or finds none
(`missed`).  A request confirmed has taken effect.  One that failed, or was lost,
may be in doubt (`doubtful`): it may take effect later, and until it does, or cannot
any more (`Forget`), nothing else happens to its seat or bag.  Under the mapping
from Booking, a request is in doubt while its row is staged and its thread has gone on.

`FirstAirport` is what `main` promises: one registration, tenant and admin at one
moment, before any process serves.

Each has an `MC` module with its small instances and one `.cfg` per run.
The theorems about a module `M` are in `M_proofs`; that AddFlight implements
FlightLifecycle is in `AddFlight_refinement`, that EventStream implements EventFeed
in `EventStream_proofs`, that Booking implements Inventory in `Booking_proofs`, that
Bootstrap implements FirstAirport in `Bootstrap_proofs`.

How they meet: AddFlight's `Publish` and FlightStatus' `PublishGateChange` put
an event where EventStream's `Publish` takes it; Bootstrap's `Committed` and
`SkipExisting` lead to the state a process of AddFlight or Booking starts in;
FlightSchedule takes from AddFlight and FlightStatus the transactions that write
a flight.  The modules
are not composed in one state space: they share only that interface.

## Runs

Passing runs:

| Run | Shows | Bounds |
|---|---|---|
| `handler` | TypeOK, ConnectionMatchesWork, LedgerComplete, TrailOrdered, EveryRequestAnswered, and that AddFlight implements FlightLifecycle | two threads of one process, one request of each kind (granted, no body, no grant, no role and no user, no token): two threads are what a race for one connection takes |
| `plan` | OvershootBounded, with plans changing between check and insert and COMMITs that outlive their sender | three threads on two processes, so that some share a connection and some do not; four requests: one is stored while the three threads are past the check for the last flight, which is what the bound of a plan with one flight is about; a plan without flights and one with a single one; requests up to symmetry, and states up to what the run never reads again (`WhatPlanReads`) |
| `updates` | TypeOK, ShownIsAudited, BeforeIsEarlier, StaleOnlyByOverlap, AnnouncedGateMoved, AnnouncedIsLive | three updates of one flight on two processes, two to one gate and one back (three are needed for an update between two others), and one by a tenant that does not own the flight |
| `schedule` | TypeOK, ConflictExplained, ListIsCurrent | two threads of one process and one of another; two flights for one gate, one within the other's time, a flight that is added without a check and moved to their gate: one pair for every way to share a gate; a list of this tenant, which has all three flights and so can be incomplete, and a flight of another tenant; any COMMIT may outlive its sender; states up to what the run never reads again (`WhatScheduleReads`) |
| `commands` | TypeOK, AnswerIsStatus, RepliesBalance, AnsweredAlone, HangExplained | an update and a query of one flight and an event: every kind of reply, and two commands that overlap before a third |
| `clients` | TypeOK, TenantIsolation, NoGap, InOrderOnce, EventReachesClients, and that EventStream implements EventFeed | one process (processes share only the channel and each has a copy of it), two events, clients of their tenant, of another and of none |
| `booking` | SoldOnce, ConfirmedIsStored, NoCircularWait, EveryRequestEnds | two threads of one process and one of another, two tickets for one seat, one request without a body, a bag for the first ticket |
| `reports` | TypeOK, LatestReportShown, ReportTakesEffect, and that Booking implements Inventory | a thread in each of two processes, a ticket, its bag, two reports, a request that fails before the database; processes and reports up to symmetry, since both are alike and no property of the run is about liveness |
| `start` | TypeOK, AirportComplete, ServingHasAirport, EveryProcessServes, and that Bootstrap implements FirstAirport | three processes, two faults, five ids |

Deadlock is checked everywhere except in `start`, where nothing is left to do
once every process serves and the faults are used up (`MaxFaults` is the only
bound on behaviour in any module; the others are the sizes of sets).

Runs that TLC finds violated, each a comment or heading in the code that the
code does not keep:

| Run | Property | What happens |
|---|---|---|
| `reached` | PlanLimitIsReached | PLAN_LIMIT_REACHED is the answer to every exception of the check |
| `cache` | CacheFollowsRow | "Update the Fast Cache": two updates write row and cache in opposite orders |
| `health` | HealthTellsDatabase | "If DB is down, return 503": /health answers 200 while the database is down |

CacheFollowsRow fails as StaleOnlyByOverlap allows, and in no other way.  Other
comments are not kept to the letter, and the property checked is the one that holds:

* "Plan Limit Enforcement": two threads may pass the check for one remaining
  flight, but usage and the threads past the check stay below the largest limit
  plus the number of threads; a COMMIT that outlives its sender adds its flight to that
  (OvershootBounded);
* "Only publish if the gate actually moved": two updates to one gate that share
  a snapshot both announce it, but only ones that ran at the same time do
  (AnnouncedGateMoved);
* "Checks for gate scheduling overlaps": two checks may both run before either
  flight is stored, and the other writers do not check.  A request sent again after
  an error may meet its own first COMMIT at the gate, when that is performed after
  the second check (ConflictExplained);
* "Baggage updated successfully" is the reply also to an update of a tag that is
  not there, but not for a bag whose check-in was confirmed before
  (ReportTakesEffect).

More comments are not kept for the same reasons and have no run of their own:

* "Success Audit Logging": the flight is committed, then its audit insert fails,
  which leaves an answer of "error" and no record;
* "Forensic Audit for Access Denied": a refusal whose audit insert throws is
  answered 401 and leaves no record, always under the migrations' schema;
* "General Broadcast to WebSockets (FIDS screens)": only sockets of the process
  that handles the update are reached;
* "Forward the message to local WebSocket clients": not after the subscriber
  thread has ended.

## Fairness

AddFlight: weak fairness of each thread's `Work`.  An event-loop thread that
has a request runs its handler to the end; no call to the database waits for another
thread, since libpqxx throws where it could wait.  `Return` is not part of
`Work` and has no fairness: PUBLISH is a command on the context that the threads
share, and RedisContext shows that its reply may never come.  EveryRequestAnswered
excepts that thread, and says what it leaves: the flight is stored and audited, and
no transaction is open.  Requests need not arrive.
FlightStatus and FlightSchedule: none, their
properties are about safety.  RedisContext: weak fairness of each thread between
two blocking points and of Redis, which answers what it gets; a thread blocked in
`read()` is not enabled, so HangExplained says when it stays so.  EventStream: weak fairness of the subscriber thread and of handlers
that have started; nothing is assumed of publishers, clients, failures or
restarts.  Booking: weak fairness of each thread and of the server, which
performs the COMMITs it has and ends sessions whose client is gone; a thread may
wait inside PostgreSQL, and that it does not wait for ever is EveryRequestEnds.
Bootstrap: a container that has exited is started again
(the Deployment's restart policy), the database returns, the server
ends transactions whose client is gone.  The docker-compose file has no restart
policy for the backend: EveryProcessServes is not claimed for it.

## Proofs

All theorems are checked by TLAPS without assumptions but the constants' (named
in the modules; AddFlight's: threads are finitely many and not none, `Host`,
`Attr` and `PlanLimit` are functions of the stated kinds).

AddFlight: TypeOK, ConnectionMatchesWork, LedgerComplete, TrailOrdered,
OvershootBounded, OnlyRedisIsAwaited.  They are proved together from `IInv`.  None but
ConnectionMatchesWork is inductive: that a COMMIT stores flight and usage row
together needs to know that `staged` holds exactly what the thread's step says
(StagedMatchesStep); that an INSERT is the first for its request needs that no
two threads share one (OneThreadPerRequest); the order of the trail needs what
each step implies about the database (StepMatchesRows).  OvershootBounded needs
PlanWithinCeiling, and counts: a thread enters `InFlight` only where usage is
below the limit, so usage and all threads in flight together stay below limit
and threads; a COMMIT moves one from one term to the other.  A transaction that loses its sender
leaves `InFlight` and goes to `orphans`, whose rows are not counted.  What an orphan
may still store is kept within the ledger and the trail by OrphansWhole: it is a
whole transaction, of a request that was answered with an error or lost.
OnlyRedisIsAwaited needs that
the step that takes a request from its thread answers it (`Handled`).

Bootstrap: TypeOK, AirportComplete, ServingHasAirport, HealthAlwaysGood, NobodyStuck, and
that it implements FirstAirport.  The strengthening: the
committed and the uncommitted airports are one at most (the unique index),
no two processes hold one id, the step of a process with a live connection
says what its transaction has inserted, and only a process past its COMMIT has
one on its way, without which a commit could be performed for a transaction
that lacks the admin.  That a process' INSERT of the admin never waits (NobodyStuck) needs that
what a process is yet to insert is nowhere (NothingAhead).  HealthAlwaysGood says how far the violated
HealthTellsDatabase is from the code: /health answers 200 in every state in which the
process serves.

Booking: TypeOK, SoldOnce, ConfirmedIsStored, LatestReportShown, ReportTakesEffect,
NoCircularWait, and that it implements Inventory.  SoldOnce rests on
OneWriter: open and committed rows of one key are one at most, orphans
included.  LatestReportShown rests on NoLateReport: an update that had ended
when another one came holds the row until its COMMIT is performed or never will
be, so it cannot be performed after the other one.  ConfirmedIsStored needs
what a thread knows of its transaction while its connection lives
(ExecutedIsWritten); ReportTakesEffect too, and that a bag confirmed before the report
came is stored when the UPDATE looks for it.  NoCircularWait: a statement writes one row
and a thread one transaction, so whatever is in the way has been executed already, and
a COMMIT that a thread waits for was sent (AwaitedIsSent).  Inventory's step at
the moment of a COMMIT asks that the seat or tag is still free and the ticket or bag
still there, long after the statement looked: OneWriter keeps the first, and nothing
stored ever goes, so what staged rows refer to (StagedRefers) keeps the second.  An
error or a death in the middle of a COMMIT becomes Inventory's `LeaveInDoubt`.

AddFlight implements FlightLifecycle (AddFlight_refinement): every action is a
step of the lifecycle or none under the mapping by which the run `handler`
checks it.  IInv supplies what the lifecycle's guards ask: that a request has not
been recorded or audited before, and that a reply "ok" follows both.

FlightStatus: TypeOK, ShownIsAudited, BeforeIsEarlier, StaleOnlyByOverlap,
AnnouncedGateMoved, AnnouncedIsLive.  A row is a sequence in which every update
of the flight occurs once (RowsOnce), and what a step knows of it is
StepMatchesRow.  The properties about overlaps rest on two facts: updates that
run at once are recorded as such (RunningOverlap), and one that has still to
write the cache overlaps every later one that is committed (LateOverlap); so
when the cache is overwritten, it is by a later update or by one that overlapped
(CacheKept).

FlightSchedule: TypeOK, ConflictExplained, ListIsCurrent.  A check that was passed
found no conflict among the flights it saw (SeenClear), which stays true as gates
change only with `moved`; of two flights in conflict each must then have missed
the other.  That the two comparisons of the SQL are the overlap of two intervals is
proved on the way.  Only a conflict between two unmoved, checked flights has to
be excluded, which is why SeenClear needs GateUnlessMoved.  SeenClear speaks of
orphans too: what their check has seen still counts when they are stored.

RedisContext: TypeOK, AnswerIsStatus, RepliesBalance, AnsweredAlone,
BlockedExplained.  RepliesBalance counts: commands and replies under way are as many as threads that wait, and every
step moves one from one buffer to another or takes one together with its thread.
AnsweredAlone then follows for a thread that is the only open one: what is under way
on the connection is its own (AloneSeesOwn).  There is then one command or reply, and
each step of the thread says where it is (AloneMoves): it is never left behind, so only a
thread that overlapped another one can block.

EventStream: TypeOK, TenantIsolation, InOrderOnce, NoGap, DueIsComing, and that it
implements EventFeed.  The inbox of a process is always a suffix of the log (InboxIsSuffix), so
`Reached` counts the events it has taken, and the loop sends the last of them; a client
has seen no event beyond that and not yet the one it is about to be sent
(SeenReached), which gives order and uniqueness.  NoGap needs that a client that
was in no race is in the set and has been sent all it was owed of what its
process has reached (KeptUp).  An event is owed to a client because it was connected
when the event was published, or because it has seen an earlier one.

Model-checked only: the liveness properties, which are out of the prover's reach, as are
ENABLED and induction over data.  What each of them says of a single state is proved: that
nothing it waits for has been lost and nobody it waits for waits himself, the reply of
Redis excepted.

| Liveness property, checked by TLC | State it rests on, proved |
|---|---|
| EveryRequestAnswered | OnlyRedisIsAwaited: an unanswered request has a thread, which has its connection or needs none, or waits for Redis with its flight audited and no transaction open |
| EveryRequestEnds | NoCircularWait: who is in the way of a statement is about to commit, has a COMMIT on its way, or is ended by the server |
| EveryProcessServes | NobodyStuck: the one INSERT that waits does so for a transaction that ends alone |
| EventReachesClients | DueIsComing: an event due is in the inbox or the loop of the client's process |
| HangExplained | BlockedExplained: a blocked thread overlapped another one, and a reply or a command is left |

## What the models assume

* The registration of a transaction on the shared connection is one step.
  libpqxx does it without a lock, so two threads may also race inside it or
  inside the protocol: undefined behaviour inside a library, not modelled.
* EventPublisher's `publish` is a PUBLISH by `redisCommand` on the context that
  RedisManager returns.  hiredis is modelled from its documented use: a command is
  appended to one buffer, a reply in the reader is returned before anything is
  written, a read takes in whatever has arrived, replies are in the order of the
  commands.  A race on the output buffer loses the command or sends it twice, or
  else ends the process; races on the reader beyond the order of its elements are not
  modelled.  One process is enough, a context is not shared between processes.
* FlightStatus and EventStream take a Redis command for one step.  RedisContext shows
  what that leaves out: a status of another flight under overlap, and a thread that
  hangs.  Its HangExplained names three reasons: a reply taken in by another thread, a
  command left in the buffer, a race or an error that changed the number of replies.
  A later command of the
  process may end the wait, with a reply that is not the thread's own.  AddFlight takes
  PUBLISH for two steps, of which the second may never come; the moment the event
  reaches Redis is taken to lie before the wait.
* The lock of an updated row and the wait of a duplicate INSERT are PostgreSQL's,
  modelled from the statements and constraints in the sources.
* In FlightStatus a COMMIT in doubt takes effect, if at all, before its loss is
  reported.  AddFlight, FlightSchedule, Booking and Bootstrap let the server perform it
  at any later time.
* An orphaned INSERT of a flight or of an audit record has a key of its own, so no other
  statement waits for it; an orphaned UPDATE of a flight or bag is waited for, and so is an
  orphaned INSERT of a seat, a tag or the airport.
* Every statement may throw at any time; constraint violations are among those
  failures.
* Redis keeps nothing over a restart (`deploy/k8s/redis.yaml` gives it no volume).
  `RedisManager` connects to 127.0.0.1 whatever `REDIS_HOST` says, so
  in the cluster a process' context is unusable from the start: `redis` in
  FlightStatus may be false initially and `PublishNowhere` always possible.
* A tenant id is a UUID and has no colon.
* `date_trunc` and the rows' time stamps: a row counts for the month its
  transaction began in.

## Not modelled

Authentication (a read and pure functions), `getFlightsByTenant` and GET /gates
(reads), `updateGateStatus` and staff (no callers), the event socket that only
greets, logging, metrics, the readiness probe (it asks for `/api/health`, the server has
`/health`), and the rest of billing, which calls functions that do not exist.
The race of two threads inside libpqxx has no outcome the sources determine.

## Plan

1. A composition of FlightStatus with RedisContext, so that a live status of another
   flight is traced to what a traveller is shown.
2. Several processes in RedisContext, whose commands Redis interleaves.
3. `updateGateStatus` and the availability of gates, once something calls it.
