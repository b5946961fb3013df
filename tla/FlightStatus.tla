---------------------------- MODULE FlightStatus ----------------------------
(***************************************************************************)
(* FlightService::updateStatusAndNotify: read the flight, update its row,  *)
(* write the audit record, write the Redis cache, publish a gate change,   *)
(* broadcast to the WebSocket clients of the process.  Every database call *)
(* is one transaction with one statement, so it is one step here, which    *)
(* may throw instead (AddFlight says why); the Redis calls never throw,    *)
(* they go nowhere once the process' connection to Redis is broken.        *)
(*                                                                         *)
(* An update stands for the status and gate it sets.  Nothing in the       *)
(* program calls the function yet, and it hands publish and broadcast the  *)
(* message alone: the tenant id in scope is taken for the missing one.     *)
(***************************************************************************)
EXTENDS Naturals, Sequences, FiniteSets

CONSTANTS
  Processes, Flights, Gates, Tenants,
  Owner,       \* Owner[f]: the tenant of flight f
  Updates,     \* calls of updateStatusAndNotify
  Call,        \* Call[u]: the process, flight, tenant and gate of update u
  Created,     \* stands for what addFlight stored in every flight
  FirstGate,   \* FirstGate[f]: the gate addFlight stored
  NoUpdate

CallType == [host : Processes, flight : Flights, tenant : Tenants, gate : Gates]

ASSUME CallAssumption  == Call \in [Updates -> CallType]
ASSUME OwnerAssumption == Owner \in [Flights -> Tenants]
ASSUME GateAssumption  == FirstGate \in [Flights -> Gates]
ASSUME MarkAssumption  == Created \notin Updates /\ NoUpdate \notin Updates \cup {Created}

VARIABLES
  pc,        \* what each update does next
  old,       \* the "Before" snapshot each update took
  rows,      \* rows[f]: the updates committed to flight f, in order
  audit,     \* audit[u]: the old state update u's audit record names
  cache,     \* cache[f]: the update the Redis hash of flight f holds
  redis,     \* redis[p]: whether process p's Redis context is usable
  announced, \* updates whose GATE_CHANGED event was published
  screened,  \* updates broadcast to the clients of their process
  overlap,   \* history: pairs of updates of one flight that ran at once
  disturbed  \* history: flights whose cache missed an update

vars == <<pc, old, rows, audit, cache, redis, announced, screened, overlap, disturbed>>

FlightOf(u) == Call[u].flight
Host(u)     == Call[u].host

Versions == Updates \cup {Created}
GateOf(v, f) == IF v = Created THEN FirstGate[f] ELSE Call[v].gate

(* The state of flight f, and the state it was in before update u. *)
Current(f) == IF rows[f] = <<>> THEN Created ELSE rows[f][Len(rows[f])]
Before(u) ==
  LET h == rows[FlightOf(u)]
      i == CHOOSE i \in DOMAIN h : h[i] = u
  IN  IF i = 1 THEN Created ELSE h[i - 1]
Committed(u) == \E i \in DOMAIN rows[FlightOf(u)] : rows[FlightOf(u)][i] = u

Running == {"update", "audit", "cache", "publish", "broadcast"}
Ended   == {"done", "cut"}
Active(f) == {u \in Updates : FlightOf(u) = f /\ pc[u] \in Running}

Init ==
  /\ pc = [u \in Updates |-> "fetch"]
  /\ old = [u \in Updates |-> NoUpdate]
  /\ rows = [f \in Flights |-> <<>>]
  /\ audit = [u \in Updates |-> NoUpdate]
  /\ cache = [f \in Flights |-> NoUpdate]
  /\ redis \in [Processes -> BOOLEAN]
  /\ announced = {}
  /\ screened = {}
  /\ overlap = {} /\ disturbed = {}

GoTo(u, step) == pc' = [pc EXCEPT ![u] = step]
Disturb(u)    == disturbed' = disturbed \cup {FlightOf(u)}
Append1(u)    == rows' = [rows EXCEPT ![FlightOf(u)] = Append(@, u)]

-----------------------------------------------------------------------------
(* Mutant of FetchOld: the test for a missing flight is dropped. *)
FetchOldUnchecked(u) ==
  /\ pc[u] = "fetch"
  /\ GoTo(u, "update")
  /\ old' = [old EXCEPT ![u] =
       IF Call[u].tenant = Owner[FlightOf(u)] THEN Current(FlightOf(u)) ELSE NoUpdate]
  /\ overlap' = overlap \cup {{u, v} : v \in Active(FlightOf(u))}
  /\ UNCHANGED <<rows, audit, cache, redis, announced, screened, disturbed>>

(* getById, which finds only flights of the caller's tenant. *)
FetchOld(u) ==
  /\ pc[u] = "fetch"
  /\ IF Call[u].tenant = Owner[FlightOf(u)]
     THEN /\ GoTo(u, "update")
          /\ old' = [old EXCEPT ![u] = Current(FlightOf(u))]
          /\ overlap' = overlap \cup {{u, v} : v \in Active(FlightOf(u))}
     ELSE GoTo(u, "cut") /\ UNCHANGED <<old, overlap>>
  /\ UNCHANGED <<rows, audit, cache, redis, announced, screened, disturbed>>

(* Mutant of UpdateRow: the cache is written first, the audit record never. *)
UpdateRowThenCache(u) ==
  /\ pc[u] = "update"
  /\ Append1(u)
  /\ GoTo(u, "cache")
  /\ UNCHANGED <<old, audit, cache, redis, announced, screened, overlap, disturbed>>

UpdateRow(u) ==
  /\ pc[u] = "update"
  /\ Append1(u)
  /\ GoTo(u, "audit")
  /\ UNCHANGED <<old, audit, cache, redis, announced, screened, overlap, disturbed>>

(* Mutant of WriteAudit: the old state is read when the record is written. *)
WriteAuditLate(u) ==
  /\ pc[u] = "audit"
  /\ audit' = [audit EXCEPT ![u] = Current(FlightOf(u))]
  /\ GoTo(u, "cache")
  /\ UNCHANGED <<old, rows, cache, redis, announced, screened, overlap, disturbed>>

(* Mutant of WriteAudit: the gate event goes out before the cache is       *)
(* written, and the broadcast instead of it.                               *)
WriteAuditThenPublish(u) ==
  /\ pc[u] = "audit"
  /\ audit' = [audit EXCEPT ![u] = old[u]]
  /\ GoTo(u, "publish")
  /\ UNCHANGED <<old, rows, cache, redis, announced, screened, overlap, disturbed>>

WriteAudit(u) ==
  /\ pc[u] = "audit"
  /\ audit' = [audit EXCEPT ![u] = old[u]]
  /\ GoTo(u, "cache")
  /\ UNCHANGED <<old, rows, cache, redis, announced, screened, overlap, disturbed>>

(* A database call throws, before it has an effect or (a COMMIT in doubt)  *)
(* after it; what is left of the update is not done.                       *)
Throw(u) ==
  /\ pc[u] \in {"fetch", "update", "audit"}
  /\ GoTo(u, "cut")
  /\ \/ UNCHANGED <<rows, audit>>
     \/ pc[u] = "update" /\ Append1(u) /\ UNCHANGED audit
     \/ pc[u] = "audit" /\ audit' = [audit EXCEPT ![u] = old[u]] /\ UNCHANGED rows
  /\ IF pc[u] = "audit" \/ rows' # rows THEN Disturb(u) ELSE UNCHANGED disturbed
  /\ UNCHANGED <<old, cache, redis, announced, screened, overlap>>

(* Mutant of UpdateCache: HSETNX for HMSET. *)
UpdateCacheOnce(u) ==
  /\ pc[u] = "cache"
  /\ IF redis[Host(u)] /\ cache[FlightOf(u)] = NoUpdate
     THEN cache' = [cache EXCEPT ![FlightOf(u)] = u] /\ UNCHANGED disturbed
     ELSE UNCHANGED <<cache, disturbed>>
  /\ GoTo(u, "publish")
  /\ UNCHANGED <<old, rows, audit, redis, announced, screened, overlap>>

(* HMSET; the reply, and its absence, are ignored. *)
UpdateCache(u) ==
  /\ pc[u] = "cache"
  /\ IF redis[Host(u)]
     THEN cache' = [cache EXCEPT ![FlightOf(u)] = u] /\ UNCHANGED disturbed
     ELSE Disturb(u) /\ UNCHANGED cache
  /\ GoTo(u, "publish")
  /\ UNCHANGED <<old, rows, audit, redis, announced, screened, overlap>>

(* Mutant of GateMoved: every update publishes an event. *)
GateMovedAlways(u) == TRUE

GateMoved(u) == GateOf(old[u], FlightOf(u)) # Call[u].gate

PublishGateChange(u) ==
  /\ pc[u] = "publish"
  /\ announced' = IF GateMoved(u) /\ redis[Host(u)] THEN announced \cup {u} ELSE announced
  /\ GoTo(u, "broadcast")
  /\ UNCHANGED <<old, rows, audit, cache, redis, screened, overlap, disturbed>>

(* Only the clients of the caller's own process are reached. *)
Broadcast(u) ==
  /\ pc[u] = "broadcast"
  /\ screened' = screened \cup {u}
  /\ GoTo(u, "done")
  /\ UNCHANGED <<old, rows, audit, cache, redis, announced, overlap, disturbed>>

(* HGET on process p; without an answer the status is empty. *)
getFlightStatus(p, f) == IF redis[p] THEN cache[f] ELSE NoUpdate

(* What GET /flights/{id}/live answers on process p: "Unknown" for nothing. *)
LiveStatus(p, f) ==
  IF getFlightStatus(p, f) = NoUpdate THEN "Unknown" ELSE getFlightStatus(p, f)

-----------------------------------------------------------------------------
(* The environment. *)

(* A hiredis context that has seen an error refuses every later command. *)
BreakRedis(p) ==
  /\ redis' = [redis EXCEPT ![p] = FALSE]
  /\ UNCHANGED <<pc, old, rows, audit, cache, announced, screened, overlap, disturbed>>

(* Redis comes back empty, and every open connection to it is broken. *)
RestartRedis ==
  /\ cache' = [f \in Flights |-> NoUpdate]
  /\ redis' = [p \in Processes |-> FALSE]
  /\ disturbed' = Flights
  /\ UNCHANGED <<pc, old, rows, audit, announced, screened, overlap>>

(* A process dies with its updates and its clients, and is started again;  *)
(* redisConnect is tried once, and keeps the error if it fails.            *)
Restart(p) ==
  LET mine == {u \in Updates : Host(u) = p /\ pc[u] \in Running} IN
  /\ pc' = [u \in Updates |-> IF u \in mine THEN "cut" ELSE pc[u]]
  /\ \E up \in BOOLEAN : redis' = [redis EXCEPT ![p] = up]
  /\ disturbed' = disturbed \cup {FlightOf(u) : u \in mine}
  /\ UNCHANGED <<old, rows, audit, cache, announced, screened, overlap>>

-----------------------------------------------------------------------------
Step(u) ==
  \/ FetchOld(u) \/ UpdateRow(u) \/ WriteAudit(u) \/ Throw(u)
  \/ UpdateCache(u) \/ PublishGateChange(u) \/ Broadcast(u)

Next ==
  \/ \E u \in Updates : Step(u)
  \/ \E p \in Processes : BreakRedis(p) \/ Restart(p)
  \/ RestartRedis

Spec == Init /\ [][Next]_vars

-----------------------------------------------------------------------------
(* Properties. *)

(* Type invariant; past the first step an update has a "Before" snapshot. *)
TypeOK ==
  /\ pc \in [Updates -> {"fetch"} \cup Running \cup Ended]
  /\ old \in [Updates -> Versions \cup {NoUpdate}]
  /\ rows \in [Flights -> Seq(Updates)]
  /\ audit \in [Updates -> Versions \cup {NoUpdate}]
  /\ cache \in [Flights -> Updates \cup {NoUpdate}]
  /\ redis \in [Processes -> BOOLEAN]
  /\ announced \subseteq Updates
  /\ screened \subseteq Updates
  /\ overlap \subseteq SUBSET Updates
  /\ disturbed \subseteq Flights
  /\ \A u \in Updates : pc[u] \in Running => old[u] # NoUpdate

(* What travellers see (the cache, a gate event, a screen) was stored and  *)
(* audited before, whichever update, process or failure it comes from.     *)
Shown(u) == \/ cache[FlightOf(u)] = u
            \/ u \in announced \cup screened
ShownIsAudited == \A u \in Updates : Shown(u) => Committed(u) /\ audit[u] # NoUpdate

(* The old state an audit record names is one the flight was in before the *)
(* update, if not always the last one.                                     *)
BeforeIsEarlier ==
  \A u \in Updates : audit[u] # NoUpdate /\ Committed(u) =>
    LET h == rows[FlightOf(u)] IN
    \E i \in DOMAIN h : h[i] = u /\ (audit[u] = Created \/ \E j \in 1..(i - 1) : h[j] = audit[u])

AtRest(f) == Active(f) = {}

(* Once the updates of a flight are over and none of them was cut short,   *)
(* GET /flights/{id}/live answers with the flight's state, unless the      *)
(* update it shows and the last one ran at the same time: updates in       *)
(* sequence never leave a stale status, and a process that can reach Redis *)
(* is not without one.                                                     *)
StaleOnlyByOverlap ==
  \A f \in Flights, p \in Processes :
    AtRest(f) /\ f \notin disturbed /\ rows[f] # <<>> /\ redis[p] =>
      \/ LiveStatus(p, f) = Current(f)
      \/ {LiveStatus(p, f), Current(f)} \in overlap

(* Who hears of a gate change and then asks for the live status is shown   *)
(* that update's or a later one's, unless the two ran at the same time or  *)
(* the cache has missed an update.                                         *)
Follows(v, u) ==
  LET h == rows[FlightOf(u)] IN \E i, j \in DOMAIN h : i <= j /\ h[i] = u /\ h[j] = v
AnnouncedIsLive ==
  \A u \in announced :
    LET shown == cache[FlightOf(u)] IN
    FlightOf(u) \notin disturbed => Follows(shown, u) \/ {shown, u} \in overlap

(* "Only publish if the gate actually moved": it did, from one stored state *)
(* to the next, or the state before came in between from an update that    *)
(* ran at the same time.                                                   *)
AnnouncedGateMoved ==
  \A u \in announced :
    GateOf(Before(u), FlightOf(u)) # Call[u].gate \/ {Before(u), u} \in overlap

(* "4. Update the Fast Cache (Redis)": the cache follows the database.     *)
(* Concurrent callers refute it.                                           *)
CacheFollowsRow ==
  \A f \in Flights, p \in Processes :
    AtRest(f) /\ f \notin disturbed /\ rows[f] # <<>> /\ redis[p] =>
      LiveStatus(p, f) = Current(f)

-----------------------------------------------------------------------------
(* What makes these inductive. *)

(* The row of a flight is written once by each update of it. *)
RowsOnce ==
  \A f \in Flights : \A i \in DOMAIN rows[f] :
    /\ FlightOf(rows[f][i]) = f
    /\ \A j \in DOMAIN rows[f] : rows[f][i] = rows[f][j] => i = j
Precedes(v, u) ==
  LET h == rows[FlightOf(u)] IN \E i, j \in DOMAIN h : i < j /\ h[i] = v /\ h[j] = u

(* What an update has done at each step. *)
StepMatchesRow ==
  \A u \in Updates :
    /\ pc[u] \in {"fetch", "update"} => ~Committed(u)
    /\ pc[u] \in {"audit", "cache", "publish", "broadcast", "done"} => Committed(u)
    /\ pc[u] \in {"cache", "publish", "broadcast", "done"} => audit[u] # NoUpdate
    /\ pc[u] = "fetch" => old[u] = NoUpdate
    /\ audit[u] \in {NoUpdate, old[u]}

(* The snapshot is a state from before the update, and the last one unless *)
(* an update that ran at the same time came in between.                    *)
OldIsEarlier ==
  \A u \in Updates : old[u] \in Updates =>
    /\ Committed(old[u]) /\ FlightOf(old[u]) = FlightOf(u)
    /\ Committed(u) => Precedes(old[u], u)
OldOrOverlap ==
  \A u \in Updates :
    /\ pc[u] = "update" =>
         Current(FlightOf(u)) = old[u] \/ {Current(FlightOf(u)), u} \in overlap
    /\ Committed(u) => Before(u) = old[u] \/ {Before(u), u} \in overlap
AnnouncedMoved ==
  \A u \in announced :
    Committed(u) /\ GateMoved(u) /\ pc[u] \in {"broadcast", "done", "cut"}

(* Updates of a flight that run at once overlap; one that has still to     *)
(* write the cache overlaps every later one that is committed.             *)
RunningOverlap ==
  \A u, v \in Updates :
    u # v /\ FlightOf(u) = FlightOf(v) /\ pc[u] \in Running /\ pc[v] \in Running
      => {u, v} \in overlap
LateOverlap ==
  \A u, v \in Updates :
    pc[v] \in {"audit", "cache"} /\ Precedes(v, u) => {v, u} \in overlap

(* A committed update of an undisturbed flight has still to write the      *)
(* cache, or the cache has it, a later one, or one it overlapped.          *)
CacheKept ==
  \A u \in Updates :
    LET shown == cache[FlightOf(u)] IN
    Committed(u) /\ FlightOf(u) \notin disturbed =>
      /\ pc[u] # "cut"
      /\ pc[u] \in {"audit", "cache"} \/ Follows(shown, u) \/ {shown, u} \in overlap

IInv ==
  /\ TypeOK /\ RowsOnce /\ StepMatchesRow /\ ShownIsAudited
  /\ OldIsEarlier /\ OldOrOverlap /\ AnnouncedMoved
  /\ RunningOverlap /\ LateOverlap /\ CacheKept
=============================================================================
