--------------------------- MODULE FlightLifecycle ---------------------------
(***************************************************************************)
(* What POST /flights promises its client, one request at a time: a flight *)
(* is recorded, then audited, then announced, never in another order; a    *)
(* reply closes the request, and says what has become of the flight.       *)
(***************************************************************************)
EXTENDS Naturals

CONSTANTS
  Requests,
  Permitted    \* requests whose sender may create flights

VARIABLES
  stage,       \* how far the flight of each request has come
  refusal,     \* requests whose refusal is on the audit trail
  reply        \* what each client has been told

vars == <<stage, refusal, reply>>

Stages  == {"absent", "recorded", "audited", "announced"}
Replies == {"none", "pending", "ok", "denied", "plan_limit", "error", "lost"}

TypeOK == /\ stage \in [Requests -> Stages]
          /\ refusal \subseteq Requests
          /\ reply \in [Requests -> Replies]

Init == /\ stage = [r \in Requests |-> "absent"]
        /\ refusal = {}
        /\ reply = [r \in Requests |-> "none"]

(* The next stages of a flight. *)
Successors(r) ==
  CASE stage[r] = "absent"    -> IF r \in Permitted THEN {"recorded"} ELSE {}
    [] stage[r] = "recorded"  -> {"audited"}
    [] stage[r] = "audited"   -> {"announced"}
    [] stage[r] = "announced" -> {}

(* A reply that makes a promise, and the stage it promises. *)
Truthful(r, answer, s) ==
  /\ answer \in {"ok", "denied", "plan_limit", "error", "lost"}
  /\ answer = "ok" => s \in {"audited", "announced"}
  /\ answer = "denied" => s = "absent" /\ r \notin Permitted
  /\ answer = "plan_limit" => s = "absent" /\ r \in Permitted

Accept(r) ==
  /\ reply[r] = "none"
  /\ reply' = [reply EXCEPT ![r] = "pending"]
  /\ UNCHANGED <<stage, refusal>>

(* A request that carries no valid token. *)
Reject(r) ==
  /\ reply[r] = "none"
  /\ reply' = [reply EXCEPT ![r] = "error"]
  /\ UNCHANGED <<stage, refusal>>

(* The flight moves on while its request is handled.  An error, or no      *)
(* answer at all, promises nothing: a commit on its way may still move it, *)
(* but no event goes out any more.                                         *)
Advance(r) ==
  /\ reply[r] \in {"pending", "error", "lost"}
  /\ \E s \in Successors(r) : /\ s = "announced" => reply[r] = "pending"
                             /\ stage' = [stage EXCEPT ![r] = s]
  /\ UNCHANGED <<refusal, reply>>

(* The record of a refusal whose client has not been told of it. *)
Refuse(r) ==
  /\ r \notin Permitted /\ reply[r] \in {"error", "lost"}
  /\ refusal' = refusal \cup {r}
  /\ UNCHANGED <<stage, reply>>

(* The reply; a refusal goes out with its record. *)
Settle(r, answer) ==
  /\ reply[r] = "pending" /\ Truthful(r, answer, stage[r])
  /\ reply' = [reply EXCEPT ![r] = answer]
  /\ refusal' = IF answer = "denied" THEN refusal \cup {r} ELSE refusal
  /\ UNCHANGED stage

(* A process dies with the requests R its threads were handling. *)
Lose(R) ==
  /\ reply' = [r \in Requests |-> IF r \in R THEN "lost" ELSE reply[r]]
  /\ UNCHANGED <<stage, refusal>>

Next ==
  \/ \E r \in Requests : Accept(r) \/ Reject(r) \/ Advance(r) \/ Refuse(r)
  \/ \E r \in Requests, answer \in Replies : Settle(r, answer)
  \/ \E R \in SUBSET {r \in Requests : reply[r] = "pending"} : Lose(R)

Spec == Init /\ [][Next]_vars
=============================================================================
