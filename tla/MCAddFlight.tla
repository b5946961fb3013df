----------------------------- MODULE MCAddFlight -----------------------------
(* Small instances of AddFlight for TLC. *)
EXTENDS AddFlight, TLC

CONSTANTS w1, w2, w3, p1, p2, r1, r2, r3, r4, r5, t1, t2, u1, u2, free, starter

Granted(t) == [tenant |-> t, token |-> TRUE, user |-> u1, role |-> "gate_agent", body |-> TRUE]

MCGrants == {<<u1, "CREATE_FLIGHT">>}
MCPlanLimit == [p \in Plans |-> IF p = free THEN 0 ELSE 1]

(* Two threads of one process and one of another. *)
HostThree == (w1 :> p1) @@ (w2 :> p1) @@ (w3 :> p2)
HostTwo   == (w1 :> p1) @@ (w2 :> p1)
HostOne   == (w1 :> p1)

(* Flights of one tenant. *)
AttrSame == [r \in Requests |-> Granted(t1)]

(* Nothing tells such requests apart: sound, as plan checks no liveness.   *)
RequestsAlike == Permutations(Requests)

(* Two states that differ only in what plan never reads again have the     *)
(* same future there: audit rows, events, which final answer a request     *)
(* got, and of the month the flights that are neither stored nor may be.   *)
Stays(r) == \/ <<"usage_metrics", r>> \in db \/ Orphaned(r)
            \/ \E w \in Workers : job[w] = r /\ pc[w] \in PastCheck
WhatPlanReads ==
  <<pc, job, conn, link, plan, ceiling,
    {r \in month : Stays(r)},
    {r \in month : <<"usage_metrics", r>> \in db},
    {r \in month : Orphaned(r)},
    {r \in Requests : answer[r] = "none"}>>

(* One request of every kind: granted, without a body, without the user's  *)
(* grant, without the role, without a user header, without a token.        *)
AttrKinds ==
  (r1 :> Granted(t1)) @@
  (r2 :> [Granted(t1) EXCEPT !.body = FALSE]) @@
  (r3 :> [Granted(t1) EXCEPT !.user = u2]) @@
  (r4 :> [Granted(t1) EXCEPT !.role = "staff", !.user = NoUser]) @@
  (r5 :> [Granted(t1) EXCEPT !.token = FALSE])

AllStatements == Statements
(* The statements the repository's own migrations accept. *)
MigratedStatements == {"permission", "flight", "usage"}
=============================================================================
