--------------------------- MODULE MCFlightSchedule ---------------------------
(* A small instance of FlightSchedule for TLC. *)
EXTENDS FlightSchedule, TLC

CONSTANTS w1, w2, w3, p1, p2, t1, t2, g1, g2, a1, a2, b1, m1, x1, l1

(* Two threads of one process and one of another. *)
HostThree == (w1 :> p1) @@ (w2 :> p1) @@ (w3 :> p2)
ThreadsAlike == Permutations({w1, w2})

Request(k, t, g, x, y, f) ==
  [kind |-> k, tenant |-> t, gate |-> g, from |-> x, to |-> y, flight |-> f]
Schedule(x, y) == Request("schedule", t1, g1, x, y, NoRequest)

(* Two flights of one tenant at one gate, one of them within the other's    *)
(* time; one of another gate, added without a check and moved by m1; the   *)
(* list of these three; a flight of another tenant.                        *)
AttrMixed == LET all ==
  (a1 :> Schedule(0, 4)) @@ (a2 :> Schedule(1, 2)) @@
  (b1 :> Request("add", t1, g2, 1, 3, NoRequest)) @@
  (m1 :> Request("move", t1, g1, 0, 0, b1)) @@
  (x1 :> Request("add", t2, g1, 1, 3, NoRequest)) @@
  (l1 :> Request("list", t1, g1, 0, 0, NoRequest))
  IN [r \in Requests |-> all[r]]

(* Two states that differ only in what schedule never reads again have the *)
(* same future there: which answer a request got, once no list is to come, *)
(* what a check saw whose flight will not be stored, what a list showed    *)
(* beyond whether that was right.                                          *)
ListToCome == \E r \in Requests :
  Kind(r) = "list" /\ answer[r] = "none" /\ \A w \in Workers : job[w] # r
WhatScheduleReads ==
  <<pc, job, conn, stored, orphans, moved, ListIsCurrent,
    [r \in stored |-> gate[r]],
    {r \in Requests : answer[r] = "none"},
    {r \in Flights : answer[r] = "ok" /\ ListToCome},
    [r \in {q \in Requests : Passed(q)} |-> seen[r]],
    [r \in {job[w] : w \in {v \in Workers : pc[v] # "idle"}} |-> known[r]]>>
=============================================================================
