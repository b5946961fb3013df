------------------------------ MODULE MCBooking ------------------------------
(* Small instances of Booking for TLC. *)
EXTENDS Booking, TLC

CONSTANTS w1, w2, w3, p1, p2, t1, t2, t3, b1, b2, s1, s2, seat, tag

(* Two threads of one process and one of another; one of each. *)
HostThree == (w1 :> p1) @@ (w2 :> p1) @@ (w3 :> p2)
HostTwo == (w1 :> p1) @@ (w2 :> p2)

Ticket(f) == [kind |-> "ticket", key |-> seat, ticket |-> NoRequest, form |-> f]
Bag(f)    == [kind |-> "bag", key |-> tag, ticket |-> t1, form |-> f]
Report    == [kind |-> "status", key |-> tag, ticket |-> NoRequest, form |-> "good"]

(* Contents for the Requests of a run: two tickets for one seat and a      *)
(* request without a body; a check-in, and one that fails; two reports.    *)
AttrAll == LET all ==
  (t1 :> Ticket("good")) @@ (t2 :> Ticket("good")) @@ (t3 :> Ticket("absent")) @@
  (b1 :> Bag("good")) @@ (b2 :> Bag("bad")) @@
  (s1 :> Report) @@ (s2 :> Report)
  IN [r \in Requests |-> all[r]]

(* Nothing tells the two reports apart, nor the two processes with their   *)
(* threads: sound, as reports checks no liveness.                          *)
ReportsAlike == Permutations({s1, s2})
ProcessesAlike == {(w1 :> w2) @@ (w2 :> w1) @@ (p1 :> p2) @@ (p2 :> p1)}
Alikes == ReportsAlike \cup ProcessesAlike
=============================================================================
