---------------------------- MODULE MCEventStream ----------------------------
(* A small instance of EventStream for TLC. *)
EXTENDS EventStream, TLC

CONSTANTS p1, t1, t2, e1, e2, c1, c2, c3

EventsSame == [e \in Events |-> t1]

(* A client of the events' tenant, one of another and one that names none. *)
TenantsMixed == (c1 :> t1) @@ (c2 :> t2) @@ (c3 :> Anonymous)
HomeOne == [c \in Clients |-> p1]
=============================================================================
