---------------------------- MODULE MCFlightStatus ----------------------------
(* Small instances of FlightStatus for TLC. *)
EXTENDS FlightStatus, TLC

CONSTANTS u1, u2, u3, u4, p1, p2, f1, f2, g1, g2, t1, t2

MCOwner     == [f \in Flights |-> t1]
MCFirstGate == [f \in Flights |-> g1]

On(p, g) == [host |-> p, flight |-> f1, tenant |-> t1, gate |-> g]

(* Three updates of one flight on two processes, two to the same new gate, *)
(* and one by a tenant the flight does not belong to.                      *)
CallsMixed ==
  [u \in Updates |->
     CASE u = u1 -> On(p1, g2)
       [] u = u2 -> On(p2, g2)
       [] u = u3 -> On(p1, g1)
       [] u = u4 -> [On(p2, g1) EXCEPT !.tenant = t2]]

(* Two updates of one flight to the same gate, on threads of one process. *)
CallsTwo == (u1 :> On(p1, g2)) @@ (u2 :> On(p1, g2))
=============================================================================
