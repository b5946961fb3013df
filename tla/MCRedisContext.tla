---------------------------- MODULE MCRedisContext ----------------------------
(* A small instance of RedisContext for TLC. *)
EXTENDS RedisContext, TLC

CONSTANTS s1, q1, n1, f1

(* An update of a flight, a query of it, and an event. *)
KindMixed == (s1 :> "set") @@ (q1 :> "get") @@ (n1 :> "publish")
FlightSame == [c \in Calls |-> f1]
=============================================================================
