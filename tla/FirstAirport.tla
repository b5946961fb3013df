----------------------------- MODULE FirstAirport -----------------------------
(***************************************************************************)
(* What the start of the processes promises: the first airport comes into  *)
(* being once, tenant and admin at one moment, and stays; a process serves *)
(* only when it is there.                                                  *)
(***************************************************************************)
CONSTANTS Processes, Ids

VARIABLES
  tenants, admins,  \* the airports, and those that have an admin
  serving           \* the processes that answer requests

vars == <<tenants, admins, serving>>

Init == tenants = {} /\ admins = {} /\ serving = {}

Register(i) ==
  /\ tenants = {}
  /\ tenants' = {i} /\ admins' = {i}
  /\ UNCHANGED serving

Serve(p) ==
  /\ p \notin serving /\ tenants # {}
  /\ serving' = serving \cup {p}
  /\ UNCHANGED <<tenants, admins>>

Stop(p) ==
  /\ p \in serving
  /\ serving' = serving \ {p}
  /\ UNCHANGED <<tenants, admins>>

Next ==
  \/ \E i \in Ids : Register(i)
  \/ \E p \in Processes : Serve(p) \/ Stop(p)

Spec == Init /\ [][Next]_vars
=============================================================================
