----------------------------- MODULE EventFeed ------------------------------
(***************************************************************************)
(* What the delivery of events promises: one order of all events, out of   *)
(* which every client is sent some of its own tenant's, in that order.     *)
(***************************************************************************)
EXTENDS Naturals, Sequences

CONSTANTS
  Events, Clients,
  EventTenant,    \* EventTenant[e]: the tenant an event is published for
  ClientTenant    \* ClientTenant[c]: the tenant a client asks for, if any

VARIABLES
  log,       \* the events accepted, in order
  received   \* received[c]: the events sent to each client

vars == <<log, received>>

Elements(s) == {s[i] : i \in DOMAIN s}
Position(e) == CHOOSE i \in DOMAIN log : log[i] = e

Init == log = <<>> /\ received = [c \in Clients |-> <<>>]

Accept(e) ==
  /\ e \notin Elements(log)
  /\ log' = Append(log, e)
  /\ UNCHANGED received

(* A client may be passed over, but is never sent an event it has seen or  *)
(* is past.                                                                *)
Deliver(e, c) ==
  /\ e \in Elements(log)
  /\ EventTenant[e] = ClientTenant[c]
  /\ \A seen \in Elements(received[c]) : Position(seen) < Position(e)
  /\ received' = [received EXCEPT ![c] = Append(@, e)]
  /\ UNCHANGED log

Next == \E e \in Events : Accept(e) \/ \E c \in Clients : Deliver(e, c)

Spec == Init /\ [][Next]_vars
=============================================================================
