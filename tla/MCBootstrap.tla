----------------------------- MODULE MCBootstrap -----------------------------
(* Small instances of Bootstrap for TLC. *)
EXTENDS Bootstrap, TLC

CONSTANTS p1, p2, p3, i1, i2, i3, i4, i5

=============================================================================
