-------------------------- MODULE MCMultiListener ---------------------------
(* Instances of MultiListener for TLC. *)
EXTENDS MultiListener

CONSTANTS k1, k2, x1, x2, z1, z2, mk

\* Windows on both sides of the epoch.
SomeWindows == -2..2
=============================================================================
