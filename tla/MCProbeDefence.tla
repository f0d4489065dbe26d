--------------------------- MODULE MCProbeDefence ---------------------------
(* Instance of ProbeDefence for TLC. *)
EXTENDS ProbeDefence

CONSTANTS k1, x1, z1

\* Every kind of client.
AllKinds == Kind
=============================================================================
