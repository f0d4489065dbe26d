---------------------------- MODULE MCPacedConn -----------------------------
(* Instances of PacedConn for TLC. *)
EXTENDS PacedConn, TLC

CONSTANTS w1, w2, c1, c2

TwoWriters == {w1, w2}
TwoClosers == {c1, c2}

Symmetry == Permutations(TwoWriters) \cup Permutations(TwoClosers)
=============================================================================
