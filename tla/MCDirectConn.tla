---------------------------- MODULE MCDirectConn ----------------------------
(* Instances of DirectConn for TLC: the names of writers and closers. *)
EXTENDS DirectConn

CONSTANTS w1, w2, c1, c2
=============================================================================
