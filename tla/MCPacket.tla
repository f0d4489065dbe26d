------------------------------ MODULE MCPacket ------------------------------
(* Model values for Packet; readers and buffers are interchangeable.         *)
EXTENDS Packet, TLC

CONSTANTS r1, r2, b1, b2

Symmetry == Permutations(Readers) \cup Permutations(Bufs)
=============================================================================
