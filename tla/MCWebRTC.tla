------------------------------ MODULE MCWebRTC ------------------------------
(* Model values for WebRTC.                                                  *)
EXTENDS WebRTC

CONSTANTS t1, t2, x1, x2
=============================================================================
