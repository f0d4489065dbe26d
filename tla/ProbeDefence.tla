---------------------------- MODULE ProbeDefence ----------------------------
(***************************************************************************)
(* The two probe-defending listeners, reality and xreality: what they      *)
(* share (GuardedListener) with the handler of the package at hand, and    *)
(* what both have to do for every kind of client.                          *)
(***************************************************************************)
EXTENDS Reality, XReality

Accepts(c) ==
  \/ pkg = "reality" /\ RealityAccepts(c)
  \/ pkg = "xreality" /\ LoopAccepts(c, "peek")

Handler(c) ==
  \/ HandlerShared(c)
  \/ pkg = "reality" /\ RealityHandler(c)
  \/ pkg = "xreality" /\ XRealityHandler(c)

Next ==
  \/ \E c \in Conns : Environment(c) \/ Accepts(c) \/ Handler(c)
  \/ Listens

Spec == Init /\ [][Next]_vars

FairSpec ==
  /\ Spec
  /\ FairnessShared
  /\ \A c \in Conns : WF_vars(Expires(c)) /\ RealityFairness(c) /\ XRealityFairness(c)
-----------------------------------------------------------------------------
\* Accept returns only tunnels of clients that sent the whole token (reality) or
\* the right proof (xreality) over a TLS session terminated here; in xreality
\* only after a ClientHello that authenticated, in reality with an SNI stage
\* never after one that named somebody else.  Without a token reality has no tunnels
\* at all; the length of a proof is fixed.
OnlyAuthed ==
  \A c \in Conns : pc[c] \in {"offer", "delivered"} =>
    /\ kind[c].secret = "right" /\ kind[c].hello # "notTLS"
    /\ pkg = "reality" => SecretLen > 0
    /\ Len(rd[c]) = ShakeLen + SecretLen
    /\ pkg = "xreality" => kind[c].hello = "whole"
    /\ (pkg = "xreality" \/ SniCheck) /\ kind[c].hello = "whole" => kind[c].name = "ours"
=============================================================================
