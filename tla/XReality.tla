------------------------------ MODULE XReality ------------------------------
(***************************************************************************)
(* The listener of package xreality (listener.go): the first record is     *)
(* always peeked; one that does not authenticate is spliced raw to the     *)
(* borrowed site, the others terminate TLS here and exchange proofs bound  *)
(* to the channel before Accept gets them.  The secret of the client is    *)
(* its proof.                                                              *)
(***************************************************************************)
EXTENDS GuardedListener

\* Authenticate: the record parses and its session ID opens under the server's
\* key, within the time window and with a known short ID.
Authenticates(c) == PeekOk(c) /\ kind[c].name = "ours"

\* peekRecord and Authenticate: whatever fails is passed through.
Judges(c) ==
  /\ PeekEnds(c)
  /\ IF Authenticates(c)
     THEN /\ pc' = [pc EXCEPT ![c] = "tls"]
          /\ UNCHANGED <<listenerVars, clientVars, timer, readVars, open, spliceVars>>
     ELSE Passthrough(c)

\* serverChannelAuth succeeds: the deadline is cleared, the tunnel offered.
ProofAccepted(c) ==
  /\ pc[c] = "secret"
  /\ SecretRead(c) = SecretLen
  /\ kind[c].secret = "right"
  /\ timer' = [timer EXCEPT ![c] = ClearDeadline(c)]
  /\ pc' = [pc EXCEPT ![c] = "offer"]
  /\ UNCHANGED <<listenerVars, clientVars, readVars, open, spliceVars>>

\* serverChannelAuth fails: its own proof cannot be written, the client's does
\* not come or is wrong.  The connection is closed.
ProofRefused(c) ==
  /\ pc[c] = "secret"
  /\ \/ SecretRead(c) = SecretLen /\ kind[c].secret = "wrong"
     \/ SecretRead(c) < SecretLen /\ ReadFails(c)
     \/ SecretRead(c) = 0 /\ (timer[c] = "late" \/ eof[c])
  /\ Drops(c)
  /\ UNCHANGED <<listenerVars, clientVars, timer, readVars, spliceVars>>

XRealityHandler(c) ==
  \/ Judges(c)
  \/ ProofAccepted(c)
  \/ ProofRefused(c)

XRealityFairness(c) ==
  /\ WF_vars(pkg = "xreality" /\ LoopAccepts(c, "peek"))
  /\ WF_vars(pkg = "xreality" /\ Judges(c))
  /\ WF_vars(pkg = "xreality" /\ (ProofAccepted(c) \/ ProofRefused(c)))
=============================================================================
