------------------------------ MODULE Reality -------------------------------
(***************************************************************************)
(* The listener of package reality (reality.go): a ClientHello with a      *)
(* foreign SNI is passed through raw, every other connection terminates    *)
(* TLS here and is a tunnel if its first bytes are the token, and else is  *)
(* reverse-proxied to the fallback site.                                   *)
(***************************************************************************)
EXTENDS GuardedListener

CONSTANTS
  SniCheck,  \* len(ServerNames) > 0
  Fallback   \* a fallback site is configured

ASSUME RealityAssumption == {SniCheck, Fallback} \subseteq BOOLEAN

\* serverNameAllowed.
ServerNameAllowed(c) == kind[c].name = "ours"

\* A record may end right in front of the extensions of its hello, which then
\* parses and names nobody.
CutShort(c) == PeekedAll(c) /\ kind[c].hello = "part"

\* The SNI stage: only a hello that parses and does not name us is passed
\* through; a peek that failed falls through to TLS.
Decides(c) ==
  /\ PeekEnds(c)
  /\ \/ /\ CutShort(c) \/ (PeekOk(c) /\ ~ServerNameAllowed(c))
        /\ Passthrough(c)
     \/ /\ PeekOk(c) => ServerNameAllowed(c)
        /\ pc' = [pc EXCEPT ![c] = "tls"]
        /\ UNCHANGED <<listenerVars, clientVars, timer, readVars, open, spliceVars>>

\* ReadFull returns: the token is complete, or the read failed.
TokenEnds(c) ==
  /\ pc[c] = "secret"
  /\ SecretRead(c) = SecretLen \/ ReadFails(c)

\* Mutant: any complete token will do.
AuthedBlind(c) == SecretRead(c) = SecretLen

Authed(c) == SecretLen > 0 /\ SecretRead(c) = SecretLen /\ kind[c].secret = "right"

\* The deadline is cleared and the tunnel offered to Accept.
TokenAccepted(c) ==
  /\ TokenEnds(c)
  /\ Authed(c)
  /\ timer' = [timer EXCEPT ![c] = ClearDeadline(c)]
  /\ pc' = [pc EXCEPT ![c] = "offer"]
  /\ UNCHANGED <<listenerVars, clientVars, readVars, open, spliceVars>>

\* reverseProxy: closed at once without a fallback, else that is dialled.
TokenRefused(c) ==
  /\ TokenEnds(c)
  /\ ~Authed(c)
  /\ timer' = [timer EXCEPT ![c] = ClearDeadline(c)]
  /\ IF Fallback
     THEN /\ pc' = [pc EXCEPT ![c] = "dial"]
          /\ route' = [route EXCEPT ![c] = "proxy"]
          /\ UNCHANGED open
     ELSE /\ Drops(c)
          /\ UNCHANGED route
  /\ UNCHANGED <<listenerVars, clientVars, readVars, dst, out, up>>

\* Mutant: the whole token buffer is replayed, filled or not.
ConsumedBuffer(c) ==
  [i \in 1..SecretLen |-> IF i <= SecretRead(c) THEN rd[c][ShakeLen + i] ELSE 0]

\* tok[:n]
Consumed(c) == SubSeq(rd[c], ShakeLen + 1, Len(rd[c]))

\* dst.Write(tok[:n]), then the splice.
Replays(c) ==
  /\ pc[c] = "replay"
  /\ pc' = [pc EXCEPT ![c] = "splice"]
  /\ out' = [out EXCEPT ![c] = Consumed(c)]
  /\ up' = [up EXCEPT ![c] = TRUE]
  /\ UNCHANGED <<listenerVars, clientVars, timer, readVars, open, dst, route>>

\* That write fails: both ends are closed.
ReplayFails(c) ==
  /\ DialFaults
  /\ pc[c] = "replay"
  /\ SecretRead(c) > 0
  /\ pc' = [pc EXCEPT ![c] = "ended"]
  /\ CloseBoth(c)
  /\ UNCHANGED <<listenerVars, clientVars, timer, readVars, route, out, up>>

\* The handler begins with the peek if there is an SNI stage.
RealityAccepts(c) == LoopAccepts(c, IF SniCheck THEN "peek" ELSE "tls")

RealityHandler(c) ==
  \/ Decides(c)
  \/ TokenAccepted(c)
  \/ TokenRefused(c)
  \/ Replays(c)
  \/ ReplayFails(c)

RealityFairness(c) ==
  /\ WF_vars(pkg = "reality" /\ RealityAccepts(c))
  /\ WF_vars(pkg = "reality" /\ Decides(c))
  /\ WF_vars(pkg = "reality" /\ (TokenAccepted(c) \/ TokenRefused(c)))
  /\ WF_vars(Replays(c) \/ ReplayFails(c))
=============================================================================
