------------------------------- MODULE Tunnel -------------------------------
(***************************************************************************)
(* The two ends of the tunnels of the WebRTC transport (webrtc/webrtc.go)  *)
(* as its caller sees them, and what Dial and Accept promise about them.   *)
(* WebRTC has the steps.                                                   *)
(***************************************************************************)
CONSTANT Tunnels  \* calls of Dial, each with its own offer

VARIABLES
  dial,    \* dial[t]: where Dial is
  ans,     \* ans[t]: where the answer goroutine is
  pc,      \* pc[s][t]: the peer connection of side s, "client" or "server"
  got,     \* got[t]: Accept has returned the connection of t
  closed   \* the context of the listener is cancelled

\* What Handover calls the state of the connection of answer t: "held" as long as
\* the goroutine is there to close it; "lost" if it is open and nobody is, or if
\* Accept has returned it closed.
TunnelState(t) ==
  CASE ans[t] = "none" -> "new"
    [] ans[t] \notin {"none", "ended"} /\ ~got[t] -> "held"
    [] ans[t] = "ended" /\ got[t] /\ pc["server"][t] = "open" -> "owned"
    [] ans[t] = "ended" /\ ~got[t] /\ pc["server"][t] = "closed" -> "gone"
    [] OTHER -> "lost"

TH == INSTANCE Handover WITH Conns <- Tunnels, st <- [t \in Tunnels |-> TunnelState(t)]

\* Every peer connection answer makes is handed to one Accept, open, or closed,
\* whichever of callback, timer, Accept and Close comes first.
TunnelHandover == TH!Spec

\* Dial returns an open tunnel or has closed its peer connection.
DialClean ==
  \A t \in Tunnels :
    /\ dial[t] = "failed" => pc["client"][t] = "closed"
    /\ dial[t] = "returned" => pc["client"][t] = "open"
=============================================================================
