------------------------------- MODULE WebRTC -------------------------------
(***************************************************************************)
(* The WebRTC transport (webrtc/webrtc.go): Dial and the listener's        *)
(* acceptLoop, answer, Accept and Close, with the OnOpen callbacks of the  *)
(* peer connections on both sides.  The peer connections (pion) and the    *)
(* broker that carries offers and answers are outside the repository.  Any *)
(* call into them may fail, the answer may be lost, and time passes freely.*)
(***************************************************************************)
EXTENDS Tunnel

CONSTANTS
  Strays,    \* tunnels whose Dial had given up with the offer out before the listener started
  Acceptors  \* goroutines that call Accept

VARIABLES
  offer,   \* offer[t]: what the broker has: no message, the offer "sent", or "answered"
  cb,      \* cb[s][t]: the OnOpen callback
  ch,      \* ch[s][t]: a connection is in channel connCh or opened
  loop,    \* where acceptLoop is
  apc      \* apc[x]: whether acceptor x is inside Accept

vars == <<dial, offer, ans, pc, cb, ch, loop, apc, got, closed>>
dialVars == <<dial, offer>>
listenVars == <<loop, apc, closed>>

Sides == {"client", "server"}

Init ==
  /\ dial = [t \in Tunnels |-> IF t \in Strays THEN "failed" ELSE "idle"]
  /\ offer = [t \in Tunnels |-> IF t \in Strays THEN "sent" ELSE "none"]
  /\ ans = [t \in Tunnels |-> "none"]
  /\ pc = [s \in Sides |-> [t \in Tunnels |->
            IF s = "client" /\ t \in Strays THEN "closed" ELSE "none"]]
  /\ cb = [s \in Sides |-> [t \in Tunnels |-> "none"]]
  /\ ch = [s \in Sides |-> [t \in Tunnels |-> FALSE]]
  /\ loop = "next"
  /\ apc = [x \in Acceptors |-> "idle"]
  /\ got = [t \in Tunnels |-> FALSE]
  /\ closed = FALSE

PcClose(s, t) == pc' = [pc EXCEPT ![s][t] = "closed"]
-----------------------------------------------------------------------------
(* The peer connections.                                                     *)

\* The data channel opens on side s and pion starts the OnOpen callback: both
\* sides have both descriptions, or the other side has got this far before it
\* closed.
Opens(s, t) ==
  /\ \/ dial[t] = "wait" /\ \A o \in Sides : pc[o][t] = "open"
     \/ \E o \in Sides : cb[o][t] # "none"
  /\ pc[s][t] = "open"
  /\ cb[s][t] = "none"
  /\ cb' = [cb EXCEPT ![s][t] = "running"]
  /\ UNCHANGED <<dialVars, ans, pc, ch, listenVars, got>>

\* Mutant: connCh and opened are unbuffered.
CanSendUnbuffered(s, t) == IF s = "client" THEN dial[t] = "wait" ELSE ans[t] = "wait"

\* connCh and opened have room for one connection.
CanSend(s, t) == ~ch[s][t]

\* The callback detaches the channel and sends the connection.
Detaches(s, t) ==
  /\ cb[s][t] = "running"
  /\ CanSend(s, t)
  /\ cb' = [cb EXCEPT ![s][t] = "done"]
  /\ ch' = [ch EXCEPT ![s][t] = TRUE]
  /\ UNCHANGED <<dialVars, ans, pc, listenVars, got>>

\* dc.Detach fails in the callback.
DetachFails(s, t) ==
  /\ cb[s][t] = "running"
  /\ cb' = [cb EXCEPT ![s][t] = "done"]
  /\ PcClose(s, t)
  /\ UNCHANGED <<dialVars, ans, ch, listenVars, got>>
-----------------------------------------------------------------------------
(* Dial.                                                                     *)

\* Everything up to the wait for the candidates; an error closes what exists.
DialStarts(t) ==
  /\ dial[t] = "idle"
  /\ \/ /\ dial' = [dial EXCEPT ![t] = "gather"]
        /\ pc' = [pc EXCEPT !["client"][t] = "open"]
     \/ /\ dial' = [dial EXCEPT ![t] = "failed"]
        /\ PcClose("client", t)
  /\ UNCHANGED <<offer, ans, cb, ch, listenVars, got>>

\* The candidates are gathered; sig.Exchange puts the offer out.
Gathers(t) ==
  /\ dial[t] = "gather"
  /\ dial' = [dial EXCEPT ![t] = "exchange"]
  /\ offer' = [offer EXCEPT ![t] = "sent"]
  /\ UNCHANGED <<ans, pc, cb, ch, listenVars, got>>

\* sig.Exchange returns the answer and it becomes the remote description.
Answered(t) ==
  /\ dial[t] = "exchange"
  /\ offer[t] = "answered"
  /\ dial' = [dial EXCEPT ![t] = "wait"]
  /\ UNCHANGED <<offer, ans, pc, cb, ch, listenVars, got>>

\* Mutant: the peer connection is left to the garbage collector.
DialKeeps(t) == UNCHANGED pc

\* pc.Close() of every error path.
DialCleans(t) == PcClose("client", t)

\* The context ends in a select or inside Exchange, or a call returns an error.
DialGivesUp(t) ==
  /\ dial[t] \in {"gather", "exchange", "wait"}
  /\ dial' = [dial EXCEPT ![t] = "failed"]
  /\ DialCleans(t)
  /\ UNCHANGED <<offer, ans, cb, ch, listenVars, got>>

\* <-connCh
DialReturns(t) ==
  /\ dial[t] = "wait"
  /\ ch["client"][t]
  /\ dial' = [dial EXCEPT ![t] = "returned"]
  /\ ch' = [ch EXCEPT !["client"][t] = FALSE]
  /\ UNCHANGED <<offer, ans, pc, cb, listenVars, got>>
-----------------------------------------------------------------------------
(* acceptLoop and answer.                                                    *)

\* src.Next returns an offer; answer gets its peer connection or gives up.
NextOffer(t) ==
  /\ loop = "next"
  /\ offer[t] = "sent"
  /\ offer' = [offer EXCEPT ![t] = "none"]
  /\ \/ /\ ans' = [ans EXCEPT ![t] = "gather"]
        /\ pc' = [pc EXCEPT !["server"][t] = "open"]
     \/ /\ ans' = [ans EXCEPT ![t] = "ended"]
        /\ PcClose("server", t)
  /\ UNCHANGED <<dial, cb, ch, listenVars, got>>

\* src.Next returns an error: the source failed or the context ended.
NextFails ==
  /\ loop = "next"
  /\ loop' = "report"
  /\ UNCHANGED <<dialVars, ans, pc, cb, ch, apc, got, closed>>

\* <-l.ctx.Done() while the error waits for an Accept.
LoopStops ==
  /\ loop = "report"
  /\ closed
  /\ loop' = "exited"
  /\ UNCHANGED <<dialVars, ans, pc, cb, ch, apc, got, closed>>

\* The descriptions are set, the candidates gathered, the answer handed to reply.
AnswerReplies(t) ==
  /\ ans[t] = "gather"
  /\ ans' = [ans EXCEPT ![t] = "reply"]
  /\ offer' = [offer EXCEPT ![t] = "answered"]
  /\ UNCHANGED <<dial, pc, cb, ch, listenVars, got>>

\* reply returns nil; the timer starts.
ReplyReturns(t) ==
  /\ ans[t] = "reply"
  /\ ans' = [ans EXCEPT ![t] = "wait"]
  /\ UNCHANGED <<dialVars, pc, cb, ch, listenVars, got>>

\* An error before or in reply, or the context ends while candidates are gathered.
AnswerFails(t) ==
  /\ ans[t] \in {"gather", "reply"}
  /\ ans' = [ans EXCEPT ![t] = "ended"]
  /\ PcClose("server", t)
  /\ UNCHANGED <<dialVars, cb, ch, listenVars, got>>

\* <-opened: the connection is offered to Accept.
AnswerOpened(t) ==
  /\ ans[t] = "wait"
  /\ ch["server"][t]
  /\ ans' = [ans EXCEPT ![t] = "offer"]
  /\ ch' = [ch EXCEPT !["server"][t] = FALSE]
  /\ UNCHANGED <<dialVars, pc, cb, listenVars, got>>

\* Mutant: no timer, only <-l.ctx.Done() ends the wait.
AnswerDueOnClose == closed

\* <-timer.C, at any time, or <-l.ctx.Done().
AnswerDue == TRUE

AnswerTimesOut(t) ==
  /\ ans[t] = "wait"
  /\ AnswerDue
  /\ ans' = [ans EXCEPT ![t] = "ended"]
  /\ PcClose("server", t)
  /\ UNCHANGED <<dialVars, cb, ch, listenVars, got>>

\* l.conns hands the connection to an Accept.
Deliver(t, x) ==
  /\ ans[t] = "offer"
  /\ apc[x] = "wait"
  /\ ans' = [ans EXCEPT ![t] = "ended"]
  /\ apc' = [apc EXCEPT ![x] = "idle"]
  /\ got' = [got EXCEPT ![t] = TRUE]
  /\ UNCHANGED <<dialVars, pc, cb, ch, loop, closed>>

\* Mutant: what nobody accepts is dropped without c.Close().
OfferDropped(t) == UNCHANGED pc

\* c.Close() closes the channel and its peer connection.
ConnClose(t) == PcClose("server", t)

\* <-l.ctx.Done() while the connection waits for an Accept.
OfferClosed(t) ==
  /\ ans[t] = "offer"
  /\ closed
  /\ ans' = [ans EXCEPT ![t] = "ended"]
  /\ ConnClose(t)
  /\ UNCHANGED <<dialVars, cb, ch, listenVars, got>>
-----------------------------------------------------------------------------
(* Accept and Close.                                                         *)

AcceptCalled(x) ==
  /\ apc[x] = "idle"
  /\ apc' = [apc EXCEPT ![x] = "wait"]
  /\ UNCHANGED <<dialVars, ans, pc, cb, ch, loop, got, closed>>

\* Accept returns the error of src.Next, and acceptLoop ends.
AcceptFails(x) ==
  /\ loop = "report"
  /\ apc[x] = "wait"
  /\ loop' = "exited"
  /\ apc' = [apc EXCEPT ![x] = "idle"]
  /\ UNCHANGED <<dialVars, ans, pc, cb, ch, got, closed>>

\* <-l.ctx.Done(): Accept returns net.ErrClosed.
AcceptClosed(x) ==
  /\ apc[x] = "wait"
  /\ closed
  /\ apc' = [apc EXCEPT ![x] = "idle"]
  /\ UNCHANGED <<dialVars, ans, pc, cb, ch, loop, got, closed>>

CloseCalled ==
  /\ closed' = TRUE
  /\ UNCHANGED <<dialVars, ans, pc, cb, ch, loop, apc, got>>
-----------------------------------------------------------------------------
Dial(t) ==
  \/ DialStarts(t)
  \/ Gathers(t)
  \/ Answered(t)
  \/ DialGivesUp(t)
  \/ DialReturns(t)

Answer(t) ==
  \/ AnswerReplies(t)
  \/ ReplyReturns(t)
  \/ AnswerFails(t)
  \/ AnswerOpened(t)
  \/ AnswerTimesOut(t)
  \/ OfferClosed(t)

Next ==
  \/ \E t \in Tunnels : Dial(t) \/ NextOffer(t) \/ Answer(t)
  \/ \E s \in Sides, t \in Tunnels : Opens(s, t) \/ Detaches(s, t) \/ DetachFails(s, t)
  \/ \E t \in Tunnels, x \in Acceptors : Deliver(t, x)
  \/ \E x \in Acceptors : AcceptCalled(x) \/ AcceptFails(x) \/ AcceptClosed(x)
  \/ NextFails
  \/ LoopStops
  \/ CloseCalled

\* Dial's context and answer's timer run out, the callbacks run, reply and
\* src.Next return once the context has ended, and the server calls Accept
\* again and again until Close.  Nothing makes a data channel open.
Fairness ==
  /\ \A t \in Tunnels :
       /\ WF_vars(Dial(t) /\ dial[t] # "idle")
       /\ WF_vars(Answer(t))
       /\ SF_vars(\E x \in Acceptors : Deliver(t, x))
  /\ \A s \in Sides, t \in Tunnels : WF_vars(Detaches(s, t))
  /\ \A x \in Acceptors : WF_vars(~closed /\ AcceptCalled(x)) /\ WF_vars(AcceptClosed(x))
  /\ WF_vars(closed /\ NextFails)
  /\ WF_vars(LoopStops)

Spec == Init /\ [][Next]_vars
FairSpec == Spec /\ Fairness
-----------------------------------------------------------------------------
(* Properties.                                                               *)

\* The two ends agree in the end: a tunnel Dial has returned is accepted or the
\* server has closed its end of it; a tunnel that was accepted is returned by
\* Dial or Dial has closed its end.
BothEnds ==
  \A t \in Tunnels :
    /\ dial[t] = "returned" ~> got[t] \/ pc["server"][t] = "closed"
    /\ got[t] ~> dial[t] = "returned" \/ pc["client"][t] = "closed"

\* An OnOpen callback always ends, also when the data channel opens after Dial
\* or answer has stopped waiting for it; after Close the accept loop ends, every
\* blocked Accept returns, and no answer goroutine keeps its peer connection, as
\* Handover promises.
GoroutinesEnd ==
  /\ TH!Settled
  /\ \A s \in Sides, t \in Tunnels : cb[s][t] = "running" ~> cb[s][t] = "done"
  /\ closed ~> loop = "exited"
  /\ \A x \in Acceptors : closed /\ apc[x] = "wait" ~> apc[x] = "idle"
=============================================================================
