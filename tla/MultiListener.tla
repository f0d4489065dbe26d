--------------------------- MODULE MultiListener ----------------------------
(***************************************************************************)
(* Port hopping (hop/hop.go): MultiListener binds every address, runs one  *)
(* acceptLoop per address and hands what they accept to Accept over an     *)
(* unbuffered channel; clients of Dialer connect to the address of their   *)
(* time window.  The base listeners are outside this package: each keeps a *)
(* backlog, and its Accept may fail although it stays open.                *)
(***************************************************************************)
EXTENDS Integers

CONSTANTS
  N,          \* number of addresses
  Conns,      \* connections clients may make
  Acceptors,  \* goroutines that call Accept
  Closers,    \* goroutines that call Close
  Maker,      \* the goroutine that calls MultiListener
  Windows,    \* time windows clients dial in; negative before 1970
  BindFaults, \* listen may fail
  AcceptFaults \* Accept of a base listener may fail although it is open

ASSUME HopAssumption ==
  /\ N \in Nat \ {0}
  /\ Maker \notin Closers
  /\ Windows \subseteq Int
  /\ BindFaults \in BOOLEAN
  /\ AcceptFaults \in BOOLEAN

Addrs == 1..N
Callers == Closers \cup {Maker}

VARIABLES
  phase,  \* of the constructor: "bind", "failed" after an error, or "up"
  lis,    \* lis[a]: base listener of address a
  lpc,    \* lpc[a]: where acceptLoop of a is
  offer,  \* offer[a]: what it sends on m.conns: {c}, or {} for an error
  conn,   \* conn[c]: where connection c is
  at,     \* at[c]: the address it was made to, 0 before
  apc,    \* apc[x]: whether acceptor x is inside Accept
  done,   \* channel done is closed
  cpc     \* cpc[z]: the listener the loop of Close of z is at, 0 before Close

vars == <<phase, lis, lpc, offer, conn, at, apc, done, cpc>>

TypeOK ==
  /\ phase \in {"bind", "failed", "up"}
  /\ lis \in [Addrs -> {"none", "open", "closed"}]
  /\ lpc \in [Addrs -> {"none", "accept", "offer", "exited"}]
  /\ offer \in [Addrs -> {{}} \cup {{c} : c \in Conns}]
  /\ conn \in [Conns -> {"none", "refused", "backlog", "held", "delivered", "closed"}]
  /\ at \in [Conns -> 0..N]
  /\ apc \in [Acceptors -> {"idle", "wait"}]
  /\ done \in BOOLEAN
  /\ cpc \in [Callers -> 0..N + 1]

Init ==
  /\ phase = "bind"
  /\ lis = [a \in Addrs |-> "none"]
  /\ lpc = [a \in Addrs |-> "none"]
  /\ offer = [a \in Addrs |-> {}]
  /\ conn = [c \in Conns |-> "none"]
  /\ at = [c \in Conns |-> 0]
  /\ apc = [x \in Acceptors |-> "idle"]
  /\ done = FALSE
  /\ cpc = [z \in Callers |-> 0]
-----------------------------------------------------------------------------
(* The constructor.                                                          *)

\* listen(a) for the first address not yet bound.
Bind(a) ==
  /\ phase = "bind"
  /\ lis[a] = "none"
  /\ \A b \in 1..a - 1 : lis[b] = "open"
  /\ lis' = [lis EXCEPT ![a] = "open"]
  /\ UNCHANGED <<phase, lpc, offer, conn, at, apc, done, cpc>>

\* close(m.done), and the loop over m.lis begins.
CloseBegins(z) ==
  /\ cpc[z] = 0
  /\ cpc' = [cpc EXCEPT ![z] = 1]
  /\ done' = TRUE

\* listen(a) fails: the constructor calls ml.Close().
BindFails ==
  /\ BindFaults
  /\ phase = "bind"
  /\ \E a \in Addrs : lis[a] = "none"
  /\ phase' = "failed"
  /\ CloseBegins(Maker)
  /\ UNCHANGED <<lis, lpc, offer, conn, at, apc>>

\* All addresses are bound: the loops start.
Starts ==
  /\ phase = "bind"
  /\ \A a \in Addrs : lis[a] = "open"
  /\ phase' = "up"
  /\ lpc' = [a \in Addrs |-> "accept"]
  /\ UNCHANGED <<lis, offer, conn, at, apc, done, cpc>>
-----------------------------------------------------------------------------
(* Clients.                                                                  *)

\* The % operator of Go truncates toward zero.
GoMod(x, n) == IF x >= 0 THEN x % n ELSE -((-x) % n)

\* Mutant: the index is the plain remainder.
HopIndexRaw(w) == GoMod(w, N)

\* The index Dialer computes for window w.
HopIndex(w) == GoMod(GoMod(w, N) + N, N)

Open == {a \in Addrs : lis[a] = "open"}

\* A client dials in window w; a closed address refuses it.
Dial(c, w) ==
  LET a == HopIndex(w) + 1 IN
  /\ conn[c] = "none"
  /\ at' = [at EXCEPT ![c] = a]
  /\ conn' = [conn EXCEPT ![c] = IF a \in Open THEN "backlog" ELSE "refused"]
  /\ UNCHANGED <<phase, lis, lpc, offer, apc, done, cpc>>
-----------------------------------------------------------------------------
(* acceptLoop.                                                               *)

\* l.Accept returns a connection.
LoopAccepts(a, c) ==
  /\ lpc[a] = "accept"
  /\ lis[a] = "open"
  /\ conn[c] = "backlog"
  /\ at[c] = a
  /\ conn' = [conn EXCEPT ![c] = "held"]
  /\ offer' = [offer EXCEPT ![a] = {c}]
  /\ lpc' = [lpc EXCEPT ![a] = "offer"]
  /\ UNCHANGED <<phase, lis, at, apc, done, cpc>>

\* l.Accept returns an error.
LoopAcceptFails(a) ==
  /\ lpc[a] = "accept"
  /\ lis[a] = "closed" \/ AcceptFaults
  /\ offer' = [offer EXCEPT ![a] = {}]
  /\ lpc' = [lpc EXCEPT ![a] = "offer"]
  /\ UNCHANGED <<phase, lis, conn, at, apc, done, cpc>>

\* m.conns hands the offer to an Accept; the loop ends if it was an error.
Deliver(a, x) ==
  /\ lpc[a] = "offer"
  /\ apc[x] = "wait"
  /\ apc' = [apc EXCEPT ![x] = "idle"]
  /\ conn' = [c \in Conns |-> IF c \in offer[a] THEN "delivered" ELSE conn[c]]
  /\ lpc' = [lpc EXCEPT ![a] = IF offer[a] = {} THEN "exited" ELSE "accept"]
  /\ offer' = [offer EXCEPT ![a] = {}]
  /\ UNCHANGED <<phase, lis, at, done, cpc>>

\* Mutant: the loop returns without closing what it holds.
ConnKept(S) == UNCHANGED conn

\* r.c.Close() of what the loop holds, if it holds a connection.
ConnClose(S) == conn' = [c \in Conns |-> IF c \in S THEN "closed" ELSE conn[c]]

\* <-m.done: what the loop holds is closed.
LoopStops(a) ==
  /\ lpc[a] = "offer"
  /\ done
  /\ ConnClose(offer[a])
  /\ lpc' = [lpc EXCEPT ![a] = "exited"]
  /\ offer' = [offer EXCEPT ![a] = {}]
  /\ UNCHANGED <<phase, lis, at, apc, done, cpc>>
-----------------------------------------------------------------------------
(* Accept and Close of the fan-in listener.                                  *)

AcceptCalled(x) ==
  /\ phase = "up"
  /\ apc[x] = "idle"
  /\ apc' = [apc EXCEPT ![x] = "wait"]
  /\ UNCHANGED <<phase, lis, lpc, offer, conn, at, done, cpc>>

\* <-m.done: Accept returns net.ErrClosed.
AcceptClosed(x) ==
  /\ apc[x] = "wait"
  /\ done
  /\ apc' = [apc EXCEPT ![x] = "idle"]
  /\ UNCHANGED <<phase, lis, lpc, offer, conn, at, done, cpc>>

CloseCalled(z) ==
  /\ phase = "up"
  /\ CloseBegins(z)
  /\ UNCHANGED <<phase, lis, lpc, offer, conn, at, apc>>

\* m.lis: what was bound, in order.
Bound == {a \in Addrs : lis[a] # "none"}

\* l.Close(): the connections of the backlog are reset; an error if it was closed.
LisClose(a) ==
  /\ lis' = [lis EXCEPT ![a] = "closed"]
  /\ conn' = [c \in Conns |-> IF conn[c] = "backlog" /\ at[c] = a THEN "closed" ELSE conn[c]]

\* Mutants: Close returns at the first error; it closes the first listener only.
AtErrorStops(a) == IF lis[a] = "closed" THEN N + 1 ELSE a + 1
AfterFirstStops(a) == N + 1

\* Where the loop goes from listener a: an error is kept and does not end it.
After(a) == a + 1

\* One turn of the loop over m.lis.
CloseNext(z) ==
  /\ cpc[z] \in Bound
  /\ LisClose(cpc[z])
  /\ cpc' = [cpc EXCEPT ![z] = After(@)]
  /\ UNCHANGED <<phase, lpc, offer, at, apc, done>>

\* The loop is over: Close returns, and with Maker's the constructor its error.
Returned(z) == cpc[z] # 0 /\ cpc[z] \notin Bound
-----------------------------------------------------------------------------
Loop(a) ==
  \/ \E c \in Conns : LoopAccepts(a, c)
  \/ LoopAcceptFails(a)
  \/ LoopStops(a)

Next ==
  \/ \E a \in Addrs : Bind(a)
  \/ BindFails
  \/ Starts
  \/ \E c \in Conns, w \in Windows : Dial(c, w)
  \/ \E a \in Addrs : Loop(a)
  \/ \E a \in Addrs, x \in Acceptors : Deliver(a, x)
  \/ \E x \in Acceptors : AcceptCalled(x) \/ AcceptClosed(x)
  \/ \E z \in Closers : CloseCalled(z)
  \/ \E z \in Callers : CloseNext(z)

Spec == Init /\ [][Next]_vars

\* The constructor finishes, goroutines that can run do run, the server calls
\* Accept again and again until Close, and a loop that offers something is
\* served in turn.
Fairness ==
  /\ WF_vars((\E a \in Addrs : Bind(a)) \/ BindFails \/ Starts)
  /\ \A a \in Addrs :
       /\ \A c \in Conns : SF_vars(LoopAccepts(a, c))
       /\ WF_vars(lis[a] = "closed" /\ LoopAcceptFails(a))
       /\ WF_vars(LoopStops(a))
       /\ SF_vars(\E x \in Acceptors : Deliver(a, x))
  /\ \A x \in Acceptors : WF_vars(~done /\ AcceptCalled(x)) /\ WF_vars(AcceptClosed(x))
  /\ \A z \in Callers : WF_vars(CloseNext(z))

FairSpec == Spec /\ Fairness
-----------------------------------------------------------------------------
(* Properties.                                                               *)

\* What Handover calls the state of connection c: the base listener's until a
\* loop holds it; "lost" if it was accepted and nobody has it.
State(c) ==
  CASE conn[c] \in {"none", "backlog"}   -> "new"
    [] conn[c] \in {"refused", "closed"} -> "gone"
    [] conn[c] = "delivered" -> "owned"
    [] OTHER -> IF \E a \in Addrs : c \in offer[a] /\ lpc[a] = "offer" THEN "held" ELSE "lost"

H == INSTANCE Handover WITH st <- [c \in Conns |-> State(c)], closed <- done

\* Every connection a loop accepts is handed to one Accept or closed, also when
\* Close comes between the two.
HandoverSpec == H!Spec

\* When a Close returns no address is bound and no client waits in a backlog:
\* wherever in the list another Close is that has closed some of the listeners
\* before it, and also when it is the Close of a constructor that could bind only
\* a part of the list, to which clients may have connected already.
NothingBound ==
  \A z \in Callers : Returned(z) =>
    /\ Open = {}
    /\ \A c \in Conns : conn[c] # "backlog"

\* Every dial of every time window goes to one of the bound addresses, so that
\* no client is refused while the listener is up.
HopLands ==
  /\ \A c \in Conns : conn[c] # "none" => at[c] \in Addrs
  /\ phase = "up" /\ ~done => \A a \in Addrs : lis[a] = "open"

\* The doc of MultiListener: a client is served wherever it connects, as long
\* as the listener is not closed.
ServedAnywhere ==
  \A c \in Conns : conn[c] = "backlog" ~> conn[c] \in {"delivered", "closed"} \/ done

\* After Close every loop goroutine ends, whether it was accepting, offering a
\* connection nobody takes, or offering an error, and every blocked Accept returns;
\* so no connection is kept waiting, as Handover promises.
CloseReleases ==
  /\ H!Settled
  /\ done ~> \A a \in Addrs : lpc[a] \in {"none", "exited"}
  /\ \A x \in Acceptors : done /\ apc[x] = "wait" ~> apc[x] = "idle"
=============================================================================
