--------------------------- MODULE HandoverProofs ---------------------------
(***************************************************************************)
(* Proofs about the two components that implement Handover: MultiListener, *)
(* for every number of addresses, connections, acceptors and closers and   *)
(* every set of time windows, and WebRTC, for every number of tunnels,     *)
(* stray offers and acceptors.                                             *)
(***************************************************************************)
EXTENDS MultiListener, Tunnel, TLAPS

\* A loop has something to offer only in its select, and what it offers it has
\* accepted at its own address; a connection that is held is held by a loop.
HeldInv ==
  /\ \A a \in Addrs, c \in Conns :
       c \in offer[a] => lpc[a] = "offer" /\ conn[c] = "held" /\ at[c] = a
  /\ \A c \in Conns : conn[c] = "held" => \E a \in Addrs : c \in offer[a]

\* The loops run only once the constructor has returned, nobody is in Close while
\* addresses are being bound, and only Close closes a base listener.
PhaseInv ==
  /\ phase # "up" => \A a \in Addrs : lpc[a] = "none"
  /\ phase = "up" /\ ~done => \A a \in Addrs : lis[a] = "open"
  /\ \A z \in Callers : cpc[z] # 0 => phase # "bind" /\ done

\* The bound addresses are the first ones of the list, every Close has closed the
\* ones its loop is past, and a backlog is one of an open listener.
CloseInv ==
  /\ \A a, b \in Addrs : b < a /\ lis[b] = "none" => lis[a] = "none"
  /\ \A z \in Callers, a \in Addrs : a < cpc[z] => lis[a] # "open"
  /\ \A c \in Conns : conn[c] = "backlog" => lis[at[c]] = "open"

\* A connection that was made was made to an address.
DialInv == \A c \in Conns : conn[c] # "none" => at[c] \in Addrs

IInv == TypeOK /\ HeldInv /\ PhaseInv /\ CloseInv /\ DialInv
-----------------------------------------------------------------------------
\* Go's remainder by a positive number lies strictly between minus it and it,
\* and is not negative for what is not negative.
LEMMA GoModRange ==
  ASSUME NEW x \in Int, NEW n \in Nat \ {0}
  PROVE  /\ GoMod(x, n) \in -(n - 1)..(n - 1)
         /\ x >= 0 => GoMod(x, n) \in 0..(n - 1)
BY DEF GoMod

\* The index of every window, before the epoch too, is that of an address.
LEMMA HopIndexRange ==
  ASSUME NEW w \in Windows
  PROVE  HopIndex(w) + 1 \in Addrs
<1>1. w \in Int /\ N \in Nat \ {0}
  BY HopAssumption
<1>2. GoMod(w, N) \in -(N - 1)..(N - 1)
  BY <1>1, GoModRange
<1>3. GoMod(w, N) + N \in Int /\ GoMod(w, N) + N >= 0
  BY <1>1, <1>2
<1>4. GoMod(GoMod(w, N) + N, N) \in 0..(N - 1)
  BY <1>1, <1>3, GoModRange
<1>. QED
  BY <1>1, <1>4 DEF HopIndex, Addrs

\* The initial state satisfies the inductive invariant.
LEMMA InitIInv == Init => IInv
<1>. SUFFICES ASSUME Init PROVE IInv
  OBVIOUS
<1>1. TypeOK
  <2>1. /\ at \in [Conns -> 0..N] /\ cpc \in [Callers -> 0..N + 1]
        /\ offer \in [Addrs -> {{}} \cup {{c} : c \in Conns}]
    BY HopAssumption DEF Init
  <2>. QED
    BY <2>1 DEF Init, TypeOK
<1>2. HeldInv /\ PhaseInv /\ DialInv
  BY DEF Init, HeldInv, PhaseInv, DialInv
<1>3. CloseInv
  BY DEF Init, CloseInv, Addrs
<1>. QED
  BY <1>1, <1>2, <1>3 DEF IInv

\* Every step keeps the types.
LEMMA TypeStep ==
  ASSUME TypeOK, Next
  PROVE  TypeOK'
<1>. USE DEF TypeOK
<1>1. ASSUME NEW a \in Addrs, Bind(a) PROVE TypeOK'
  BY <1>1 DEF Bind
<1>2. CASE Starts
  BY <1>2 DEF Starts
<1>3. ASSUME NEW z \in Callers, CloseBegins(z) PROVE cpc' \in [Callers -> 0..N + 1] /\ done' = TRUE
  BY <1>3, HopAssumption DEF CloseBegins
<1>4. ASSUME NEW c \in Conns, NEW w \in Windows, Dial(c, w) PROVE TypeOK'
  <2>1. HopIndex(w) + 1 \in 0..N
    BY HopIndexRange, HopAssumption DEF Addrs
  <2>. QED
    BY <1>4, <2>1 DEF Dial
<1>5. ASSUME NEW a \in Addrs, Loop(a) PROVE TypeOK'
  <2>1. offer' \in [Addrs -> {{}} \cup {{c} : c \in Conns}]
    BY <1>5 DEF Loop, LoopAccepts, LoopAcceptFails, LoopStops
  <2>2. conn' \in [Conns -> {"none", "refused", "backlog", "held", "delivered", "closed"}]
    BY <1>5 DEF Loop, LoopAccepts, LoopAcceptFails, LoopStops, ConnClose
  <2>. QED
    BY <1>5, <2>1, <2>2 DEF Loop, LoopAccepts, LoopAcceptFails, LoopStops
<1>6. ASSUME NEW a \in Addrs, NEW x \in Acceptors, Deliver(a, x) PROVE TypeOK'
  <2>1. offer' \in [Addrs -> {{}} \cup {{c} : c \in Conns}]
    BY <1>6 DEF Deliver
  <2>2. conn' \in [Conns -> {"none", "refused", "backlog", "held", "delivered", "closed"}]
    BY <1>6 DEF Deliver
  <2>. QED
    BY <1>6, <2>1, <2>2 DEF Deliver
<1>7. ASSUME NEW x \in Acceptors, AcceptCalled(x) \/ AcceptClosed(x) PROVE TypeOK'
  BY <1>7 DEF AcceptCalled, AcceptClosed
<1>8. CASE BindFails \/ \E z \in Closers : CloseCalled(z)
  BY <1>3, <1>8 DEF BindFails, CloseCalled, Callers
<1>9. ASSUME NEW z \in Callers, CloseNext(z) PROVE TypeOK'
  <2>1. lis' \in [Addrs -> {"none", "open", "closed"}]
    BY <1>9 DEF CloseNext, LisClose
  <2>2. conn' \in [Conns -> {"none", "refused", "backlog", "held", "delivered", "closed"}]
    BY <1>9 DEF CloseNext, LisClose
  <2>3. After(cpc[z]) \in 0..N + 1
    BY <1>9, HopAssumption DEF CloseNext, Bound, Addrs, After
  <2>. QED
    BY <1>9, <2>1, <2>2, <2>3 DEF CloseNext
<1>. QED
  BY <1>1, <1>2, <1>4, <1>5, <1>6, <1>7, <1>8, <1>9 DEF Next

\* Every step keeps what relates offers to held connections.
LEMMA HeldStep ==
  ASSUME TypeOK, HeldInv, PhaseInv, Next
  PROVE  HeldInv'
<1>. USE DEF TypeOK, HeldInv
<1>1. ASSUME NEW a \in Addrs, Bind(a) PROVE HeldInv'
  BY <1>1 DEF Bind
<1>2. CASE Starts
  BY <1>2 DEF Starts, PhaseInv
<1>3. CASE BindFails \/ \E z \in Closers : CloseCalled(z)
  BY <1>3 DEF BindFails, CloseCalled
<1>4. ASSUME NEW c \in Conns, NEW w \in Windows, Dial(c, w) PROVE HeldInv'
  BY <1>4 DEF Dial
<1>5. ASSUME NEW a \in Addrs, NEW c \in Conns, LoopAccepts(a, c) PROVE HeldInv'
  BY <1>5 DEF LoopAccepts
<1>6. ASSUME NEW a \in Addrs, LoopAcceptFails(a) PROVE HeldInv'
  BY <1>6 DEF LoopAcceptFails
<1>7. ASSUME NEW a \in Addrs, LoopStops(a) PROVE HeldInv'
  BY <1>7 DEF LoopStops, ConnClose
<1>8. ASSUME NEW a \in Addrs, NEW x \in Acceptors, Deliver(a, x) PROVE HeldInv'
  BY <1>8 DEF Deliver
<1>9. ASSUME NEW x \in Acceptors, AcceptCalled(x) \/ AcceptClosed(x) PROVE HeldInv'
  BY <1>9 DEF AcceptCalled, AcceptClosed
<1>10. ASSUME NEW z \in Callers, CloseNext(z) PROVE HeldInv'
  BY <1>10 DEF CloseNext, LisClose
<1>. QED
  BY <1>1, <1>2, <1>3, <1>4, <1>5, <1>6, <1>7, <1>8, <1>9, <1>10 DEF Next, Loop

\* Every step keeps what holds of the constructor's phases, and every dial goes
\* to an address.
LEMMA PhaseStep ==
  ASSUME TypeOK, HeldInv, PhaseInv, DialInv, Next
  PROVE  PhaseInv' /\ DialInv'
<1>. USE DEF TypeOK, PhaseInv, DialInv
<1>1. ASSUME NEW a \in Addrs, Bind(a) PROVE PhaseInv' /\ DialInv'
  BY <1>1 DEF Bind
<1>2. CASE Starts
  BY <1>2 DEF Starts
<1>3. CASE BindFails \/ \E z \in Closers : CloseCalled(z)
  BY <1>3 DEF BindFails, CloseCalled, CloseBegins
<1>4. ASSUME NEW c \in Conns, NEW w \in Windows, Dial(c, w) PROVE PhaseInv' /\ DialInv'
  BY <1>4, HopIndexRange DEF Dial
<1>5. ASSUME NEW a \in Addrs, Loop(a) PROVE PhaseInv' /\ DialInv'
  BY <1>5 DEF Loop, LoopAccepts, LoopAcceptFails, LoopStops, ConnClose, HeldInv
<1>6. ASSUME NEW a \in Addrs, NEW x \in Acceptors, Deliver(a, x) PROVE PhaseInv' /\ DialInv'
  BY <1>6 DEF Deliver, HeldInv
<1>7. ASSUME NEW x \in Acceptors, AcceptCalled(x) \/ AcceptClosed(x)
      PROVE  PhaseInv' /\ DialInv'
  BY <1>7 DEF AcceptCalled, AcceptClosed
<1>8. ASSUME NEW z \in Callers, CloseNext(z) PROVE PhaseInv' /\ DialInv'
  <2>1. cpc[z] # 0 /\ phase # "bind" /\ done
    BY <1>8, HopAssumption DEF CloseNext, Bound, Addrs
  <2>2. PhaseInv'
    BY <1>8, <2>1 DEF CloseNext
  <2>3. DialInv'
    BY <1>8 DEF CloseNext, LisClose
  <2>. QED
    BY <2>2, <2>3
<1>. QED
  BY <1>1, <1>2, <1>3, <1>4, <1>5, <1>6, <1>7, <1>8 DEF Next

\* Every step keeps what holds of the listeners and the loops of Close.
LEMMA CloseStep ==
  ASSUME TypeOK, HeldInv, PhaseInv, CloseInv, DialInv, Next
  PROVE  CloseInv'
<1>. USE HopAssumption DEF TypeOK, CloseInv, Addrs
<1>1. ASSUME NEW a \in Addrs, Bind(a) PROVE CloseInv'
  BY <1>1 DEF Bind, PhaseInv
<1>2. CASE Starts
  BY <1>2 DEF Starts
<1>3. CASE BindFails \/ \E z \in Closers : CloseCalled(z)
  BY <1>3 DEF BindFails, CloseCalled, CloseBegins
<1>4. ASSUME NEW c \in Conns, NEW w \in Windows, Dial(c, w) PROVE CloseInv'
  BY <1>4, HopIndexRange DEF Dial, Open
<1>5. ASSUME NEW a \in Addrs, Loop(a) PROVE CloseInv'
  <2>1. UNCHANGED <<lis, cpc, at>>
    BY <1>5 DEF Loop, LoopAccepts, LoopAcceptFails, LoopStops
  <2>2. \A c \in Conns : conn'[c] = "backlog" => conn[c] = "backlog"
    BY <1>5 DEF Loop, LoopAccepts, LoopAcceptFails, LoopStops, ConnClose
  <2>. QED
    BY <2>1, <2>2
<1>6. ASSUME NEW a \in Addrs, NEW x \in Acceptors, Deliver(a, x) PROVE CloseInv'
  BY <1>6 DEF Deliver
<1>7. ASSUME NEW x \in Acceptors, AcceptCalled(x) \/ AcceptClosed(x) PROVE CloseInv'
  BY <1>7 DEF AcceptCalled, AcceptClosed
<1>8. ASSUME NEW z \in Callers, CloseNext(z) PROVE CloseInv'
  <2>1. /\ cpc[z] \in Addrs /\ lis[cpc[z]] # "none"
        /\ lis' = [lis EXCEPT ![cpc[z]] = "closed"]
        /\ cpc' = [cpc EXCEPT ![z] = cpc[z] + 1]
    BY <1>8 DEF CloseNext, LisClose, Bound, After
  <2>2. \A a, b \in Addrs : b < a /\ lis'[b] = "none" => lis'[a] = "none"
    BY <2>1
  <2>3. ASSUME NEW y \in Callers, NEW a \in Addrs, a < cpc'[y] PROVE lis'[a] # "open"
    BY <2>1, <2>3
  <2>4. \A c \in Conns : conn'[c] = "backlog" => lis'[at'[c]] = "open"
    BY <1>8, <2>1 DEF CloseNext, LisClose, DialInv
  <2>. QED
    BY <2>2, <2>3, <2>4
<1>. QED
  BY <1>1, <1>2, <1>3, <1>4, <1>5, <1>6, <1>7, <1>8 DEF Next

\* IInv is inductive.
LEMMA NextIInv == IInv /\ [Next]_vars => IInv'
<1>1. ASSUME IInv, Next PROVE IInv'
  BY <1>1, TypeStep, HeldStep, PhaseStep, CloseStep DEF IInv
<1>2. ASSUME IInv, UNCHANGED vars PROVE IInv'
  BY <1>2 DEF IInv, TypeOK, HeldInv, PhaseInv, CloseInv, DialInv, vars
<1>. QED
  BY <1>1, <1>2

\* IInv holds in every reachable state.
LEMMA Invariance == Spec => []IInv
BY InitIInv, NextIInv, PTL DEF Spec
-----------------------------------------------------------------------------
\* However many addresses there are, whichever fails to bind and however many
\* Closes overlap: a Close that has returned, the one of a constructor that failed
\* too, has left no address bound and no client in a backlog.
THEOREM CloseUnbinds == Spec => []NothingBound
<1>1. ASSUME IInv, NEW z \in Callers, Returned(z)
      PROVE  Open = {} /\ \A c \in Conns : conn[c] # "backlog"
  <2>1. cpc[z] \in 1..N + 1 /\ cpc[z] \notin Bound
    BY <1>1, HopAssumption DEF Returned, IInv, TypeOK
  <2>2. ASSUME NEW a \in Addrs PROVE lis[a] # "open"
    <3>1. CASE a < cpc[z]
      BY <1>1, <3>1 DEF IInv, CloseInv
    <3>2. CASE cpc[z] <= a
      <4>1. cpc[z] \in Addrs /\ lis[cpc[z]] = "none"
        BY <2>1, <3>2, HopAssumption DEF Addrs, Bound
      <4>. QED
        BY <1>1, <3>2, <4>1, HopAssumption DEF IInv, CloseInv, Addrs
    <3>. QED
      BY <2>1, <3>1, <3>2, HopAssumption DEF Addrs
  <2>3. \A c \in Conns : conn[c] = "backlog" => at[c] \in Addrs /\ lis[at[c]] = "open"
    BY <1>1 DEF IInv, CloseInv, DialInv
  <2>. QED
    BY <2>2, <2>3 DEF Open
<1>2. IInv => NothingBound
  BY <1>1 DEF NothingBound
<1>. QED
  BY Invariance, <1>2, PTL

\* For every number of addresses and every window a dial goes to an address,
\* and every address is bound while the listener is up and not closed.
THEOREM DialsLand == Spec => []HopLands
<1>1. IInv => HopLands
  BY DEF IInv, PhaseInv, DialInv, HopLands
<1>. QED
  BY Invariance, <1>1, PTL
-----------------------------------------------------------------------------
(* The listener implements Handover.                                         *)

\* What Handover calls a connection in state v of conn: "lost" is none of them.
Abs(v) ==
  CASE v \in {"none", "backlog"}   -> "new"
    [] v \in {"refused", "closed"} -> "gone"
    [] v = "delivered" -> "owned"
    [] OTHER -> "held"

\* The state of a connection follows from conn alone: what is held is offered.
LEMMA NotLost == IInv => \A c \in Conns : State(c) = Abs(conn[c])
BY DEF State, Abs, IInv, TypeOK, HeldInv

LEMMA NotLostNext == IInv' => \A c \in Conns : State(c)' = Abs(conn'[c])
BY DEF State, Abs, IInv, TypeOK, HeldInv

\* Connections that go from what Handover calls one state to what it calls gone.
LEMMA GoneStep ==
  ASSUME IInv, IInv', UNCHANGED done, NEW S \in SUBSET Conns,
         \A c \in S : Abs(conn[c]) \in {"new", "held"},
         conn' = [c \in Conns |-> IF c \in S THEN "closed" ELSE conn[c]]
  PROVE  H!Next
<1>1. S \in SUBSET {c \in Conns : [d \in Conns |-> State(d)][c] \in {"new", "held", "owned"}}
  BY NotLost
<1>2. [c \in Conns |-> State(c)]' =
        [c \in Conns |-> IF c \in S THEN "gone" ELSE [d \in Conns |-> State(d)][c]]
  BY NotLost, NotLostNext DEF Abs
<1>. QED
  BY <1>1, <1>2 DEF H!Next

\* One connection that goes from one state of Handover to the next.
LEMMA MoveStep ==
  ASSUME IInv, IInv', NEW c \in Conns, NEW v \in {"held", "delivered"},
         conn' = [conn EXCEPT ![c] = v], UNCHANGED done,
         v = "held" => conn[c] = "backlog", v = "delivered" => conn[c] = "held"
  PROVE  H!Next
<1>1. [d \in Conns |-> State(d)]' = [[d \in Conns |-> State(d)] EXCEPT ![c] = Abs(v)]
  BY NotLost, NotLostNext DEF IInv, TypeOK
<1>2. State(c) = IF v = "held" THEN "new" ELSE "held"
  BY NotLost DEF Abs
<1>. QED
  BY <1>1, <1>2 DEF H!Next, H!Moves, Abs

\* A step that leaves every connection where it was.
LEMMA StillStep ==
  ASSUME IInv, IInv',
         \A c \in Conns : Abs(conn'[c]) = Abs(conn[c]),
         done' = done \/ done' = TRUE
  PROVE  [H!Next]_(H!vars)
<1>1. [c \in Conns |-> State(c)]' = [c \in Conns |-> State(c)]
  BY NotLost, NotLostNext
<1>. QED
  BY <1>1 DEF H!Next, H!vars

\* Whatever the number of loops, acceptors and closers: every connection a loop
\* accepts is handed to one Accept or closed.  A loop's Accept makes a connection
\* held, Deliver makes it owned, LoopStops and the closing of a base listener
\* make connections go, Close sets closed, and every other step stutters.
THEOREM ListenerImplementsHandover == Spec => HandoverSpec
<1>1. Init => H!Init
  BY DEF Init, H!Init, State
<1>2. IInv /\ IInv' /\ [Next]_vars => [H!Next]_(H!vars)
  <2>. SUFFICES ASSUME IInv, IInv', [Next]_vars PROVE [H!Next]_(H!vars)
    OBVIOUS
  <2>1. ASSUME UNCHANGED <<conn, done>> PROVE [H!Next]_(H!vars)
    BY <2>1, StillStep
  <2>2. ASSUME UNCHANGED conn, done' = TRUE PROVE [H!Next]_(H!vars)
    BY <2>2, StillStep
  <2>3. ASSUME NEW a \in Addrs, LisClose(a), UNCHANGED done PROVE [H!Next]_(H!vars)
    <3>. DEFINE S == {c \in Conns : conn[c] = "backlog" /\ at[c] = a}
    <3>1. conn' = [c \in Conns |-> IF c \in S THEN "closed" ELSE conn[c]]
      BY <2>3 DEF LisClose
    <3>2. \A c \in S : Abs(conn[c]) \in {"new", "held"}
      BY DEF Abs
    <3>. QED
      BY <2>3, <3>1, <3>2, GoneStep
  <2>4. ASSUME NEW c \in Conns, NEW w \in Windows, Dial(c, w) PROVE [H!Next]_(H!vars)
    <3>1. CASE conn' = [conn EXCEPT ![c] = "backlog"]
      BY <2>4, <3>1, StillStep DEF Dial, Abs, IInv, TypeOK
    <3>2. CASE conn' = [conn EXCEPT ![c] = "refused"]
      <4>1. [d \in Conns |-> State(d)]' =
              [d \in Conns |-> IF d \in {c} THEN "gone" ELSE [e \in Conns |-> State(e)][d]]
        BY <2>4, <3>2, NotLost, NotLostNext DEF Dial, Abs, IInv, TypeOK
      <4>2. {c} \in SUBSET {d \in Conns : [e \in Conns |-> State(e)][d] \in {"new", "held", "owned"}}
        BY <2>4, NotLost DEF Dial, Abs
      <4>. QED
        BY <2>4, <4>1, <4>2 DEF Dial, H!Next
    <3>. QED
      BY <2>4, <3>1, <3>2 DEF Dial
  <2>5. ASSUME NEW a \in Addrs, NEW c \in Conns, LoopAccepts(a, c) PROVE [H!Next]_(H!vars)
    BY <2>5, MoveStep DEF LoopAccepts
  <2>6. ASSUME NEW a \in Addrs, LoopStops(a) PROVE [H!Next]_(H!vars)
    <3>1. offer[a] \in SUBSET Conns
      BY DEF IInv, TypeOK
    <3>2. \A c \in offer[a] : Abs(conn[c]) \in {"new", "held"}
      BY <3>1 DEF IInv, HeldInv, Abs
    <3>. QED
      BY <2>6, <3>1, <3>2, GoneStep DEF LoopStops, ConnClose
  <2>7. ASSUME NEW a \in Addrs, NEW x \in Acceptors, Deliver(a, x) PROVE [H!Next]_(H!vars)
    <3>1. CASE offer[a] = {}
      <4>1. conn' = conn
        BY <2>7, <3>1 DEF Deliver, IInv, TypeOK
      <4>. QED
        BY <2>1, <2>7, <4>1 DEF Deliver
    <3>2. ASSUME NEW c \in Conns, offer[a] = {c} PROVE [H!Next]_(H!vars)
      <4>1. conn' = [conn EXCEPT ![c] = "delivered"]
        BY <2>7, <3>2 DEF Deliver, IInv, TypeOK
      <4>2. conn[c] = "held"
        BY <3>2 DEF IInv, HeldInv
      <4>. QED
        BY <2>7, <4>1, <4>2, MoveStep DEF Deliver
    <3>. QED
      BY <3>1, <3>2 DEF IInv, TypeOK
  <2>8. CASE UNCHANGED vars
    BY <2>1, <2>8 DEF vars
  <2>9. CASE \/ \E a \in Addrs : Bind(a) \/ LoopAcceptFails(a)
             \/ Starts
             \/ \E x \in Acceptors : AcceptCalled(x) \/ AcceptClosed(x)
    BY <2>1, <2>9 DEF Bind, LoopAcceptFails, Starts, AcceptCalled, AcceptClosed
  <2>10. CASE BindFails \/ \E z \in Closers : CloseCalled(z)
    BY <2>2, <2>10 DEF BindFails, CloseCalled, CloseBegins
  <2>11. CASE \E z \in Callers : CloseNext(z)
    BY <2>3, <2>11 DEF CloseNext, Bound
  <2>. QED
    BY <2>4, <2>5, <2>6, <2>7, <2>8, <2>9, <2>10, <2>11 DEF Next, Loop
<1>. QED
  BY <1>1, <1>2, Invariance, PTL DEF Spec, HandoverSpec, H!Spec
-----------------------------------------------------------------------------
(***************************************************************************)
(* The WebRTC transport.                                                   *)
(***************************************************************************)
CONSTANT Strays

VARIABLES broker, cb, ch, loop, wapc

\* broker is the transport's offer and wapc its apc.
W == INSTANCE WebRTC WITH offer <- broker, apc <- wapc

TunnelTypeOK ==
  /\ dial \in [Tunnels -> {"idle", "gather", "exchange", "wait", "returned", "failed"}]
  /\ broker \in [Tunnels -> {"none", "sent", "answered"}]
  /\ ans \in [Tunnels -> {"none", "gather", "reply", "wait", "offer", "ended"}]
  /\ pc \in [W!Sides -> [Tunnels -> {"none", "open", "closed"}]]
  /\ cb \in [W!Sides -> [Tunnels -> {"none", "running", "done"}]]
  /\ ch \in [W!Sides -> [Tunnels -> BOOLEAN]]
  /\ loop \in {"next", "report", "exited"}
  /\ wapc \in [Acceptors -> {"idle", "wait"}]
  /\ got \in [Tunnels -> BOOLEAN]
  /\ closed \in BOOLEAN

\* The client's side: nothing exists before Dial, a callback that runs or has sent
\* its connection to connCh finds the peer connection open until Dial fails, and
\* then it is closed.
ClientInv(t) ==
  /\ dial[t] = "idle" => cb["client"][t] = "none" /\ pc["client"][t] # "open"
  /\ cb["client"][t] = "running" \/ ch["client"][t] =>
       dial[t] = "failed" \/ pc["client"][t] = "open"
  /\ ch["client"][t] => cb["client"][t] = "done"
  /\ dial[t] = "returned" => cb["client"][t] = "done" /\ pc["client"][t] = "open"
  /\ dial[t] = "failed" => pc["client"][t] = "closed"

\* An offer is made once and answered once.
OfferInv(t) ==
  /\ dial[t] \in {"idle", "gather"} => broker[t] = "none" /\ ans[t] = "none"
  /\ broker[t] = "sent" => ans[t] = "none"

\* The server's side: nothing exists before answer, a connection in opened or on
\* offer has an open peer connection that no callback will close any more, and a
\* goroutine that has ended has handed over an open connection or has closed it.
ServerInv(t) ==
  /\ ans[t] = "none" =>
       pc["server"][t] = "none" /\ cb["server"][t] = "none" /\ ~ch["server"][t] /\ ~got[t]
  /\ cb["server"][t] = "running" \/ ch["server"][t] =>
       ans[t] = "ended" \/ pc["server"][t] = "open"
  /\ ch["server"][t] => cb["server"][t] = "done"
  /\ ans[t] = "offer" => cb["server"][t] = "done" /\ pc["server"][t] = "open"
  /\ got[t] => ans[t] = "ended" /\ cb["server"][t] = "done" /\ pc["server"][t] = "open"
  /\ ans[t] = "ended" /\ ~got[t] => pc["server"][t] = "closed"

TunnelInv(t) == ClientInv(t) /\ OfferInv(t) /\ ServerInv(t)

TunnelsInv == TunnelTypeOK /\ \A t \in Tunnels : TunnelInv(t)
-----------------------------------------------------------------------------
\* The initial state satisfies TunnelsInv.
LEMMA TunnelsInit == W!Init => TunnelsInv
<1>. SUFFICES ASSUME W!Init PROVE TunnelsInv
  OBVIOUS
<1>1. TunnelTypeOK
  BY DEF W!Init, TunnelTypeOK, W!Sides
<1>2. ASSUME NEW t \in Tunnels PROVE TunnelInv(t)
  BY DEF W!Init, W!Sides, TunnelInv, ClientInv, OfferInv, ServerInv
<1>. QED
  BY <1>1, <1>2 DEF TunnelsInv

\* The steps of Dial.
LEMMA DialStep ==
  ASSUME TunnelsInv, NEW t \in Tunnels, W!Dial(t)
  PROVE  TunnelsInv'
<1>. USE DEF TunnelsInv, TunnelTypeOK, W!Sides, TunnelInv, ClientInv, OfferInv, ServerInv,
             W!PcClose, W!dialVars, W!listenVars
<1>1. CASE W!DialStarts(t)
  BY <1>1 DEF W!DialStarts
<1>2. CASE W!Gathers(t)
  BY <1>2 DEF W!Gathers
<1>3. CASE W!Answered(t)
  BY <1>3 DEF W!Answered
<1>4. CASE W!DialGivesUp(t)
  BY <1>4 DEF W!DialGivesUp, W!DialCleans
<1>5. CASE W!DialReturns(t)
  BY <1>5 DEF W!DialReturns
<1>. QED
  BY <1>1, <1>2, <1>3, <1>4, <1>5 DEF W!Dial

\* The steps of the answer goroutine.
LEMMA AnswerStep ==
  ASSUME TunnelsInv, NEW t \in Tunnels, W!NextOffer(t) \/ W!Answer(t)
  PROVE  TunnelsInv'
<1>. USE DEF TunnelsInv, TunnelTypeOK, W!Sides, TunnelInv, ClientInv, OfferInv, ServerInv,
             W!PcClose, W!dialVars, W!listenVars
<1>1. CASE W!NextOffer(t)
  <2>1. /\ \/ ans' = [ans EXCEPT ![t] = "gather"] /\ pc' = [pc EXCEPT !["server"][t] = "open"]
           \/ ans' = [ans EXCEPT ![t] = "ended"] /\ pc' = [pc EXCEPT !["server"][t] = "closed"]
        /\ broker' = [broker EXCEPT ![t] = "none"] /\ ans[t] = "none"
        /\ dial[t] \notin {"idle", "gather"}
        /\ UNCHANGED <<dial, cb, ch, loop, wapc, closed, got>>
    BY <1>1 DEF W!NextOffer
  <2>2. TunnelTypeOK'
    BY <2>1
  <2>3. ASSUME NEW u \in Tunnels PROVE TunnelInv(u)'
    BY <2>1
  <2>. QED
    BY <2>2, <2>3
<1>2. CASE W!AnswerReplies(t)
  BY <1>2 DEF W!AnswerReplies
<1>3. CASE W!ReplyReturns(t)
  BY <1>3 DEF W!ReplyReturns
<1>4. CASE W!AnswerFails(t)
  BY <1>4 DEF W!AnswerFails
<1>5. CASE W!AnswerOpened(t)
  BY <1>5 DEF W!AnswerOpened
<1>6. CASE W!AnswerTimesOut(t)
  BY <1>6 DEF W!AnswerTimesOut
<1>7. CASE W!OfferClosed(t)
  BY <1>7 DEF W!OfferClosed, W!ConnClose
<1>. QED
  BY <1>1, <1>2, <1>3, <1>4, <1>5, <1>6, <1>7 DEF W!Answer

\* The steps of the peer connections and their callbacks.
LEMMA CallbackStep ==
  ASSUME TunnelsInv, NEW s \in W!Sides, NEW t \in Tunnels,
         W!Opens(s, t) \/ W!Detaches(s, t) \/ W!DetachFails(s, t)
  PROVE  TunnelsInv'
<1>. USE DEF TunnelsInv, TunnelTypeOK, W!Sides, TunnelInv, ClientInv, OfferInv, ServerInv,
             W!PcClose, W!dialVars, W!listenVars
<1>1. CASE W!Opens(s, t)
  <2>1. TunnelTypeOK'
    BY <1>1 DEF W!Opens
  <2>2. ASSUME NEW u \in Tunnels PROVE TunnelInv(u)'
    BY <1>1 DEF W!Opens
  <2>. QED
    BY <2>1, <2>2
<1>2. CASE W!Detaches(s, t)
  <2>1. TunnelTypeOK'
    BY <1>2 DEF W!Detaches
  <2>2. ASSUME NEW u \in Tunnels PROVE TunnelInv(u)'
    <3>1. CASE u # t
      BY <1>2, <3>1 DEF W!Detaches
    <3>2. CASE u = t /\ s = "client"
      BY <1>2, <3>2 DEF W!Detaches
    <3>3. CASE u = t /\ s = "server"
      BY <1>2, <3>3 DEF W!Detaches
    <3>. QED
      BY <3>1, <3>2, <3>3
  <2>. QED
    BY <2>1, <2>2
<1>3. CASE W!DetachFails(s, t)
  BY <1>3 DEF W!DetachFails
<1>. QED
  BY <1>1, <1>2, <1>3

\* TunnelsInv is inductive.
LEMMA TunnelsNext == TunnelsInv /\ [W!Next]_(W!vars) => TunnelsInv'
<1>. SUFFICES ASSUME TunnelsInv, [W!Next]_(W!vars) PROVE TunnelsInv'
  OBVIOUS
<1>1. ASSUME NEW t \in Tunnels, NEW x \in Acceptors, W!Deliver(t, x) PROVE TunnelsInv'
  <2>1. TunnelTypeOK'
    BY <1>1 DEF W!Deliver, TunnelsInv, TunnelTypeOK, W!dialVars
  <2>2. ASSUME NEW u \in Tunnels PROVE TunnelInv(u)'
    BY <1>1 DEF W!Deliver, TunnelsInv, TunnelTypeOK, TunnelInv, ClientInv, OfferInv,
                ServerInv, W!dialVars
  <2>. QED
    BY <2>1, <2>2 DEF TunnelsInv
<1>2. ASSUME NEW x \in Acceptors, W!AcceptCalled(x) \/ W!AcceptFails(x) \/ W!AcceptClosed(x)
      PROVE  TunnelsInv'
  <2>1. UNCHANGED <<dial, broker, ans, pc, cb, ch, got, closed>>
    BY <1>2 DEF W!AcceptCalled, W!AcceptFails, W!AcceptClosed, W!dialVars
  <2>2. loop' \in {"next", "report", "exited"}
    BY <1>2 DEF W!AcceptCalled, W!AcceptFails, W!AcceptClosed, TunnelsInv, TunnelTypeOK
  <2>3. wapc' \in [Acceptors -> {"idle", "wait"}]
    BY <1>2 DEF W!AcceptCalled, W!AcceptFails, W!AcceptClosed, TunnelsInv, TunnelTypeOK
  <2>. QED
    BY <2>1, <2>2, <2>3 DEF TunnelsInv, TunnelTypeOK, TunnelInv, ClientInv, OfferInv, ServerInv
<1>3. CASE W!NextFails \/ W!LoopStops \/ W!CloseCalled
  <2>1. UNCHANGED <<dial, broker, ans, pc, cb, ch, wapc, got>>
    BY <1>3 DEF W!NextFails, W!LoopStops, W!CloseCalled, W!dialVars
  <2>2. loop' \in {"next", "report", "exited"} /\ closed' \in BOOLEAN
    BY <1>3 DEF W!NextFails, W!LoopStops, W!CloseCalled, TunnelsInv, TunnelTypeOK
  <2>. QED
    BY <2>1, <2>2 DEF TunnelsInv, TunnelTypeOK, TunnelInv, ClientInv, OfferInv, ServerInv
<1>4. CASE UNCHANGED W!vars
  BY <1>4 DEF W!vars, TunnelsInv, TunnelTypeOK, TunnelInv, ClientInv, OfferInv, ServerInv
<1>. QED
  BY <1>1, <1>2, <1>3, <1>4, DialStep, AnswerStep, CallbackStep DEF W!Next

\* TunnelsInv holds in every reachable state.
LEMMA TunnelsInvariance == W!Spec => []TunnelsInv
BY TunnelsInit, TunnelsNext, PTL DEF W!Spec
-----------------------------------------------------------------------------
\* With any number of Dials at once, and whenever the OnOpen callback runs or
\* fails: a Dial that returned a tunnel has left it open, one that failed has
\* closed its peer connection.
THEOREM DialLeaksNothing == W!Spec => []DialClean
<1>1. TunnelsInv => DialClean
  BY DEF TunnelsInv, TunnelInv, ClientInv, DialClean
<1>. QED
  BY TunnelsInvariance, <1>1, PTL
-----------------------------------------------------------------------------
(* The transport implements Handover.                                        *)

\* What Handover calls the connection of a tunnel whose answer goroutine is at a;
\* g says whether Accept has returned it.  "lost" is none of them.
TunnelAbs(a, g) ==
  CASE a = "none" -> "new"
    [] a \notin {"none", "ended"} -> "held"
    [] a = "ended" /\ g -> "owned"
    [] a = "ended" /\ ~g -> "gone"

\* The state of a connection follows from ans and got: an open peer connection
\* has a goroutine or an owner.
LEMMA TunnelNotLost == TunnelsInv => \A t \in Tunnels : TunnelState(t) = TunnelAbs(ans[t], got[t])
<1>. SUFFICES ASSUME TunnelsInv, NEW t \in Tunnels PROVE TunnelState(t) = TunnelAbs(ans[t], got[t])
  OBVIOUS
<1>1. CASE ans[t] = "none"
  BY <1>1 DEF TunnelState, TunnelAbs
<1>2. CASE ans[t] # "none" /\ got[t]
  <2>1. ans[t] = "ended" /\ pc["server"][t] = "open"
    BY <1>2 DEF TunnelsInv, TunnelInv, ServerInv
  <2>. QED
    BY <1>2, <2>1 DEF TunnelState, TunnelAbs
<1>3. CASE ans[t] = "ended" /\ ~got[t]
  <2>1. pc["server"][t] = "closed"
    BY <1>3 DEF TunnelsInv, TunnelInv, ServerInv
  <2>. QED
    BY <1>3, <2>1 DEF TunnelState, TunnelAbs
<1>4. CASE ans[t] \notin {"none", "ended"} /\ ~got[t]
  BY <1>4 DEF TunnelState, TunnelAbs
<1>. QED
  BY <1>1, <1>2, <1>3, <1>4

\* The same of the state after a step.
LEMMA TunnelNotLostNext ==
  TunnelsInv' => \A t \in Tunnels : TunnelState(t)' = TunnelAbs(ans'[t], got'[t])
<1>. SUFFICES ASSUME TunnelsInv', NEW t \in Tunnels
             PROVE  TunnelState(t)' = TunnelAbs(ans'[t], got'[t])
  OBVIOUS
<1>1. CASE ans'[t] = "none"
  BY <1>1 DEF TunnelState, TunnelAbs
<1>2. CASE ans'[t] # "none" /\ got'[t]
  <2>1. ans'[t] = "ended" /\ pc'["server"][t] = "open"
    BY <1>2 DEF TunnelsInv, TunnelInv, ServerInv
  <2>. QED
    BY <1>2, <2>1 DEF TunnelState, TunnelAbs
<1>3. CASE ans'[t] = "ended" /\ ~got'[t]
  <2>1. pc'["server"][t] = "closed"
    BY <1>3 DEF TunnelsInv, TunnelInv, ServerInv
  <2>. QED
    BY <1>3, <2>1 DEF TunnelState, TunnelAbs
<1>4. CASE ans'[t] \notin {"none", "ended"} /\ ~got'[t]
  BY <1>4 DEF TunnelState, TunnelAbs
<1>. QED
  BY <1>1, <1>2, <1>3, <1>4

\* A step of one answer goroutine takes its connection from one state of Handover
\* to the next, or leaves it where it was.
LEMMA OneStep ==
  ASSUME TunnelsInv, TunnelsInv', UNCHANGED closed, NEW t \in Tunnels,
         \A u \in Tunnels \ {t} : ans'[u] = ans[u] /\ got'[u] = got[u],
         <<TunnelAbs(ans[t], got[t]), TunnelAbs(ans'[t], got'[t])>> \in
           {<<"new", "held">>, <<"new", "gone">>, <<"held", "held">>, <<"held", "owned">>,
            <<"held", "gone">>}
  PROVE  [TH!Next]_(TH!vars)
<1>. DEFINE st == [u \in Tunnels |-> TunnelState(u)]
            v == TunnelAbs(ans'[t], got'[t])
<1>1. st' = [st EXCEPT ![t] = v]
  BY TunnelNotLost, TunnelNotLostNext
<1>2. st[t] = TunnelAbs(ans[t], got[t]) /\ st \in [Tunnels -> {st[u] : u \in Tunnels}]
  BY TunnelNotLost
<1>3. CASE v = "gone"
  <2>1. st' = [u \in Tunnels |-> IF u \in {t} THEN "gone" ELSE st[u]]
    BY <1>1, <1>2, <1>3
  <2>2. {t} \in SUBSET {u \in Tunnels : st[u] \in {"new", "held", "owned"}}
    BY <1>2, <1>3
  <2>. QED
    BY <2>1, <2>2 DEF TH!Next
<1>4. CASE v = "held" /\ st[t] = "held"
  BY <1>1, <1>2, <1>4 DEF TH!vars
<1>5. CASE (v = "held" /\ st[t] = "new") \/ (v = "owned" /\ st[t] = "held")
  BY <1>1, <1>2, <1>5 DEF TH!Next, TH!Moves
<1>. QED
  BY <1>2, <1>3, <1>4, <1>5

\* A step that moves no answer goroutine.
LEMMA TunnelStill ==
  ASSUME TunnelsInv, TunnelsInv', UNCHANGED <<ans, got>>, closed' = closed \/ closed' = TRUE
  PROVE  [TH!Next]_(TH!vars)
<1>1. [t \in Tunnels |-> TunnelState(t)]' = [t \in Tunnels |-> TunnelState(t)]
  BY TunnelNotLost, TunnelNotLostNext
<1>. QED
  BY <1>1 DEF TH!Next, TH!vars

\* Whichever of callback, timer, Accept and Close comes first, for any number of
\* offers and acceptors: every peer connection answer makes is handed to one
\* Accept, open, or closed.  NextOffer makes it held or gone, Deliver owned, every
\* way out of answer gone, and all other steps stutter or set closed.
THEOREM TransportImplementsHandover == W!Spec => TunnelHandover
<1>1. W!Init => TH!Init
  BY DEF W!Init, TH!Init, TunnelState
<1>2. TunnelsInv /\ TunnelsInv' /\ [W!Next]_(W!vars) => [TH!Next]_(TH!vars)
  <2>. SUFFICES ASSUME TunnelsInv, TunnelsInv', [W!Next]_(W!vars) PROVE [TH!Next]_(TH!vars)
    OBVIOUS
  <2>1. ASSUME NEW t \in Tunnels, W!NextOffer(t) PROVE [TH!Next]_(TH!vars)
    <3>1. /\ ans[t] = "none" /\ ~got[t] /\ got' = got /\ closed' = closed
          /\ ans'[t] \in {"gather", "ended"}
          /\ \A u \in Tunnels \ {t} : ans'[u] = ans[u]
      BY <2>1 DEF W!NextOffer, TunnelsInv, TunnelTypeOK, TunnelInv, OfferInv, ServerInv,
                  W!listenVars
    <3>2. <<TunnelAbs(ans[t], got[t]), TunnelAbs(ans'[t], got'[t])>> \in
            {<<"new", "held">>, <<"new", "gone">>}
      BY <3>1 DEF TunnelAbs
    <3>. QED
      BY <3>1, <3>2, OneStep
  <2>2. ASSUME NEW t \in Tunnels, W!Answer(t) PROVE [TH!Next]_(TH!vars)
    <3>1. /\ ans[t] \in {"gather", "reply", "wait", "offer"} /\ got' = got /\ closed' = closed
          /\ ans'[t] \in {"reply", "wait", "offer", "ended"}
          /\ \A u \in Tunnels \ {t} : ans'[u] = ans[u]
      BY <2>2 DEF W!Answer, W!AnswerReplies, W!ReplyReturns, W!AnswerFails, W!AnswerOpened,
                  W!AnswerTimesOut, W!OfferClosed, TunnelsInv, TunnelTypeOK, W!listenVars
    <3>2. ~got[t]
      BY <3>1 DEF TunnelsInv, TunnelInv, ServerInv
    <3>3. <<TunnelAbs(ans[t], got[t]), TunnelAbs(ans'[t], got'[t])>> \in
            {<<"held", "held">>, <<"held", "gone">>}
      BY <3>1, <3>2 DEF TunnelAbs
    <3>. QED
      BY <3>1, <3>3, OneStep
  <2>3. ASSUME NEW t \in Tunnels, NEW x \in Acceptors, W!Deliver(t, x)
        PROVE  [TH!Next]_(TH!vars)
    <3>1. /\ ans[t] = "offer" /\ ans'[t] = "ended" /\ got'[t] /\ closed' = closed
          /\ \A u \in Tunnels \ {t} : ans'[u] = ans[u] /\ got'[u] = got[u]
      BY <2>3 DEF W!Deliver, TunnelsInv, TunnelTypeOK
    <3>2. ~got[t]
      BY <3>1 DEF TunnelsInv, TunnelInv, ServerInv
    <3>3. <<TunnelAbs(ans[t], got[t]), TunnelAbs(ans'[t], got'[t])>> = <<"held", "owned">>
      BY <3>1, <3>2 DEF TunnelAbs
    <3>. QED
      BY <3>1, <3>3, OneStep
  <2>4. CASE \/ \E t \in Tunnels : W!Dial(t)
             \/ \E s \in W!Sides, t \in Tunnels :
                  W!Opens(s, t) \/ W!Detaches(s, t) \/ W!DetachFails(s, t)
             \/ \E x \in Acceptors : W!AcceptCalled(x) \/ W!AcceptFails(x) \/ W!AcceptClosed(x)
             \/ W!NextFails \/ W!LoopStops \/ W!CloseCalled
             \/ UNCHANGED W!vars
    <3>1. UNCHANGED <<ans, got>> /\ (closed' = closed \/ closed' = TRUE)
      BY <2>4 DEF W!Dial, W!DialStarts, W!Gathers, W!Answered, W!DialGivesUp, W!DialReturns,
                  W!Opens, W!Detaches, W!DetachFails, W!AcceptCalled, W!AcceptFails,
                  W!AcceptClosed, W!NextFails, W!LoopStops, W!CloseCalled, W!vars,
                  W!listenVars
    <3>. QED
      BY <3>1, TunnelStill
  <2>. QED
    BY <2>1, <2>2, <2>3, <2>4 DEF W!Next
<1>. QED
  BY <1>1, <1>2, TunnelsInvariance, PTL DEF W!Spec, TunnelHandover, TH!Spec
=============================================================================
