------------------------- MODULE ProbeDefenceProofs -------------------------
(***************************************************************************)
(* Proofs about ProbeDefence, for every number of connections, acceptors   *)
(* and closers, every mix of clients and every length of the secret.       *)
(***************************************************************************)
EXTENDS ProbeDefence, SequenceTheorems, TLAPS

Stages == {"none", "backlog", "peek", "tls", "secret", "offer", "delivered", "dial", "replay",
           "splice", "ended"}

\* The types of what is kept per connection.
TypeOK ==
  /\ pkg \in {"reality", "xreality"}
  /\ kind \in [Conns -> Kind]
  /\ sent \in [Conns -> Nat]
  /\ eof \in [Conns -> BOOLEAN]
  /\ pc \in [Conns -> Stages]
  /\ timer \in [Conns -> {"off", "armed", "late"}]
  /\ taken \in [Conns -> Nat]
  /\ prefix \in [Conns -> Seq(Nat)]
  /\ rd \in [Conns -> Seq(Nat)]
  /\ open \in [Conns -> BOOLEAN]
  /\ dst \in [Conns -> {"none", "open", "closed"}]
  /\ route \in [Conns -> {"none", "pass", "proxy"}]
  /\ out \in [Conns -> Seq(Nat)]
  /\ up \in [Conns -> BOOLEAN]

\* What has been read and what is to be replayed are the units taken, in order.
ReadInv(c) ==
  /\ Len(rd[c]) + Len(prefix[c]) = taken[c]
  /\ \A i \in 1..Len(rd[c]) : rd[c][i] = i
  /\ \A i \in 1..Len(prefix[c]) : prefix[c][i] = Len(rd[c]) + i

First(c) == IF route[c] = "pass" THEN 0 ELSE ShakeLen

\* The upstream has got what was read from unit First(c) on, and nothing before
\* the splice.
SpliceInv(c) ==
  /\ \A i \in 1..Len(out[c]) : out[c][i] = First(c) + i
  /\ up[c] => /\ pc[c] \in {"splice", "ended"}
              /\ Len(out[c]) + First(c) = Len(rd[c])
  /\ pc[c] \notin {"splice", "ended"} => Len(out[c]) = 0
  /\ pc[c] \notin {"splice", "ended", "replay"} => dst[c] = "none"
  /\ pc[c] = "dial" => \/ route[c] = "pass" /\ Len(rd[c]) = 0
                       \/ route[c] = "proxy" /\ Len(rd[c]) >= ShakeLen
  /\ pc[c] = "replay" => route[c] = "proxy" /\ Len(rd[c]) >= ShakeLen

\* The hello was one the package may terminate TLS for.
Named(c) ==
  /\ pkg = "xreality" => kind[c].hello = "whole"
  /\ (pkg = "xreality" \/ SniCheck) /\ kind[c].hello = "whole" => kind[c].name = "ours"

\* What a handler has read and knows of its client at each stage.  A hello that
\* names somebody else gets to the TLS stage only if its peek failed, and then no
\* read will ever succeed again.
StageInv(c) ==
  /\ pc[c] \in {"none", "backlog"} => taken[c] = 0
  /\ pc[c] = "peek" => Len(rd[c]) = 0 /\ taken[c] <= RecLen
  /\ pc[c] = "tls" => /\ Len(rd[c]) < ShakeLen
                      /\ kind[c].hello = "notTLS" => Len(rd[c]) <= 1
                      /\ Named(c) \/ (pkg = "reality" /\ taken[c] < RecLen /\ RawFails(c))
  /\ pc[c] \in {"secret", "offer", "delivered"} =>
       Len(rd[c]) >= ShakeLen /\ kind[c].hello # "notTLS" /\ Named(c)
  /\ pc[c] \in {"offer", "delivered"} =>
       /\ kind[c].secret = "right"
       /\ Len(rd[c]) = ShakeLen + SecretLen
       /\ pkg = "reality" => SecretLen > 0
  /\ pc[c] \in {"offer", "delivered", "dial", "replay", "splice"} => timer[c] = "off"
  /\ pc[c] = "ended" => ~open[c] /\ dst[c] # "open"

ConnInv(c) == ReadInv(c) /\ SpliceInv(c) /\ StageInv(c)

IInv == TypeOK /\ \A c \in Conns : ConnInv(c)
-----------------------------------------------------------------------------
\* The initial state satisfies the inductive invariant.
LEMMA InitIInv == Init => IInv
<1>. SUFFICES ASSUME Init PROVE IInv
  OBVIOUS
<1>1. TypeOK
  <2>1. <<>> \in Seq(Nat)
    OBVIOUS
  <2>2. kind \in [Conns -> Kind]
    BY GuardedAssumption DEF Init
  <2>. QED
    BY <2>1, <2>2 DEF Init, TypeOK, Stages
<1>2. ASSUME NEW c \in Conns PROVE ConnInv(c)
  <2>1. /\ Len(rd[c]) = 0 /\ Len(prefix[c]) = 0 /\ Len(out[c]) = 0 /\ taken[c] = 0
        /\ pc[c] = "none" /\ dst[c] = "none" /\ ~up[c]
    BY DEF Init
  <2>. QED
    BY <2>1 DEF ConnInv, ReadInv, SpliceInv, StageInv
<1>. QED
  BY <1>1, <1>2 DEF IInv

\* Nothing of connection d changes.
Same(d) ==
  /\ kind'[d] = kind[d] /\ sent'[d] = sent[d] /\ eof'[d] = eof[d]
  /\ pc'[d] = pc[d] /\ timer'[d] = timer[d]
  /\ taken'[d] = taken[d] /\ prefix'[d] = prefix[d] /\ rd'[d] = rd[d]
  /\ open'[d] = open[d]
  /\ dst'[d] = dst[d] /\ route'[d] = route[d] /\ out'[d] = out[d] /\ up'[d] = up[d]

\* Every invariant of a connection is about that connection alone.
LEMMA SameKeeps ==
  ASSUME NEW d \in Conns, Same(d), pkg' = pkg, ConnInv(d)
  PROVE  ConnInv(d)'
<1>1. ReadInv(d)'
  BY DEF Same, ConnInv, ReadInv
<1>2. SpliceInv(d)'
  BY DEF Same, ConnInv, SpliceInv, First
<1>3. StageInv(d)'
  BY DEF Same, ConnInv, StageInv, Named, RawFails
<1>. QED
  BY <1>1, <1>2, <1>3 DEF ConnInv

\* A step of connection c has to keep the types and the invariant of c.
LEMMA OneConn ==
  ASSUME IInv, NEW c \in Conns, TypeOK', pkg' = pkg, ConnInv(c)',
         \A d \in Conns \ {c} : Same(d)
  PROVE  IInv'
BY SameKeeps DEF IInv
-----------------------------------------------------------------------------
(* Reading.                                                                  *)

\* The units read so far, and the next one behind them.
LEMMA Appended ==
  ASSUME NEW s \in Seq(Nat), NEW u \in Nat, u = Len(s) + 1, \A i \in 1..Len(s) : s[i] = i
  PROVE  /\ Append(s, u) \in Seq(Nat)
         /\ Len(Append(s, u)) = Len(s) + 1
         /\ \A i \in 1..Len(s) + 1 : Append(s, u)[i] = i
<1>1. /\ Append(s, u) \in Seq(Nat) /\ Len(Append(s, u)) = Len(s) + 1
      /\ \A i \in 1..Len(s) : Append(s, u)[i] = s[i]
      /\ Append(s, u)[Len(s) + 1] = u
  BY AppendProperties
<1>2. \A i \in 1..Len(s) + 1 : i \in 1..Len(s) \/ i = Len(s) + 1
  OBVIOUS
<1>. QED
  BY <1>1, <1>2

\* A read through prefixConn returns the next unit, replayed or not.
LEMMA ReadOne ==
  ASSUME TypeOK, NEW c \in Conns, ReadInv(c), CanRead(c), ReadUnit(c)
  PROVE  /\ taken' \in [Conns -> Nat]
         /\ prefix' \in [Conns -> Seq(Nat)]
         /\ rd' \in [Conns -> Seq(Nat)]
         /\ ReadInv(c)'
         /\ Len(rd'[c]) = Len(rd[c]) + 1
         /\ RawFails(c) => taken'[c] = taken[c]
         /\ \A d \in Conns \ {c} :
              taken'[d] = taken[d] /\ prefix'[d] = prefix[d] /\ rd'[d] = rd[d]
<1>. DEFINE r == rd[c]
            p == prefix[c]
<1>1. /\ r \in Seq(Nat) /\ p \in Seq(Nat) /\ taken[c] \in Nat
      /\ Len(r) + Len(p) = taken[c] /\ Len(r) \in Nat /\ Len(p) \in Nat
      /\ \A i \in 1..Len(r) : r[i] = i
      /\ \A i \in 1..Len(p) : p[i] = Len(r) + i
  BY DEF TypeOK, ReadInv
<1>2. CASE p # <<>>
  <2>1. /\ taken' = taken
        /\ rd' = [rd EXCEPT ![c] = Append(r, Head(p))]
        /\ prefix' = [prefix EXCEPT ![c] = Tail(p)]
    BY <1>2 DEF ReadUnit
  <2>2. /\ Head(p) = Len(r) + 1 /\ Tail(p) \in Seq(Nat)
        /\ Len(Tail(p)) = Len(p) - 1 /\ Len(p) > 0
        /\ \A i \in 1..Len(p) - 1 : Tail(p)[i] = p[i + 1]
    BY <1>1, <1>2, HeadTailProperties, EmptySeq
  <2>3. /\ Append(r, Head(p)) \in Seq(Nat)
        /\ Len(Append(r, Head(p))) = Len(r) + 1
        /\ \A i \in 1..Len(r) + 1 : Append(r, Head(p))[i] = i
    <3>. DEFINE u == Head(p)
    <3>1. u = Len(r) + 1
      BY <2>2
    <3>. HIDE DEF u, r, p
    <3>2. r \in Seq(Nat) /\ Len(r) \in Nat /\ \A i \in 1..Len(r) : r[i] = i
      BY <1>1
    <3>3. u \in Nat
      BY <3>1, <3>2
    <3>4. /\ Append(r, u) \in Seq(Nat)
          /\ Len(Append(r, u)) = Len(r) + 1
          /\ \A i \in 1..Len(r) + 1 : Append(r, u)[i] = i
      BY <3>1, <3>2, <3>3, Appended
    <3>. QED
      BY <3>4 DEF u
  <2>4. rd'[c] = Append(r, Head(p)) /\ prefix'[c] = Tail(p) /\ taken'[c] = taken[c]
    BY <2>1 DEF TypeOK
  <2>5. ReadInv(c)'
    <3>1. Len(rd'[c]) = Len(r) + 1 /\ \A i \in 1..Len(r) + 1 : rd'[c][i] = i
      BY <2>3, <2>4
    <3>2. \A i \in 1..Len(Tail(p)) : Tail(p)[i] = (Len(r) + 1) + i
      BY <1>1, <2>2
    <3>3. /\ Len(prefix'[c]) = Len(p) - 1 /\ taken'[c] = taken[c]
          /\ \A i \in 1..Len(prefix'[c]) : prefix'[c][i] = (Len(r) + 1) + i
      BY <2>2, <2>4, <3>2
    <3>4. Len(rd'[c]) + Len(prefix'[c]) = taken'[c]
      <4>1. Len(r) \in Nat /\ Len(p) \in Nat /\ Len(r) + Len(p) = taken[c]
        BY <1>1
      <4>2. Len(rd'[c]) = Len(r) + 1 /\ Len(prefix'[c]) = Len(p) - 1 /\ taken'[c] = taken[c]
        BY <3>1, <3>3
      <4>. HIDE DEF r, p
      <4>. QED
        BY <4>1, <4>2
    <3>5. \A i \in 1..Len(rd'[c]) : rd'[c][i] = i
      BY <3>1
    <3>6. \A i \in 1..Len(prefix'[c]) : prefix'[c][i] = Len(rd'[c]) + i
      BY <3>1, <3>3
    <3>. QED
      BY <3>4, <3>5, <3>6 DEF ReadInv
  <2>. QED
    BY <2>1, <2>2, <2>3, <2>4, <2>5 DEF TypeOK
<1>3. CASE p = <<>>
  <2>1. /\ taken' = [taken EXCEPT ![c] = taken[c] + 1]
        /\ rd' = [rd EXCEPT ![c] = Append(r, taken'[c])]
        /\ prefix' = prefix
    BY <1>3 DEF ReadUnit
  <2>2. taken'[c] = Len(r) + 1 /\ Len(p) = 0
    BY <1>1, <1>3, <2>1 DEF TypeOK
  <2>3. /\ Append(r, taken'[c]) \in Seq(Nat)
        /\ Len(Append(r, taken'[c])) = Len(r) + 1
        /\ \A i \in 1..Len(r) + 1 : Append(r, taken'[c])[i] = i
    <3>. DEFINE u == taken'[c]
    <3>1. u = Len(r) + 1
      BY <2>2
    <3>. HIDE DEF u, r, p
    <3>2. r \in Seq(Nat) /\ Len(r) \in Nat /\ \A i \in 1..Len(r) : r[i] = i
      BY <1>1
    <3>3. u \in Nat
      BY <3>1, <3>2
    <3>4. /\ Append(r, u) \in Seq(Nat)
          /\ Len(Append(r, u)) = Len(r) + 1
          /\ \A i \in 1..Len(r) + 1 : Append(r, u)[i] = i
      BY <3>1, <3>2, <3>3, Appended
    <3>. QED
      BY <3>4 DEF u
  <2>4. rd'[c] = Append(r, taken'[c]) /\ prefix'[c] = p
    BY <2>1 DEF TypeOK
  <2>5. ReadInv(c)'
    <3>1. Len(rd'[c]) = Len(r) + 1 /\ \A i \in 1..Len(r) + 1 : rd'[c][i] = i
      BY <2>3, <2>4
    <3>2. Len(prefix'[c]) = 0
      BY <2>2, <2>4
    <3>. QED
      BY <1>1, <2>2, <3>1, <3>2 DEF ReadInv
  <2>6. ~RawFails(c)
    BY <1>1, <1>3 DEF CanRead, RawReady, RawFails, TypeOK
  <2>. QED
    BY <1>1, <2>1, <2>2, <2>3, <2>4, <2>5, <2>6 DEF TypeOK
<1>. QED
  BY <1>2, <1>3
-----------------------------------------------------------------------------
(* The steps.                                                                *)

\* Clients and time.
LEMMA EnvironmentStep ==
  ASSUME IInv, NEW c \in Conns, Environment(c)
  PROVE  IInv'
<1>. USE DEF listenerVars, clientVars, readVars, spliceVars
<1>1. CASE Connect(c)
  <2>1. TypeOK' /\ pkg' = pkg /\ \A d \in Conns \ {c} : Same(d)
    BY <1>1 DEF Connect, IInv, TypeOK, Stages, Same
  <2>2. ReadInv(c)' /\ SpliceInv(c)'
    BY <1>1 DEF Connect, IInv, TypeOK, ConnInv, ReadInv, SpliceInv, First
  <2>3. StageInv(c)'
    BY <1>1 DEF Connect, IInv, TypeOK, ConnInv, StageInv
  <2>. QED
    BY <2>1, <2>2, <2>3, OneConn DEF ConnInv
<1>2. CASE ClientSends(c)
  <2>1. TypeOK' /\ pkg' = pkg /\ \A d \in Conns \ {c} : Same(d)
    BY <1>2 DEF ClientSends, IInv, TypeOK, Same
  <2>2. ReadInv(c)' /\ SpliceInv(c)'
    BY <1>2 DEF ClientSends, IInv, ConnInv, ReadInv, SpliceInv, First
  <2>3. StageInv(c)'
    BY <1>2 DEF ClientSends, IInv, TypeOK, ConnInv, StageInv, Named, RawFails
  <2>. QED
    BY <2>1, <2>2, <2>3, OneConn DEF ConnInv
<1>3. CASE ClientCloses(c)
  <2>1. TypeOK' /\ pkg' = pkg /\ \A d \in Conns \ {c} : Same(d)
    BY <1>3 DEF ClientCloses, IInv, TypeOK, Same
  <2>2. ReadInv(c)' /\ SpliceInv(c)'
    BY <1>3 DEF ClientCloses, IInv, ConnInv, ReadInv, SpliceInv, First
  <2>3. StageInv(c)'
    BY <1>3 DEF ClientCloses, IInv, TypeOK, ConnInv, StageInv, Named, RawFails
  <2>. QED
    BY <2>1, <2>2, <2>3, OneConn DEF ConnInv
<1>4. CASE Expires(c)
  <2>1. TypeOK' /\ pkg' = pkg /\ \A d \in Conns \ {c} : Same(d)
    BY <1>4 DEF Expires, IInv, TypeOK, Same
  <2>2. ReadInv(c)' /\ SpliceInv(c)'
    BY <1>4 DEF Expires, IInv, ConnInv, ReadInv, SpliceInv, First
  <2>3. StageInv(c)'
    BY <1>4 DEF Expires, IInv, TypeOK, ConnInv, StageInv, Named, RawFails
  <2>. QED
    BY <2>1, <2>2, <2>3, OneConn DEF ConnInv
<1>. QED
  BY <1>1, <1>2, <1>3, <1>4 DEF Environment

\* Nothing of any connection changes, or base.Close resets the backlog.
LEMMA ListensStep ==
  ASSUME IInv, Listens
  PROVE  IInv'
<1>. USE DEF listenerVars, connVars, clientVars, readVars, spliceVars
<1>1. CASE UNCHANGED connVars
  <2>1. TypeOK'
    BY <1>1 DEF IInv, TypeOK
  <2>2. ASSUME NEW d \in Conns PROVE ConnInv(d)'
    BY <1>1, SameKeeps DEF IInv, Same
  <2>. QED
    BY <2>1, <2>2 DEF IInv
<1>2. ASSUME NEW z \in Closers, CloseBase(z) PROVE IInv'
  <2>1. TypeOK' /\ pkg' = pkg
    BY <1>2 DEF CloseBase, IInv, TypeOK, Stages
  <2>2. ASSUME NEW d \in Conns, pc[d] # "backlog" PROVE ConnInv(d)'
    <3>1. Same(d)
      BY <1>2, <2>2 DEF CloseBase, IInv, TypeOK, Same
    <3>. QED
      BY <2>1, <3>1, SameKeeps DEF IInv
  <2>3. ASSUME NEW d \in Conns, pc[d] = "backlog" PROVE ConnInv(d)'
    BY <1>2, <2>3 DEF CloseBase, IInv, TypeOK, ConnInv, ReadInv, SpliceInv, First, StageInv
  <2>. QED
    BY <2>1, <2>2, <2>3 DEF IInv
<1>. QED
  BY <1>1, <1>2 DEF Listens, LoopAcceptFails, LoopStops, LoopReports, AcceptCalled, AcceptClosed,
                    CloseCalled

\* base.Accept returns a connection: nothing has been read from it.
LEMMA AcceptsStep ==
  ASSUME IInv, NEW c \in Conns, Accepts(c)
  PROVE  IInv'
<1>. USE DEF listenerVars, clientVars, readVars, spliceVars
<1>1. PICK first \in {"peek", "tls"} :
        /\ LoopAccepts(c, first)
        /\ first = "tls" => pkg = "reality" /\ ~SniCheck
  BY RealityAssumption DEF Accepts, RealityAccepts
<1>2. TypeOK' /\ pkg' = pkg /\ \A d \in Conns \ {c} : Same(d)
  BY <1>1 DEF LoopAccepts, SetDeadline, IInv, TypeOK, Stages, Same
<1>3. ReadInv(c)' /\ SpliceInv(c)'
  BY <1>1 DEF LoopAccepts, IInv, TypeOK, ConnInv, ReadInv, SpliceInv, First
<1>4. Len(rd[c]) = 0 /\ taken[c] = 0
  BY <1>1 DEF LoopAccepts, IInv, TypeOK, ConnInv, ReadInv, StageInv
<1>5. StageInv(c)'
  BY <1>1, <1>4 DEF LoopAccepts, IInv, TypeOK, StageInv, Named, ShakeLen, RecLen
<1>. QED
  BY <1>2, <1>3, <1>5, OneConn DEF ConnInv

\* A handler that has no upstream yet closes its client and ends.
LEMMA DropsStep ==
  ASSUME IInv, NEW c \in Conns, Drops(c),
         pc[c] \notin {"splice", "ended", "replay"},
         UNCHANGED <<clientVars, readVars, spliceVars>>,
         timer' \in [Conns -> {"off", "armed", "late"}],
         \A d \in Conns \ {c} : timer'[d] = timer[d]
  PROVE  IInv'
<1>. USE DEF clientVars, readVars, spliceVars
<1>1. TypeOK' /\ pkg' = pkg /\ \A d \in Conns \ {c} : Same(d)
  BY DEF Drops, IInv, TypeOK, Stages, Same
<1>2. ReadInv(c)' /\ SpliceInv(c)'
  BY DEF Drops, IInv, TypeOK, ConnInv, ReadInv, SpliceInv, First
<1>3. StageInv(c)'
  BY DEF Drops, IInv, TypeOK, ConnInv, SpliceInv, StageInv
<1>. QED
  BY <1>1, <1>2, <1>3, OneConn DEF ConnInv

\* One of the two copies of a splice ends: both connections are closed.
LEMMA CloseBothStep ==
  ASSUME IInv, NEW c \in Conns, CloseBoth(c),
         pc[c] \in {"splice", "ended", "replay"},
         UNCHANGED <<clientVars, timer, readVars, route, out>>,
         pc' \in [Conns -> Stages], pc'[c] \in {"splice", "ended"},
         pc[c] # "splice" => pc'[c] = "ended",
         up' \in [Conns -> BOOLEAN], up'[c] => up[c],
         \A d \in Conns \ {c} : pc'[d] = pc[d] /\ up'[d] = up[d]
  PROVE  IInv'
<1>. USE DEF clientVars, readVars
<1>1. TypeOK' /\ pkg' = pkg /\ \A d \in Conns \ {c} : Same(d)
  BY DEF CloseBoth, IInv, TypeOK, Same
<1>2. ReadInv(c)' /\ SpliceInv(c)'
  BY DEF CloseBoth, IInv, TypeOK, ConnInv, ReadInv, SpliceInv, First
<1>3. StageInv(c)'
  BY DEF CloseBoth, IInv, TypeOK, ConnInv, StageInv
<1>. QED
  BY <1>1, <1>2, <1>3, OneConn DEF ConnInv

\* The peek keeps what it reads for the replay.
LEMMA PeekStep ==
  ASSUME IInv, NEW c \in Conns, PeekReads(c)
  PROVE  IInv'
<1>. DEFINE p == prefix[c]
            n == taken[c]
<1>. USE DEF listenerVars, clientVars, spliceVars
<1>1. /\ p \in Seq(Nat) /\ n \in Nat /\ Len(rd[c]) = 0 /\ Len(p) = n
      /\ \A i \in 1..n : p[i] = i
  BY DEF PeekReads, IInv, TypeOK, ConnInv, ReadInv, StageInv
<1>2. /\ taken' = [taken EXCEPT ![c] = n + 1]
      /\ prefix' = [prefix EXCEPT ![c] = Append(p, n + 1)]
  BY DEF PeekReads, Teed, IInv, TypeOK
<1>3. /\ Append(p, n + 1) \in Seq(Nat) /\ Len(Append(p, n + 1)) = n + 1
      /\ \A i \in 1..n + 1 : Append(p, n + 1)[i] = i
  BY <1>1
<1>4. TypeOK' /\ pkg' = pkg /\ \A d \in Conns \ {c} : Same(d)
  <2>1. taken' \in [Conns -> Nat] /\ prefix' \in [Conns -> Seq(Nat)]
    BY <1>1, <1>2, <1>3 DEF IInv, TypeOK
  <2>2. \A d \in Conns \ {c} : taken'[d] = taken[d] /\ prefix'[d] = prefix[d]
    BY <1>2 DEF IInv, TypeOK
  <2>. QED
    BY <2>1, <2>2 DEF PeekReads, IInv, TypeOK, Same
<1>5. ReadInv(c)'
  <2>1. /\ Len(rd'[c]) = 0 /\ Len(prefix'[c]) = n + 1 /\ taken'[c] = n + 1
        /\ \A i \in 1..n + 1 : prefix'[c][i] = i
    BY <1>1, <1>2, <1>3 DEF PeekReads, IInv, TypeOK
  <2>. HIDE DEF n
  <2>. QED
    BY <1>1, <2>1 DEF ReadInv
<1>6. SpliceInv(c)'
  BY DEF PeekReads, IInv, TypeOK, ConnInv, SpliceInv, First
<1>7. StageInv(c)'
  BY <1>1, <1>2 DEF PeekReads, PeekedAll, RecLen, IInv, TypeOK, ConnInv, StageInv
<1>. QED
  BY <1>4, <1>5, <1>6, <1>7, OneConn DEF ConnInv

\* The TLS handshake: after its last unit the hello was TLS and ours to answer.
LEMMA ShakeStep ==
  ASSUME IInv, NEW c \in Conns, ShakeReads(c)
  PROVE  IInv'
<1>. USE DEF listenerVars, clientVars, spliceVars
<1>1. /\ taken' \in [Conns -> Nat] /\ prefix' \in [Conns -> Seq(Nat)]
      /\ rd' \in [Conns -> Seq(Nat)]
      /\ ReadInv(c)'
      /\ Len(rd'[c]) = Len(rd[c]) + 1
      /\ RawFails(c) => taken'[c] = taken[c]
      /\ \A d \in Conns \ {c} :
            taken'[d] = taken[d] /\ prefix'[d] = prefix[d] /\ rd'[d] = rd[d]
  BY ReadOne DEF ShakeReads, IInv, ConnInv
<1>2. TypeOK' /\ pkg' = pkg /\ \A d \in Conns \ {c} : Same(d)
  BY <1>1 DEF ShakeReads, IInv, TypeOK, Stages, Same
<1>3. SpliceInv(c)'
  BY <1>1 DEF ShakeReads, IInv, TypeOK, ConnInv, SpliceInv, First
<1>4. StageInv(c)'
  <2>. DEFINE n == Len(rd[c])
              m == Len(rd'[c])
              was == taken[c]
              is == taken'[c]
  <2>1. /\ n \in Nat /\ was \in Nat /\ is \in Nat /\ m = n + 1 /\ m <= is
    BY <1>1, <1>2 DEF IInv, ReadInv, TypeOK
  <2>2. pc[c] = "tls" /\ ~(kind[c].hello = "notTLS" /\ n = 1) /\ kind' = kind /\ pkg' = pkg
    BY DEF ShakeReads
  <2>3. /\ n < ShakeLen
        /\ kind[c].hello = "notTLS" => n <= 1
        /\ Named(c) \/ (pkg = "reality" /\ was < RecLen /\ RawFails(c))
    BY <2>2, Zenon DEF IInv, ConnInv, StageInv
  <2>4. Named(c)' <=> Named(c)
    BY DEF ShakeReads, Named
  <2>5. RawFails(c) => RawFails(c)' /\ is = was
    BY <1>1 DEF ShakeReads, RawFails
  <2>6. pc'[c] = IF m = ShakeLen THEN "secret" ELSE "tls"
    BY DEF ShakeReads, IInv, TypeOK
  <2>. HIDE DEF n, m, was, is
  <2>7. CASE m = ShakeLen
    <3>1. ~(n <= 1) /\ ~(was < RecLen /\ is = was)
      BY <2>1, <2>7 DEF ShakeLen, RecLen
    <3>2. kind[c].hello # "notTLS" /\ Named(c)
      BY <2>3, <2>5, <3>1, Zenon
    <3>. QED
      BY <2>2, <2>4, <2>6, <2>7, <3>2 DEF StageInv, ShakeLen, m
  <2>8. CASE m # ShakeLen
    <3>1. m < ShakeLen
      BY <2>1, <2>3, <2>8 DEF ShakeLen
    <3>2. kind[c].hello = "notTLS" => m <= 1
      BY <2>1, <2>2, <2>3
    <3>3. Named(c)' \/ (pkg = "reality" /\ is < RecLen /\ RawFails(c)')
      BY <2>3, <2>4, <2>5
    <3>. QED
      BY <2>2, <2>6, <2>8, <3>1, <3>2, <3>3 DEF StageInv, m, is
  <2>. QED
    BY <2>7, <2>8
<1>. QED
  BY <1>1, <1>2, <1>3, <1>4, OneConn DEF ConnInv

\* One more unit of the token or the proof.
LEMMA SecretStep ==
  ASSUME IInv, NEW c \in Conns, SecretReads(c)
  PROVE  IInv'
<1>. USE DEF listenerVars, clientVars, spliceVars
<1>1. /\ taken' \in [Conns -> Nat] /\ prefix' \in [Conns -> Seq(Nat)]
      /\ rd' \in [Conns -> Seq(Nat)]
      /\ ReadInv(c)'
      /\ Len(rd'[c]) = Len(rd[c]) + 1
      /\ \A d \in Conns \ {c} :
            taken'[d] = taken[d] /\ prefix'[d] = prefix[d] /\ rd'[d] = rd[d]
  BY ReadOne DEF SecretReads, IInv, ConnInv
<1>2. TypeOK' /\ pkg' = pkg /\ \A d \in Conns \ {c} : Same(d)
  BY <1>1 DEF SecretReads, IInv, TypeOK, Same
<1>3. SpliceInv(c)'
  BY <1>1 DEF SecretReads, IInv, TypeOK, ConnInv, SpliceInv, First
<1>4. StageInv(c)'
  BY <1>1 DEF SecretReads, IInv, TypeOK, ConnInv, StageInv, Named, ShakeLen
<1>. QED
  BY <1>1, <1>2, <1>3, <1>4, OneConn DEF ConnInv

\* The tunnel is handed to an Accept.
LEMMA DeliverStep ==
  ASSUME IInv, NEW c \in Conns, NEW x \in Acceptors, Deliver(c, x)
  PROVE  IInv'
<1>. USE DEF clientVars, readVars, spliceVars
<1>1. TypeOK' /\ pkg' = pkg /\ \A d \in Conns \ {c} : Same(d)
  BY DEF Deliver, IInv, TypeOK, Stages, Same
<1>2. ReadInv(c)' /\ SpliceInv(c)'
  BY DEF Deliver, IInv, TypeOK, ConnInv, ReadInv, SpliceInv, First
<1>3. StageInv(c)'
  BY DEF Deliver, IInv, TypeOK, ConnInv, StageInv, Named
<1>. QED
  BY <1>1, <1>2, <1>3, OneConn DEF ConnInv

\* The upstream is dialled; a raw splice starts with nothing read.
LEMMA DialledStep ==
  ASSUME IInv, NEW c \in Conns, Dialled(c)
  PROVE  IInv'
<1>. USE DEF listenerVars, clientVars, readVars
<1>1. TypeOK' /\ pkg' = pkg /\ \A d \in Conns \ {c} : Same(d)
  BY DEF Dialled, IInv, TypeOK, Stages, Same
<1>2. ReadInv(c)'
  BY DEF Dialled, IInv, ConnInv, ReadInv
<1>3. SpliceInv(c)'
  <2>1. /\ pc[c] = "dial" /\ Len(out[c]) = 0
        /\ \/ route[c] = "pass" /\ Len(rd[c]) = 0
           \/ route[c] = "proxy" /\ Len(rd[c]) >= ShakeLen
    BY DEF Dialled, IInv, ConnInv, SpliceInv
  <2>2. /\ pc'[c] = IF route[c] = "pass" THEN "splice" ELSE "replay"
        /\ up'[c] = (route[c] = "pass")
        /\ UNCHANGED <<route, rd, out>>
    BY DEF Dialled, IInv, TypeOK
  <2>3. CASE route[c] = "pass"
    <3>1. /\ pc'[c] = "splice" /\ Len(out'[c]) = 0 /\ Len(rd'[c]) = 0 /\ First(c)' = 0
      BY <2>1, <2>2, <2>3 DEF First
    <3>. QED
      BY <3>1 DEF SpliceInv
  <2>4. CASE route[c] = "proxy"
    <3>1. /\ pc'[c] = "replay" /\ Len(out'[c]) = 0 /\ ~up'[c]
          /\ route'[c] = "proxy" /\ Len(rd'[c]) >= ShakeLen
      BY <2>1, <2>2, <2>4
    <3>. QED
      BY <3>1 DEF SpliceInv
  <2>. QED
    BY <2>1, <2>3, <2>4
<1>4. StageInv(c)'
  BY DEF Dialled, IInv, TypeOK, ConnInv, StageInv
<1>. QED
  BY <1>1, <1>2, <1>3, <1>4, OneConn DEF ConnInv

\* One more unit for the upstream: the one that comes next.
LEMMA UpCopiesStep ==
  ASSUME IInv, NEW c \in Conns, UpCopies(c)
  PROVE  IInv'
<1>. USE DEF listenerVars, clientVars
<1>1. /\ taken' \in [Conns -> Nat] /\ prefix' \in [Conns -> Seq(Nat)]
      /\ rd' \in [Conns -> Seq(Nat)]
      /\ ReadInv(c)'
      /\ Len(rd'[c]) = Len(rd[c]) + 1
      /\ \A d \in Conns \ {c} :
            taken'[d] = taken[d] /\ prefix'[d] = prefix[d] /\ rd'[d] = rd[d]
  BY ReadOne DEF UpCopies, IInv, ConnInv
<1>. DEFINE o == out[c]
            u == rd'[c][Len(rd'[c])]
            f == First(c)
<1>2. /\ o \in Seq(Nat) /\ f \in Nat /\ pc[c] \in {"splice", "ended"}
      /\ Len(o) + f = Len(rd[c])
      /\ \A i \in 1..Len(o) : o[i] = f + i
  BY DEF UpCopies, IInv, TypeOK, ConnInv, SpliceInv, First, ShakeLen
<1>3. u = Len(o) + 1 + f
  <2>. DEFINE k == Len(rd[c])
              l == Len(o)
              m == Len(rd'[c])
  <2>1. k \in Nat /\ l \in Nat /\ f \in Nat /\ l + f = k /\ m = k + 1
    BY <1>1, <1>2 DEF IInv, TypeOK
  <2>2. \A i \in 1..m : rd'[c][i] = i
    BY <1>1 DEF ReadInv
  <2>. HIDE DEF k, l, m, f
  <2>3. m \in 1..m /\ m = l + 1 + f
    BY <2>1
  <2>. QED
    BY <2>2, <2>3 DEF l, m
<1>4. /\ Append(o, u) \in Seq(Nat) /\ Len(Append(o, u)) = Len(o) + 1
      /\ \A i \in 1..Len(o) + 1 : Append(o, u)[i] = f + i
  <2>. HIDE DEF o, u, f
  <2>. QED
    BY <1>2, <1>3
<1>5. /\ out' = [out EXCEPT ![c] = Append(o, u)] /\ out'[c] = Append(o, u)
      /\ UNCHANGED <<pkg, kind, sent, eof, pc, timer, open, dst, route, up>>
  BY DEF UpCopies, IInv, TypeOK
<1>6. TypeOK'
  <2>1. out' \in [Conns -> Seq(Nat)]
    <3>. HIDE DEF o, u
    <3>. QED
      BY <1>4, <1>5 DEF IInv, TypeOK
  <2>. QED
    BY <1>1, <1>5, <2>1 DEF IInv, TypeOK
<1>7. \A d \in Conns \ {c} : Same(d)
  <2>. HIDE DEF o, u
  <2>. QED
    BY <1>1, <1>5 DEF IInv, TypeOK, Same
<1>8. SpliceInv(c)'
  <2>1. First(c)' = f
    BY <1>5 DEF First
  <2>2. Len(out'[c]) = Len(o) + 1 /\ \A i \in 1..Len(out'[c]) : out'[c][i] = f + i
    BY <1>4, <1>5
  <2>3. Len(out'[c]) + f = Len(rd'[c])
    <3>. DEFINE l == Len(o)
                k == Len(rd[c])
    <3>1. l \in Nat /\ k \in Nat /\ f \in Nat /\ l + f = k
      BY <1>2 DEF IInv, TypeOK
    <3>2. Len(out'[c]) = l + 1 /\ Len(rd'[c]) = k + 1
      BY <1>1, <2>2
    <3>. HIDE DEF l, k, f
    <3>. QED
      BY <3>1, <3>2
  <2>4. pc'[c] \in {"splice", "ended"}
    BY <1>2, <1>5
  <2>. HIDE DEF f
  <2>. QED
    BY <2>1, <2>2, <2>3, <2>4 DEF SpliceInv
<1>9. StageInv(c)'
  BY <1>2, <1>5 DEF IInv, TypeOK, ConnInv, StageInv
<1>. QED
  BY <1>1, <1>5, <1>6, <1>7, <1>8, <1>9, OneConn DEF ConnInv

\* The steps both packages take alike.
LEMMA SharedStep ==
  ASSUME IInv, NEW c \in Conns, HandlerShared(c)
  PROVE  IInv'
<1>. USE DEF listenerVars, clientVars, readVars, spliceVars
<1>1. CASE ShakeFails(c) \/ OfferClosed(c) \/ DialFails(c)
  BY <1>1, DropsStep DEF ShakeFails, OfferClosed, DialFails, IInv, TypeOK
<1>2. CASE UpEnds(c)
  <2>1. pc[c] \in {"splice", "ended"}
    BY <1>2 DEF UpEnds, IInv, ConnInv, SpliceInv
  <2>. QED
    BY <1>2, <2>1, CloseBothStep DEF UpEnds, IInv, TypeOK
<1>3. CASE DownEnds(c)
  BY <1>3, CloseBothStep DEF DownEnds, IInv, TypeOK, Stages
<1>. QED
  BY <1>1, <1>2, <1>3, PeekStep, ShakeStep, SecretStep, DeliverStep, DialledStep, UpCopiesStep
     DEF HandlerShared

\* A connection whose peek is over is spliced raw, or dropped.
LEMMA PassthroughStep ==
  ASSUME IInv, NEW c \in Conns, pc[c] = "peek", Passthrough(c)
  PROVE  IInv'
<1>. USE DEF listenerVars, clientVars, readVars, spliceVars
<1>1. CASE ~Dest
  BY <1>1, DropsStep DEF Passthrough, IInv, TypeOK
<1>2. CASE Dest
  <2>1. /\ pc' = [pc EXCEPT ![c] = "dial"] /\ route' = [route EXCEPT ![c] = "pass"]
        /\ timer' = [timer EXCEPT ![c] = "off"]
        /\ UNCHANGED <<clientVars, readVars, open, dst, out, up>>
    BY <1>2 DEF Passthrough, ClearDeadline
  <2>6. TypeOK' /\ pkg' = pkg
    BY <2>1 DEF IInv, TypeOK, Stages
  <2>7. \A d \in Conns \ {c} : Same(d)
    BY <2>1 DEF IInv, TypeOK, Same
  <2>2. /\ pc'[c] = "dial" /\ route'[c] = "pass" /\ timer'[c] = "off"
        /\ UNCHANGED <<kind, taken, prefix, rd, open, dst, out, up>>
    BY <1>2 DEF Passthrough, ClearDeadline, IInv, TypeOK
  <2>3. ReadInv(c)'
    BY <2>2 DEF IInv, ConnInv, ReadInv
  <2>4. SpliceInv(c)'
    <3>1. Len(rd[c]) = 0 /\ Len(out[c]) = 0 /\ dst[c] = "none" /\ ~up[c]
      BY DEF IInv, ConnInv, SpliceInv, StageInv
    <3>. QED
      BY <2>2, <3>1 DEF SpliceInv
  <2>5. StageInv(c)'
    BY <2>2 DEF StageInv
  <2>. QED
    BY <2>3, <2>4, <2>5, <2>6, <2>7, OneConn DEF ConnInv
<1>. QED
  BY <1>1, <1>2

\* A hello that may be answered, or a connection that is broken, goes to TLS.
LEMMA ToTLSStep ==
  ASSUME IInv, NEW c \in Conns, pc[c] = "peek",
         Named(c) \/ (pkg = "reality" /\ taken[c] < RecLen /\ RawFails(c)),
         pc' = [pc EXCEPT ![c] = "tls"],
         UNCHANGED <<clientVars, timer, readVars, open, spliceVars>>
  PROVE  IInv'
<1>. USE DEF clientVars, readVars, spliceVars
<1>1. TypeOK' /\ pkg' = pkg /\ \A d \in Conns \ {c} : Same(d)
  BY DEF IInv, TypeOK, Stages, Same
<1>2. ReadInv(c)' /\ SpliceInv(c)'
  BY DEF IInv, TypeOK, ConnInv, ReadInv, SpliceInv, First
<1>3. StageInv(c)'
  <2>1. Len(rd'[c]) = 0 /\ pc'[c] = "tls"
    BY DEF IInv, TypeOK, ConnInv, StageInv
  <2>2. Named(c)' \/ (pkg' = "reality" /\ taken'[c] < RecLen /\ RawFails(c)')
    BY DEF Named, RawFails
  <2>. QED
    BY <2>1, <2>2 DEF StageInv, ShakeLen
<1>. QED
  BY <1>1, <1>2, <1>3, OneConn DEF ConnInv

\* The secret was right: the tunnel is offered with its deadline off.
LEMMA OfferStep ==
  ASSUME IInv, NEW c \in Conns, pc[c] = "secret",
         SecretRead(c) = SecretLen, kind[c].secret = "right",
         pkg = "reality" => SecretLen > 0,
         timer' = [timer EXCEPT ![c] = "off"],
         pc' = [pc EXCEPT ![c] = "offer"],
         UNCHANGED <<clientVars, readVars, open, spliceVars>>
  PROVE  IInv'
<1>. USE DEF clientVars, readVars, spliceVars
<1>1. TypeOK' /\ pkg' = pkg /\ \A d \in Conns \ {c} : Same(d)
  BY DEF IInv, TypeOK, Stages, Same
<1>2. ReadInv(c)' /\ SpliceInv(c)'
  BY DEF IInv, TypeOK, ConnInv, ReadInv, SpliceInv, First
<1>3. StageInv(c)'
  <2>1. pc'[c] = "offer" /\ timer'[c] = "off"
    BY DEF IInv, TypeOK
  <2>2. Len(rd[c]) >= ShakeLen /\ kind[c].hello # "notTLS" /\ Named(c)
    BY DEF IInv, ConnInv, StageInv
  <2>3. Named(c)'
    BY <2>2 DEF Named
  <2>4. Len(rd[c]) = ShakeLen + SecretLen
    BY GuardedAssumption DEF SecretRead, ShakeLen, IInv, TypeOK
  <2>. QED
    BY <2>1, <2>2, <2>3, <2>4 DEF StageInv
<1>. QED
  BY <1>1, <1>2, <1>3, OneConn DEF ConnInv

\* The consumed part of the token is replayed: the units behind the handshake.
LEMMA ReplaysStep ==
  ASSUME IInv, NEW c \in Conns, Replays(c)
  PROVE  IInv'
<1>. USE DEF listenerVars, clientVars, readVars
<1>. DEFINE r == rd[c]
            k == Len(rd[c])
            o == Consumed(c)
<1>1. /\ r \in Seq(Nat) /\ k \in Nat /\ k >= ShakeLen
      /\ route[c] = "proxy" /\ \A i \in 1..k : r[i] = i
  BY DEF Replays, IInv, TypeOK, ConnInv, ReadInv, SpliceInv
<1>2. /\ o \in Seq(Nat) /\ Len(o) = k - ShakeLen
      /\ \A i \in 1..k - ShakeLen : o[i] = ShakeLen + i
  <2>. DEFINE z == ShakeLen + 1
  <2>1. z \in Int /\ k \in Int /\ \A i \in z..k : r[i] \in Nat
    BY <1>1 DEF ShakeLen
  <2>2. /\ SubSeq(r, z, k) \in Seq(Nat)
        /\ Len(SubSeq(r, z, k)) = IF z <= k THEN k - z + 1 ELSE 0
        /\ \A i \in 1..k - z + 1 : SubSeq(r, z, k)[i] = r[z + i - 1]
    BY <2>1, SubSeqProperties
  <2>3. o = SubSeq(r, z, k)
    BY DEF Consumed
  <2>. HIDE DEF r, k, o
  <2>. QED
    BY <1>1, <2>2, <2>3 DEF ShakeLen
<1>3. /\ out' = [out EXCEPT ![c] = o]
      /\ pc' = [pc EXCEPT ![c] = "splice"]
      /\ up' = [up EXCEPT ![c] = TRUE]
      /\ UNCHANGED <<clientVars, timer, readVars, open, dst, route>>
  BY DEF Replays
<1>. HIDE DEF o
<1>4. TypeOK' /\ pkg' = pkg
  BY <1>2, <1>3 DEF IInv, TypeOK, Stages
<1>5. \A d \in Conns \ {c} : Same(d)
  BY <1>3 DEF IInv, TypeOK, Same
<1>6. out'[c] = o /\ pc'[c] = "splice" /\ up'[c] /\ route'[c] = "proxy" /\ Len(rd'[c]) = k
  BY <1>1, <1>3 DEF IInv, TypeOK
<1>7. ReadInv(c)'
  BY <1>3 DEF IInv, ConnInv, ReadInv
<1>8. SpliceInv(c)'
  <2>1. First(c)' = ShakeLen
    BY <1>6 DEF First
  <2>2. Len(out'[c]) = k - ShakeLen /\ \A i \in 1..Len(out'[c]) : out'[c][i] = ShakeLen + i
    BY <1>2, <1>6
  <2>. HIDE DEF k
  <2>3. Len(out'[c]) + ShakeLen = Len(rd'[c])
    BY <1>1, <1>6, <2>2 DEF ShakeLen
  <2>. QED
    BY <1>6, <2>1, <2>2, <2>3 DEF SpliceInv
<1>9. StageInv(c)'
  <2>1. timer[c] = "off"
    BY DEF Replays, IInv, ConnInv, StageInv
  <2>. QED
    BY <1>3, <1>6, <2>1 DEF StageInv
<1>. QED
  BY <1>4, <1>5, <1>7, <1>8, <1>9, OneConn DEF ConnInv

\* The decisions of the reality handler.
LEMMA RealityStep ==
  ASSUME IInv, NEW c \in Conns, pkg = "reality", RealityHandler(c)
  PROVE  IInv'
<1>. USE DEF listenerVars, clientVars, readVars, spliceVars
<1>1. CASE Decides(c)
  <2>1. pc[c] = "peek" /\ (PeekedAll(c) \/ RawFails(c))
    BY <1>1 DEF Decides, PeekEnds
  <2>2. CASE Passthrough(c)
    BY <2>1, <2>2, PassthroughStep
  <2>3. CASE /\ PeekOk(c) => ServerNameAllowed(c)
             /\ pc' = [pc EXCEPT ![c] = "tls"]
             /\ UNCHANGED <<clientVars, timer, readVars, open, spliceVars>>
    <3>1. CASE PeekedAll(c)
      <4>1. Named(c)
        BY <2>3, <3>1 DEF Named, PeekOk, ServerNameAllowed
      <4>. QED
        BY <2>1, <2>3, <4>1, ToTLSStep
    <3>2. CASE ~PeekedAll(c)
      <4>1. taken[c] < RecLen
        BY <2>1, <3>2 DEF IInv, TypeOK, ConnInv, StageInv, PeekedAll, RecLen
      <4>. QED
        BY <2>1, <2>3, <3>2, <4>1, ToTLSStep
    <3>. QED
      BY <3>1, <3>2
  <2>. QED
    BY <1>1, <2>2, <2>3 DEF Decides
<1>2. CASE TokenAccepted(c)
  BY <1>2, OfferStep DEF TokenAccepted, TokenEnds, Authed, ClearDeadline
<1>3. CASE TokenRefused(c)
  <2>1. CASE ~Fallback
    BY <1>3, <2>1, DropsStep DEF TokenRefused, TokenEnds, ClearDeadline, IInv, TypeOK
  <2>2. CASE Fallback
    <3>1. /\ pc' = [pc EXCEPT ![c] = "dial"] /\ route' = [route EXCEPT ![c] = "proxy"]
          /\ timer' = [timer EXCEPT ![c] = "off"]
          /\ UNCHANGED <<clientVars, readVars, open, dst, out, up>>
          /\ pc[c] = "secret"
      BY <1>3, <2>2 DEF TokenRefused, TokenEnds, ClearDeadline
    <3>2. TypeOK' /\ pkg' = pkg
      BY <3>1 DEF IInv, TypeOK, Stages
    <3>3. \A d \in Conns \ {c} : Same(d)
      BY <3>1 DEF IInv, TypeOK, Same
    <3>4. /\ pc'[c] = "dial" /\ route'[c] = "proxy" /\ timer'[c] = "off"
          /\ UNCHANGED <<kind, taken, prefix, rd, open, dst, out, up>>
      BY <3>1 DEF IInv, TypeOK
    <3>5. ReadInv(c)'
      BY <3>4 DEF IInv, ConnInv, ReadInv
    <3>6. SpliceInv(c)'
      <4>1. Len(rd[c]) >= ShakeLen /\ Len(out[c]) = 0 /\ dst[c] = "none" /\ ~up[c]
        BY <3>1 DEF IInv, ConnInv, SpliceInv, StageInv
      <4>. QED
        BY <3>4, <4>1 DEF SpliceInv
    <3>7. StageInv(c)'
      BY <3>4 DEF StageInv
    <3>. QED
      BY <3>2, <3>3, <3>5, <3>6, <3>7, OneConn DEF ConnInv
  <2>. QED
    BY <2>1, <2>2
<1>4. CASE Replays(c)
  BY <1>4, ReplaysStep
<1>5. CASE ReplayFails(c)
  BY <1>5, CloseBothStep DEF ReplayFails, IInv, TypeOK, Stages
<1>. QED
  BY <1>1, <1>2, <1>3, <1>4, <1>5 DEF RealityHandler

\* The decisions of the xreality handler.
LEMMA XRealityStep ==
  ASSUME IInv, NEW c \in Conns, pkg = "xreality", XRealityHandler(c)
  PROVE  IInv'
<1>. USE DEF listenerVars, clientVars, readVars, spliceVars
<1>1. CASE Judges(c)
  <2>1. CASE Authenticates(c)
    <3>1. Named(c)
      BY <2>1 DEF Authenticates, PeekOk, Named
    <3>. QED
      BY <1>1, <2>1, <3>1, ToTLSStep DEF Judges, PeekEnds
  <2>2. CASE ~Authenticates(c)
    BY <1>1, <2>2, PassthroughStep DEF Judges, PeekEnds
  <2>. QED
    BY <2>1, <2>2
<1>2. CASE ProofAccepted(c)
  BY <1>2, OfferStep DEF ProofAccepted, ClearDeadline
<1>3. CASE ProofRefused(c)
  BY <1>3, DropsStep DEF ProofRefused, IInv, TypeOK
<1>. QED
  BY <1>1, <1>2, <1>3 DEF XRealityHandler
-----------------------------------------------------------------------------
\* Every step of a listener, its handlers and its clients keeps the invariant.
LEMMA NextIInv == IInv /\ [Next]_vars => IInv'
<1>. SUFFICES ASSUME IInv, [Next]_vars PROVE IInv'
  OBVIOUS
<1>1. CASE UNCHANGED vars
  <2>1. TypeOK'
    BY <1>1 DEF vars, connVars, clientVars, readVars, spliceVars, IInv, TypeOK
  <2>2. ASSUME NEW d \in Conns PROVE ConnInv(d)'
    BY <1>1, SameKeeps DEF vars, connVars, clientVars, readVars, spliceVars, IInv, Same
  <2>. QED
    BY <2>1, <2>2 DEF IInv
<1>2. CASE Next
  BY <1>2, EnvironmentStep, AcceptsStep, SharedStep, RealityStep, XRealityStep, ListensStep
     DEF Next, Handler
<1>. QED
  BY <1>1, <1>2

\* The inductive invariant holds in every reachable state.
LEMMA Invariance == Spec => []IInv
BY InitIInv, NextIInv, PTL DEF Spec

\* Behind the peek nobody misses a byte: what was read from a connection and what
\* prefixConn still has to replay are exactly what was taken from it, in order.
THEOREM PeekLosesNothing == Spec => []ReplayIntact
<1>1. IInv => ReplayIntact
  <2>. SUFFICES ASSUME IInv, NEW c \in Conns
                PROVE  rd[c] \o prefix[c] = [i \in 1..taken[c] |-> i]
    BY DEF ReplayIntact
  <2>. DEFINE r == rd[c]
              p == prefix[c]
              t == taken[c]
              l == Len(r)
              k == Len(p)
              w == [i \in 1..t |-> i]
  <2>1. /\ r \in Seq(Nat) /\ p \in Seq(Nat) /\ t \in Nat /\ l \in Nat /\ k \in Nat
        /\ l + k = t
        /\ \A i \in 1..l : r[i] = i
        /\ \A i \in 1..k : p[i] = l + i
    BY DEF IInv, TypeOK, ConnInv, ReadInv
  <2>2. /\ r \o p \in Seq(Nat) /\ Len(r \o p) = l + k
        /\ \A i \in 1..l + k : (r \o p)[i] = IF i <= l THEN r[i] ELSE p[i - l]
    BY <2>1, ConcatProperties
  <2>3. w \in Seq(Nat) /\ Len(w) = t /\ \A i \in 1..t : w[i] = i
    BY <2>1
  <2>4. \A i \in 1..t : (r \o p)[i] = i
    <3>. HIDE DEF r, p, t, l, k
    <3>. QED
      BY <2>1, <2>2
  <2>. HIDE DEF r, p, t, l, k, w
  <2>5. r \o p = w
    BY <2>1, <2>2, <2>3, <2>4, SeqEqual
  <2>. QED
    BY <2>5 DEF r, p, t, w
<1>. QED
  BY <1>1, Invariance, PTL

\* An upstream gets the client's bytes in order and without a gap, the consumed
\* part of a refused token included.
THEOREM SpliceIsTransparent == Spec => []Transparent
<1>1. IInv => Transparent
  <2>. SUFFICES ASSUME IInv, NEW c \in Conns, NEW i \in DOMAIN out[c]
                PROVE  out[c][i] = First(c) + i
    BY DEF Transparent, First
  <2>1. out[c] \in Seq(Nat) /\ \A j \in 1..Len(out[c]) : out[c][j] = First(c) + j
    BY DEF IInv, TypeOK, ConnInv, SpliceInv
  <2>2. i \in 1..Len(out[c])
    BY <2>1, LenProperties
  <2>. QED
    BY <2>1, <2>2
<1>. QED
  BY <1>1, Invariance, PTL

\* No tunnel and no spliced connection keeps the handshake deadline.
THEOREM DeadlineCleared == Spec => []DeadlineOff
<1>1. IInv => DeadlineOff
  BY DEF IInv, ConnInv, StageInv, DeadlineOff
<1>. QED
  BY <1>1, Invariance, PTL

\* A handler that has ended has closed its client and its upstream.
THEOREM HandlerLeaksNothing == Spec => []NothingLeft
<1>1. IInv => NothingLeft
  BY DEF IInv, ConnInv, StageInv, NothingLeft
<1>. QED
  BY <1>1, Invariance, PTL

\* Accept of either package returns only authenticated tunnels.
THEOREM OnlyAuthedDelivered == Spec => []OnlyAuthed
<1>1. IInv => OnlyAuthed
  BY DEF IInv, ConnInv, StageInv, Named, OnlyAuthed
<1>. QED
  BY <1>1, Invariance, PTL
=============================================================================
