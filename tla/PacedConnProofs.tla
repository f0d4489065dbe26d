-------------------------- MODULE PacedConnProofs ---------------------------
(***************************************************************************)
(* Proofs about PacedConn, for every number of writers and closers, every  *)
(* queue capacity and every carrier capacity.                              *)
(***************************************************************************)
EXTENDS PacedConn, BaseConnProofs

\* The phases of Close that run inside closeOnce.
Active   == {"join", "flush", "flushing", "closeBase"}
Flushing == {"flush", "flushing", "closeBase"}

\* Number of cells that have left sendQ.
Taken == enq - Len(sendQ)

\* A Write that has not returned has cells left to hand over.
WriterInv == \A w \in Writers : wpc[w] # "idle" => todo[w] > 0

\* sendQ holds the latest cells, in order and without a gap.
QueueInv ==
  /\ Len(sendQ) <= enq
  /\ \A i \in DOMAIN sendQ : sendQ[i] = Taken + i

\* One closer at a time is inside closeOnce, past wg.Wait only when the pacer
\* has exited, and the base is closed by the last of its steps.
CloseInv ==
  /\ closeMark <= enq
  /\ \A c \in Closers :
       /\ cpc[c] # "idle" => done
       /\ cpc[c] \in Flushing => ppc = "exited"
       /\ cpc[c] = "returned" => ~baseOpen
       /\ cpc[c] \in Active => \A d \in Closers \ {c} : cpc[d] \in {"idle", "once"}
  /\ ~baseOpen => done /\ ppc = "exited" /\ \A c \in Closers : cpc[c] \notin Active

\* The pacer stores its error before it closes paceDead, and has one only when
\* a base write failed.
ErrInv ==
  /\ paceDead => paceErr
  /\ ppc = "erred" => paceErr
  /\ ppc = "failed" => broken
  /\ paceErr => broken
  /\ ErrorReported

\* The base connection has accepted the data cells 1..s: all those that left
\* sendQ but the one in the hands of the pacer or of flushQueue.
Progress(s) ==
  /\ s <= Taken
  /\ ~broken =>
       /\ ppc = "write" /\ pcell # Cover => pcell = Taken /\ s + 1 = Taken
       /\ \A c \in Closers : cpc[c] = "flushing" => fcell = Taken /\ s + 1 = Taken
       /\ (ppc = "write" => pcell = Cover) /\ (\A c \in Closers : cpc[c] # "flushing")
            => s = Taken
       /\ (\E c \in Closers : cpc[c] = "closeBase") \/ ~baseOpen => closeMark <= s

\* As long as no write failed, or when a failure is final, the wire and the
\* peer hold exactly the cells accepted so far.
StreamInv ==
  Sticky \/ ~broken => \E s \in Nat : WireHolds(s) /\ Progress(s)

IInv ==
  /\ TypeOK
  /\ WriterInv
  /\ QueueInv
  /\ CloseInv
  /\ ErrInv
  /\ StreamInv
-----------------------------------------------------------------------------
\* The initial state satisfies the inductive invariant.
LEMMA InitIInv == Init => IInv
<1>. SUFFICES ASSUME Init PROVE IInv
  OBVIOUS
<1>1. TypeOK
  <2>1. BaseTypeOK
    <3>1. <<>> \in Seq(WireCell) /\ <<>> \in Seq(Nat \cup {Garbage})
      OBVIOUS
    <3>. QED
      BY <3>1 DEF Init, BaseInit, BaseTypeOK
  <2>2. todo \in [Writers -> 0..MaxCells] /\ mine \in [Writers -> SUBSET Nat]
    BY PacedAssumption DEF Init
  <2>3. sendQ \in Seq(Nat \ {0}) /\ Len(sendQ) <= Queue
    BY PacedAssumption DEF Init
  <2>. QED
    BY <2>1, <2>2, <2>3 DEF Init, TypeOK, Cover
<1>2. WriterInv /\ QueueInv /\ CloseInv /\ ErrInv
  BY DEF Init, BaseInit, WriterInv, QueueInv, CloseInv, ErrInv, ErrorReported, Taken,
         Active, Flushing
<1>3. WireHolds(0)
  <2>1. rcvd = <<>> /\ wire = <<>> /\ Len(rcvd) = 0 /\ DOMAIN rcvd = {} /\ DOMAIN wire = {}
    BY DEF Init, BaseInit
  <2>2. \A n \in Nat : ~(0 < n /\ n <= 0)
    OBVIOUS
  <2>. QED
    BY <2>1, <2>2 DEF WireHolds
<1>4. Progress(0)
  <2>1. Taken = 0
    <3>1. enq = 0 /\ Len(sendQ) = 0
      BY DEF Init
    <3>. QED
      BY <3>1 DEF Taken
  <2>. QED
    BY <2>1 DEF Init, BaseInit, Progress
<1>. QED
  BY <1>1, <1>2, <1>3, <1>4 DEF IInv, StreamInv

\* Every step keeps the types; a Write counts its cells down to zero.
LEMMA TypeStep ==
  ASSUME TypeOK, WriterInv, Next
  PROVE  TypeOK' /\ WriterInv'
<1>1. ASSUME NEW w \in Writers, WriteRefused(w) PROVE TypeOK' /\ WriterInv'
  BY <1>1 DEF TypeOK, WriterInv, WriteRefused, BaseTypeOK, pacerVars, closeVars, baseVars
<1>2. ASSUME NEW w \in Writers, NEW n \in 1..MaxCells, WriteBegin(w, n)
      PROVE  TypeOK' /\ WriterInv'
  BY <1>2, PacedAssumption
     DEF TypeOK, WriterInv, WriteBegin, BaseTypeOK, pacerVars, closeVars, baseVars
<1>3. ASSUME NEW w \in Writers, ResetSurge(w) PROVE TypeOK' /\ WriterInv'
  BY <1>3 DEF TypeOK, WriterInv, ResetSurge, BaseTypeOK, pacerVars, closeVars, baseVars
<1>4. ASSUME NEW w \in Writers, Send(w) PROVE TypeOK' /\ WriterInv'
  <2>1. /\ todo' \in [Writers -> 0..MaxCells]
        /\ \A v \in Writers \ {w} : todo'[v] = todo[v]
        /\ todo'[w] = todo[w] - 1 /\ todo[w] > 0
    BY <1>4, PacedAssumption DEF TypeOK, WriterInv, Send, Enqueue
  <2>2. /\ wpc' \in [Writers -> {"idle", "surge", "send"}]
        /\ result' \in [Writers -> {"none", "ok", "baseErr", "ErrClosed"}]
    BY <1>4 DEF TypeOK, Send, Enqueue
  <2>3. mine' \in [Writers -> SUBSET Nat] /\ acked' \in SUBSET Nat /\ enq' \in Nat
    <3>1. enq' \in Nat /\ mine \in [Writers -> SUBSET Nat] /\ acked \in SUBSET Nat
      BY <1>4 DEF TypeOK, Send, Enqueue
    <3>2. mine' = [mine EXCEPT ![w] = mine[w] \cup {enq'}] /\ acked' \in {acked, acked \cup mine'[w]}
      BY <1>4 DEF Send, Enqueue
    <3>3. mine[w] \cup {enq'} \in SUBSET Nat
      BY <3>1
    <3>4. mine' \in [Writers -> SUBSET Nat]
      BY <3>1, <3>2, <3>3
    <3>. QED
      BY <3>1, <3>2, <3>4
  <2>4. sendQ' \in Seq(Nat \ {0}) /\ Len(sendQ') <= Queue
    BY <1>4, PacedAssumption DEF TypeOK, Send, Enqueue
  <2>5. TypeOK'
    BY <1>4, <2>1, <2>2, <2>3, <2>4
       DEF TypeOK, Send, Enqueue, BaseTypeOK, pacerVars, closeVars, baseVars
  <2>6. WriterInv'
    BY <1>4, <2>1 DEF TypeOK, WriterInv, Send, Enqueue
  <2>. QED
    BY <2>5, <2>6
<1>5. ASSUME NEW w \in Writers, SendDead(w) \/ SendClosed(w) PROVE TypeOK' /\ WriterInv'
  <2>1. PICK err \in {"baseErr", "ErrClosed"} : WriteReturns(w, err)
    BY <1>5 DEF SendDead, SendClosed
  <2>2. /\ todo' \in [Writers -> 0..MaxCells]
        /\ result' \in [Writers -> {"none", "ok", "baseErr", "ErrClosed"}]
    BY <2>1, PacedAssumption DEF TypeOK, WriteReturns
  <2>3. TypeOK'
    BY <2>1, <2>2 DEF TypeOK, WriteReturns, BaseTypeOK, pacerVars, closeVars, baseVars
  <2>4. WriterInv'
    BY <2>1 DEF TypeOK, WriterInv, WriteReturns
  <2>. QED
    BY <2>3, <2>4
<1>6. CASE PacerTakes
  <2>1. pcell' \in Nat /\ sendQ' \in Seq(Nat \ {0}) /\ Len(sendQ') <= Queue
    BY <1>6, PacedAssumption DEF TypeOK, PacerTakes
  <2>. QED
    BY <1>6, <2>1
       DEF TypeOK, WriterInv, PacerTakes, BaseTypeOK, writerVars, closeVars, baseVars
<1>7. CASE PacerCovers
  BY <1>7 DEF TypeOK, WriterInv, PacerCovers, BaseTypeOK, Cover, writerVars, closeVars, baseVars
<1>8. CASE PacerWrites
  <2>1. BaseTypeOK'
    BY <1>8, BaseWriteType DEF TypeOK, PacerWrites
  <2>. QED
    BY <1>8, <2>1 DEF TypeOK, WriterInv, PacerWrites, writerVars, closeVars
<1>9. CASE PacerFails
  <2>1. BaseTypeOK'
    BY <1>9, BaseWriteFailsType DEF TypeOK, PacerFails
  <2>. QED
    BY <1>9, <2>1 DEF TypeOK, WriterInv, PacerFails, writerVars, closeVars
<1>10. CASE SetPaceErr \/ ClosePaceDead \/ PacerStops
  BY <1>10 DEF TypeOK, WriterInv, SetPaceErr, ClosePaceDead, PacerStops, BaseTypeOK,
               writerVars, closeVars, baseVars
<1>11. ASSUME NEW c \in Closers,
              CloseCalled(c) \/ CloseCalledAgain(c) \/ CloseJoins(c) \/ FlushEnds(c)
                \/ CloseReturnsAgain(c)
       PROVE  TypeOK' /\ WriterInv'
  BY <1>11 DEF TypeOK, WriterInv, CloseCalled, CloseCalledAgain, CloseJoins, FlushEnds,
               CloseReturnsAgain, CloseMoves, BaseTypeOK, writerVars, pacerVars, baseVars
<1>12. ASSUME NEW c \in Closers, FlushTakes(c) PROVE TypeOK' /\ WriterInv'
  <2>1. fcell' \in Nat /\ sendQ' \in Seq(Nat \ {0}) /\ Len(sendQ') <= Queue
    BY <1>12, PacedAssumption DEF TypeOK, FlushTakes
  <2>. QED
    BY <1>12, <2>1 DEF TypeOK, WriterInv, FlushTakes, CloseMoves, BaseTypeOK,
                       writerVars, pacerVars, baseVars
<1>13. ASSUME NEW c \in Closers, FlushWrites(c) PROVE TypeOK' /\ WriterInv'
  <2>1. BaseTypeOK'
    BY <1>13, BaseWriteType DEF TypeOK, FlushWrites
  <2>. QED
    BY <1>13, <2>1 DEF TypeOK, WriterInv, FlushWrites, CloseMoves, writerVars, pacerVars
<1>14. ASSUME NEW c \in Closers, FlushFails(c) PROVE TypeOK' /\ WriterInv'
  <2>1. BaseTypeOK'
    BY <1>14, BaseWriteFailsType DEF TypeOK, FlushFails
  <2>. QED
    BY <1>14, <2>1 DEF TypeOK, WriterInv, FlushFails, CloseMoves, writerVars, pacerVars
<1>15. ASSUME NEW c \in Closers, CloseBase(c) PROVE TypeOK' /\ WriterInv'
  <2>1. BaseTypeOK'
    BY <1>15, BaseCloseType DEF TypeOK, CloseBase
  <2>. QED
    BY <1>15, <2>1 DEF TypeOK, WriterInv, CloseBase, CloseMoves, writerVars, pacerVars
<1>16. CASE Peer
  <2>1. BaseTypeOK'
    BY <1>16, PeerReadType DEF TypeOK, Peer
  <2>. QED
    BY <1>16, <2>1 DEF TypeOK, WriterInv, Peer, writerVars, pacerVars, closeVars
<1>. QED
  BY <1>1, <1>2, <1>3, <1>4, <1>5, <1>6, <1>7, <1>8, <1>9, <1>10, <1>11, <1>12, <1>13,
     <1>14, <1>15, <1>16 DEF Next, Writer, Pacer, Closer

\* sendQ stays a gap-free run of cell numbers: Write appends the next number,
\* the pacer and flushQueue take the first.
LEMMA QueueStep ==
  ASSUME TypeOK, QueueInv, Next
  PROVE  QueueInv'
<1>0. sendQ \in Seq(Nat \ {0}) /\ enq \in Nat /\ Len(sendQ) \in Nat /\ DOMAIN sendQ = 1..Len(sendQ)
  BY DEF TypeOK
<1>1. ASSUME UNCHANGED <<sendQ, enq>> PROVE QueueInv'
  BY <1>1 DEF QueueInv, Taken
<1>2. ASSUME sendQ # <<>>, sendQ' = Tail(sendQ), enq' = enq PROVE QueueInv'
  <2>1. Len(sendQ) > 0 /\ Len(sendQ') = Len(sendQ) - 1 /\ sendQ' \in Seq(Nat \ {0})
    BY <1>0, <1>2
  <2>2. /\ DOMAIN sendQ' = 1..Len(sendQ) - 1
        /\ \A i \in 1..Len(sendQ) - 1 : i + 1 \in DOMAIN sendQ /\ sendQ'[i] = sendQ[i + 1]
    BY <1>0, <1>2, <2>1
  <2>3. Taken' = Taken + 1
    BY <1>0, <1>2, <2>1 DEF Taken
  <2>4. \A i \in DOMAIN sendQ' : sendQ'[i] = Taken' + i
    <3>1. SUFFICES ASSUME NEW i \in DOMAIN sendQ' PROVE sendQ'[i] = Taken' + i
      OBVIOUS
    <3>2. sendQ'[i] = Taken + (i + 1)
      BY <2>2 DEF QueueInv
    <3>3. Taken \in Int /\ i \in Nat
      BY <1>0, <2>2 DEF Taken
    <3>. QED
      BY <2>3, <3>2, <3>3
  <2>. QED
    BY <1>0, <1>2, <2>1, <2>4 DEF QueueInv
<1>3. ASSUME NEW w \in Writers, Send(w) PROVE QueueInv'
  <2>1. /\ sendQ' = Append(sendQ, enq + 1) /\ enq' = enq + 1
    BY <1>3 DEF Send, Enqueue
  <2>2. /\ Len(sendQ') = Len(sendQ) + 1 /\ DOMAIN sendQ' = 1..Len(sendQ) + 1
        /\ \A i \in 1..Len(sendQ) : sendQ'[i] = sendQ[i]
        /\ sendQ'[Len(sendQ) + 1] = enq + 1
    BY <1>0, <2>1
  <2>3. Taken' = Taken /\ Taken \in Int /\ Taken + (Len(sendQ) + 1) = enq + 1
    BY <1>0, <2>1, <2>2 DEF Taken
  <2>4. \A i \in DOMAIN sendQ' : sendQ'[i] = Taken' + i
    <3>1. SUFFICES ASSUME NEW i \in DOMAIN sendQ' PROVE sendQ'[i] = Taken' + i
      OBVIOUS
    <3>2. CASE i \in 1..Len(sendQ)
      <4>1. i \in DOMAIN sendQ /\ sendQ'[i] = sendQ[i]
        BY <1>0, <2>2, <3>2
      <4>2. sendQ[i] = Taken + i
        BY <4>1 DEF QueueInv
      <4>. QED
        BY <2>3, <4>1, <4>2
    <3>3. CASE i = Len(sendQ) + 1
      BY <2>2, <2>3, <3>3
    <3>4. i \in 1..Len(sendQ) \/ i = Len(sendQ) + 1
      BY <1>0, <2>2
    <3>. QED
      BY <3>2, <3>3, <3>4
  <2>. QED
    BY <1>0, <2>1, <2>2, <2>4 DEF QueueInv
<1>4. ASSUME NEW w \in Writers, NEW n \in 1..MaxCells, WriteBegin(w, n) PROVE QueueInv'
  BY <1>1, <1>4 DEF WriteBegin
<1>4a. ASSUME NEW w \in Writers, WriteRefused(w) \/ ResetSurge(w) \/ SendDead(w) \/ SendClosed(w)
       PROVE  QueueInv'
  BY <1>1, <1>4a DEF WriteRefused, ResetSurge, SendDead, SendClosed, WriteReturns
<1>5. CASE Pacer
  <2>1. CASE PacerTakes
    BY <1>2, <2>1 DEF PacerTakes, writerVars
  <2>2. CASE PacerCovers \/ PacerWrites \/ PacerFails \/ SetPaceErr \/ ClosePaceDead \/ PacerStops
    BY <1>1, <2>2 DEF PacerCovers, PacerWrites, PacerFails, SetPaceErr, ClosePaceDead,
                      PacerStops, writerVars
  <2>. QED
    BY <1>5, <2>1, <2>2 DEF Pacer
<1>6. ASSUME NEW c \in Closers, Closer(c) PROVE QueueInv'
  <2>1. CASE FlushTakes(c)
    BY <1>2, <2>1 DEF FlushTakes, CloseMoves, writerVars
  <2>2. CASE CloseCalled(c) \/ CloseCalledAgain(c) \/ CloseJoins(c) \/ FlushWrites(c)
               \/ FlushFails(c) \/ FlushEnds(c) \/ CloseBase(c) \/ CloseReturnsAgain(c)
    BY <1>1, <2>2 DEF CloseCalled, CloseCalledAgain, CloseJoins, FlushWrites, FlushFails,
                      FlushEnds, CloseBase, CloseReturnsAgain, CloseMoves, writerVars
  <2>. QED
    BY <1>6, <2>1, <2>2 DEF Closer
<1>7. CASE Peer
  BY <1>1, <1>7 DEF Peer, writerVars
<1>. QED
  BY <1>3, <1>4, <1>4a, <1>5, <1>6, <1>7 DEF Next, Writer

\* The discipline of Close: closeOnce admits one caller, which waits for the
\* pacer before it touches sendQ and closes the base last.
LEMMA CloseStep ==
  ASSUME TypeOK, CloseInv, Next
  PROVE  CloseInv'
<1>0. closeMark \in Nat /\ enq \in Nat
  BY DEF TypeOK
<1>1. ASSUME NEW w \in Writers, Writer(w) PROVE CloseInv'
  <2>1. UNCHANGED <<pacerVars, closeVars, baseVars>> /\ enq' \in {enq, enq + 1}
    BY <1>1 DEF Writer, WriteRefused, WriteBegin, ResetSurge, Send, Enqueue, SendDead,
                SendClosed, WriteReturns
  <2>. QED
    BY <1>0, <2>1 DEF CloseInv, Active, Flushing, pacerVars, closeVars, baseVars
<1>2. CASE Pacer
  <2>1. UNCHANGED <<enq, closeVars, baseOpen>> /\ ppc # "exited"
    BY <1>2 DEF Pacer, PacerTakes, PacerCovers, PacerWrites, PacerFails, SetPaceErr,
                ClosePaceDead, PacerStops, BaseWrite, BaseWriteFails, writerVars, baseVars
  <2>. QED
    BY <2>1 DEF CloseInv, Active, Flushing, closeVars
<1>3. ASSUME NEW c \in Closers, Closer(c) PROVE CloseInv'
  <2>0. cpc \in [Closers -> {"idle", "once", "join", "flush", "flushing", "closeBase", "returned"}]
    BY DEF TypeOK
  <2>1. CASE CloseCalled(c)
    <3>1. \A d \in Closers : cpc[d] = "idle"
      BY <2>1 DEF CloseInv, CloseCalled
    <3>. QED
      BY <1>0, <2>0, <2>1, <3>1 DEF CloseInv, CloseCalled, CloseMoves, Active, Flushing,
                                   writerVars, pacerVars, baseVars
  <2>2. CASE CloseCalledAgain(c)
    BY <2>0, <2>2 DEF CloseInv, CloseCalledAgain, CloseMoves, Active, Flushing,
                      writerVars, pacerVars, baseVars
  <2>3. CASE CloseJoins(c)
    BY <2>0, <2>3 DEF CloseInv, CloseJoins, CloseMoves, Active, Flushing,
                      writerVars, pacerVars, baseVars
  <2>4. CASE FlushTakes(c)
    BY <2>0, <2>4 DEF CloseInv, FlushTakes, CloseMoves, Active, Flushing,
                      writerVars, pacerVars, baseVars
  <2>5. CASE FlushWrites(c)
    BY <2>0, <2>5 DEF CloseInv, FlushWrites, CloseMoves, BaseWrite, Active, Flushing,
                      writerVars, pacerVars
  <2>6. CASE FlushFails(c)
    BY <2>0, <2>6 DEF CloseInv, FlushFails, CloseMoves, BaseWriteFails, Active, Flushing,
                      writerVars, pacerVars
  <2>7. CASE FlushEnds(c)
    BY <2>0, <2>7 DEF CloseInv, FlushEnds, CloseMoves, Active, Flushing,
                      writerVars, pacerVars, baseVars
  <2>8. CASE CloseBase(c)
    BY <2>0, <2>8 DEF CloseInv, CloseBase, CloseMoves, BaseClose, Active, Flushing,
                      writerVars, pacerVars
  <2>9. CASE CloseReturnsAgain(c)
    BY <2>0, <2>9 DEF CloseInv, CloseReturnsAgain, CloseMoves, Active, Flushing,
                      writerVars, pacerVars, baseVars
  <2>. QED
    BY <1>3, <2>1, <2>2, <2>3, <2>4, <2>5, <2>6, <2>7, <2>8, <2>9 DEF Closer
<1>4. CASE Peer
  BY <1>4 DEF CloseInv, Peer, PeerRead, Active, Flushing, writerVars, pacerVars, closeVars
<1>. QED
  BY <1>1, <1>2, <1>3, <1>4 DEF Next

\* The pacer's error is stored before it is announced and reported as it is.
LEMMA ErrStep ==
  ASSUME TypeOK, CloseInv, ErrInv, Next
  PROVE  ErrInv'
<1>0. /\ result \in [Writers -> {"none", "ok", "baseErr", "ErrClosed"}]
      /\ broken \in BOOLEAN /\ done \in BOOLEAN /\ paceErr \in BOOLEAN
  BY DEF TypeOK, BaseTypeOK
<1>1. ASSUME NEW w \in Writers, Writer(w) PROVE ErrInv'
  <2>1. UNCHANGED <<pacerVars, closeVars, baseVars>>
    BY <1>1 DEF Writer, WriteRefused, WriteBegin, ResetSurge, Send, Enqueue, SendDead,
                SendClosed, WriteReturns
  <2>2. \/ result' = result
        \/ result' = [result EXCEPT ![w] = "ok"]
        \/ result' = [result EXCEPT ![w] = "baseErr"] /\ paceErr
        \/ result' = [result EXCEPT ![w] = "ErrClosed"] /\ (done \/ (paceDead /\ ~paceErr))
    BY <1>1 DEF Writer, WriteRefused, WriteBegin, ResetSurge, Send, Enqueue, SendDead,
                SendClosed, WriteReturns
  <2>3. \A v \in Writers : /\ result'[v] = "ErrClosed" => done
                           /\ result'[v] = "baseErr" => broken
    BY <1>0, <2>2 DEF ErrInv, ErrorReported
  <2>. QED
    BY <2>1, <2>3 DEF ErrInv, ErrorReported, pacerVars, closeVars, baseVars
<1>2. CASE Pacer
  <2>1. CASE PacerFails
    <3>1. baseOpen
      BY <2>1 DEF CloseInv, PacerFails
    <3>. QED
      BY <2>1, <3>1 DEF ErrInv, ErrorReported, PacerFails, BaseWriteFails, writerVars, closeVars
  <2>2. CASE PacerTakes \/ PacerCovers \/ PacerWrites \/ SetPaceErr \/ ClosePaceDead \/ PacerStops
    BY <2>2 DEF ErrInv, ErrorReported, PacerTakes, PacerCovers, PacerWrites, SetPaceErr,
                ClosePaceDead, PacerStops, BaseWrite, writerVars, closeVars, baseVars
  <2>. QED
    BY <1>2, <2>1, <2>2 DEF Pacer
<1>3. ASSUME NEW c \in Closers, Closer(c) PROVE ErrInv'
  <2>1. UNCHANGED <<writerVars, pacerVars>> /\ (done => done') /\ (broken => broken')
    BY <1>0, <1>3 DEF Closer, CloseCalled, CloseCalledAgain, CloseJoins, FlushTakes, FlushWrites,
                FlushFails, FlushEnds, CloseBase, CloseReturnsAgain, CloseMoves,
                BaseWrite, BaseWriteFails, BaseClose, baseVars
  <2>. QED
    BY <2>1 DEF ErrInv, ErrorReported, writerVars, pacerVars
<1>4. CASE Peer
  BY <1>4 DEF ErrInv, ErrorReported, Peer, PeerRead, writerVars, pacerVars, closeVars
<1>. QED
  BY <1>1, <1>2, <1>3, <1>4 DEF Next
\* What the base connection has accepted stays the gap-free run 1..s: the only
\* writers are the pacer and, after it, flushQueue, each with the next cell in
\* hand, and neither writes again once a write has failed.
LEMMA StreamStep ==
  ASSUME TypeOK, QueueInv, CloseInv, ErrInv, StreamInv, Next
  PROVE  StreamInv'
<1>0. /\ BaseTypeOK /\ broken \in BOOLEAN /\ Sticky \in BOOLEAN /\ baseOpen \in BOOLEAN
      /\ enq \in Nat /\ Len(sendQ) \in Nat /\ closeMark \in Nat /\ Taken \in Nat
  BY BaseAssumption DEF TypeOK, BaseTypeOK, QueueInv, Taken
<1>1. SUFFICES ASSUME Sticky \/ ~broken'
               PROVE  \E s \in Nat : (WireHolds(s) /\ Progress(s))'
  BY DEF StreamInv
<1>2. Sticky \/ ~broken
  <2>1. broken => broken'
    BY <1>0 DEF Next, Writer, WriteRefused, WriteBegin, ResetSurge, Send, Enqueue, SendDead,
       SendClosed, WriteReturns, Pacer, PacerTakes, PacerCovers, PacerWrites, PacerFails,
       SetPaceErr, ClosePaceDead, PacerStops, Closer, CloseCalled, CloseCalledAgain,
       CloseJoins, FlushTakes, FlushWrites, FlushFails, FlushEnds, CloseBase,
       CloseReturnsAgain, Peer, PeerRead, BaseWrite, BaseWriteFails, BaseClose, baseVars
  <2>. QED
    BY <1>1, <2>1
<1>3. PICK s \in Nat : WireHolds(s) /\ Progress(s)
  BY <1>2 DEF StreamInv
<1>4. ASSUME UNCHANGED <<broken, wire, rcvd>> PROVE WireHolds(s)'
  BY <1>3, <1>4 DEF WireHolds
<1>5. ASSUME NEW w \in Writers, Writer(w) PROVE WireHolds(s)' /\ Progress(s)'
  <2>1. UNCHANGED <<pacerVars, closeVars, baseVars>>
    BY <1>5 DEF Writer, WriteRefused, WriteBegin, ResetSurge, Send, Enqueue, SendDead,
                SendClosed, WriteReturns
  <2>2. Taken' = Taken
    <3>1. CASE Send(w)
      <4>1. enq' = enq + 1 /\ Len(sendQ') = Len(sendQ) + 1
        BY <3>1 DEF TypeOK, Send, Enqueue
      <4>. QED
        BY <1>0, <4>1 DEF Taken
    <3>2. CASE UNCHANGED <<enq, sendQ>>
      BY <3>2 DEF Taken
    <3>. QED
      BY <1>5, <3>1, <3>2 DEF Writer, WriteRefused, WriteBegin, ResetSurge, SendDead,
                              SendClosed, WriteReturns
  <2>. QED
    BY <1>3, <1>4, <2>1, <2>2 DEF Progress, pacerVars, closeVars, baseVars
<1>6. ASSUME sendQ # <<>>, sendQ' = Tail(sendQ), enq' = enq
      PROVE  Taken' = Taken + 1 /\ Head(sendQ) = Taken + 1
  <2>1. /\ Len(sendQ') = Len(sendQ) - 1 /\ Len(sendQ) > 0
        /\ 1 \in DOMAIN sendQ /\ Head(sendQ) = sendQ[1]
    BY <1>0, <1>6 DEF TypeOK
  <2>. QED
    BY <1>0, <1>6, <2>1 DEF QueueInv, Taken
<1>7. CASE PacerTakes
  <2>1. /\ Taken' = Taken + 1 /\ pcell' = Taken' /\ pcell' # Cover /\ ppc' = "write"
        /\ UNCHANGED <<closeVars, baseVars, writerVars>> /\ ppc = "wait"
    BY <1>0, <1>6, <1>7 DEF PacerTakes, writerVars, Cover
  <2>2. /\ baseOpen /\ \A c \in Closers : cpc[c] \notin Flushing
    BY <2>1 DEF CloseInv
  <2>3. ~broken => s = Taken
    BY <1>3, <2>1, <2>2 DEF Progress, Flushing
  <2>4. Progress(s)'
    BY <1>0, <1>3, <2>1, <2>2, <2>3 DEF Progress, Flushing, closeVars, baseVars
  <2>. QED
    BY <1>3, <1>4, <2>1, <2>4 DEF baseVars
<1>8. CASE PacerCovers
  <2>1. /\ Taken' = Taken /\ pcell' = Cover /\ ppc' = "write" /\ ppc = "wait"
        /\ UNCHANGED <<closeVars, baseVars>>
    BY <1>8 DEF PacerCovers, writerVars, Taken
  <2>2. Progress(s)'
    BY <1>3, <2>1 DEF Progress, closeVars, baseVars
  <2>. QED
    BY <1>3, <1>4, <2>1, <2>2 DEF baseVars
<1>9. CASE PacerWrites
  <2>1. /\ Taken' = Taken /\ ppc' = "wait" /\ ppc = "write" /\ BaseWrite(pcell)
        /\ UNCHANGED <<closeVars, broken, baseOpen>>
    BY <1>9 DEF PacerWrites, writerVars, Taken, BaseWrite
  <2>2. /\ baseOpen /\ ~broken /\ \A c \in Closers : cpc[c] \notin Flushing
    BY <1>2, <2>1 DEF CloseInv, BaseWrite
  <2>3. CASE pcell = Cover
    <3>1. WireHolds(s)'
      BY <1>0, <1>3, <2>1, <2>2, <2>3, WireHoldsCover
    <3>2. Progress(s)'
      BY <1>3, <2>1, <2>2, <2>3 DEF Progress, Flushing, closeVars
    <3>. QED
      BY <3>1, <3>2
  <2>4. CASE pcell # Cover
    <3>1. pcell = s + 1 /\ s + 1 = Taken
      BY <1>3, <2>1, <2>2, <2>4 DEF Progress
    <3>2. WireHolds(s + 1)'
      BY <1>0, <1>3, <2>1, <2>2, <3>1, WireHoldsData
    <3>3. Progress(s + 1)'
      BY <1>0, <1>3, <2>1, <2>2, <3>1 DEF Progress, Flushing, closeVars
    <3>. QED
      BY <3>2, <3>3
  <2>. QED
    BY <2>3, <2>4
<1>10. CASE PacerFails
  <2>1. /\ Taken' = Taken /\ BaseWriteFails /\ baseOpen
    BY <1>10 DEF PacerFails, writerVars, Taken, CloseInv
  <2>2. broken' /\ Sticky
    BY <1>1, <2>1 DEF BaseWriteFails
  <2>3. WireHolds(s)'
    BY <1>0, <1>3, <2>1, <2>2, WireHoldsFails
  <2>4. Progress(s)'
    BY <1>3, <2>1, <2>2 DEF Progress
  <2>. QED
    BY <2>3, <2>4
<1>11. CASE SetPaceErr \/ ClosePaceDead \/ PacerStops
  <2>1. /\ Taken' = Taken /\ ppc # "write" /\ ppc' # "write"
        /\ UNCHANGED <<closeVars, baseVars>>
    BY <1>11 DEF SetPaceErr, ClosePaceDead, PacerStops, writerVars, Taken
  <2>2. Progress(s)'
    BY <1>3, <2>1 DEF Progress, closeVars, baseVars
  <2>. QED
    BY <1>3, <1>4, <2>1, <2>2 DEF baseVars
<1>12. ASSUME NEW c \in Closers, Closer(c)
       PROVE  \E t \in Nat : (WireHolds(t) /\ Progress(t))'
  <2>0. /\ cpc \in [Closers -> {"idle", "once", "join", "flush", "flushing", "closeBase",
                                "returned"}]
        /\ UNCHANGED <<enq, ppc, pcell>>
    BY <1>12 DEF TypeOK, Closer, CloseCalled, CloseCalledAgain, CloseJoins, FlushTakes,
                 FlushWrites, FlushFails, FlushEnds, CloseBase, CloseReturnsAgain, CloseMoves,
                 writerVars, pacerVars
  <2>1. CASE CloseCalled(c)
    <3>1. baseOpen /\ \A d \in Closers : cpc[d] = "idle"
      BY <1>0, <2>1 DEF CloseInv, CloseCalled
    <3>2. Progress(s)'
      BY <1>0, <1>3, <2>0, <2>1, <3>1 DEF Progress, CloseCalled, CloseMoves, Taken, baseVars
    <3>. QED
      BY <1>3, <1>4, <2>1, <3>2 DEF CloseCalled, baseVars
  <2>2. CASE CloseCalledAgain(c) \/ CloseJoins(c) \/ CloseReturnsAgain(c)
    <3>1. Progress(s)'
      BY <1>0, <1>3, <2>0, <2>2 DEF Progress, CloseCalledAgain, CloseJoins, CloseReturnsAgain,
                                    CloseMoves, Taken, baseVars
    <3>. QED
      BY <1>3, <1>4, <2>2, <3>1 DEF CloseCalledAgain, CloseJoins, CloseReturnsAgain, baseVars
  <2>3. CASE FlushTakes(c)
    <3>1. /\ Taken' = Taken + 1 /\ fcell' = Taken' /\ cpc[c] = "flush"
          /\ cpc' = [cpc EXCEPT ![c] = "flushing"] /\ UNCHANGED <<closeMark, baseVars>>
      BY <1>6, <2>0, <2>3 DEF FlushTakes, CloseMoves
    <3>2. /\ ppc = "exited" /\ baseOpen
          /\ \A d \in Closers \ {c} : cpc[d] \in {"idle", "once"}
      BY <3>1 DEF CloseInv, Active, Flushing
    <3>3. ~broken => s = Taken
      BY <1>3, <3>1, <3>2 DEF Progress
    <3>4. Progress(s)'
      BY <1>0, <1>3, <2>0, <3>1, <3>2, <3>3 DEF Progress, baseVars
    <3>. QED
      BY <1>3, <1>4, <3>1, <3>4 DEF baseVars
  <2>4. CASE FlushWrites(c)
    <3>1. /\ Taken' = Taken /\ BaseWrite(fcell) /\ cpc[c] = "flushing"
          /\ cpc' = [cpc EXCEPT ![c] = "flush"] /\ UNCHANGED <<closeMark, broken, baseOpen>>
      BY <2>0, <2>4 DEF FlushWrites, CloseMoves, BaseWrite, Taken
    <3>2. /\ ppc = "exited" /\ baseOpen /\ ~broken
          /\ \A d \in Closers \ {c} : cpc[d] \in {"idle", "once"}
      BY <1>2, <3>1 DEF CloseInv, BaseWrite, Active, Flushing
    <3>3. fcell = s + 1 /\ s + 1 = Taken
      BY <1>3, <3>1, <3>2 DEF Progress
    <3>4. WireHolds(s + 1)'
      BY <1>0, <1>3, <3>1, <3>2, <3>3, WireHoldsData
    <3>5. Progress(s + 1)'
      BY <1>0, <1>3, <2>0, <3>1, <3>2, <3>3 DEF Progress
    <3>. QED
      BY <3>4, <3>5
  <2>5. CASE FlushFails(c)
    <3>1. /\ Taken' = Taken /\ BaseWriteFails /\ baseOpen
      BY <2>0, <2>5 DEF FlushFails, CloseMoves, Taken, CloseInv, Active
    <3>2. broken' /\ Sticky
      BY <1>1, <3>1 DEF BaseWriteFails
    <3>3. WireHolds(s)'
      BY <1>0, <1>3, <3>1, <3>2, WireHoldsFails
    <3>4. Progress(s)'
      BY <1>3, <3>1, <3>2 DEF Progress
    <3>. QED
      BY <3>3, <3>4
  <2>6. CASE FlushEnds(c)
    <3>1. /\ Taken' = Taken /\ Taken = enq /\ cpc[c] = "flush"
          /\ cpc' = [cpc EXCEPT ![c] = "closeBase"] /\ UNCHANGED <<closeMark, fcell, baseVars>>
      BY <1>0, <2>0, <2>6 DEF FlushEnds, CloseMoves, Taken
    <3>2. /\ ppc = "exited" /\ baseOpen /\ closeMark <= enq
          /\ \A d \in Closers \ {c} : cpc[d] \in {"idle", "once"}
      BY <3>1 DEF CloseInv, Active, Flushing
    <3>3. ~broken => s = Taken
      BY <1>3, <3>1, <3>2 DEF Progress
    <3>4. Progress(s)'
      BY <1>0, <1>3, <2>0, <3>1, <3>2, <3>3 DEF Progress, baseVars
    <3>. QED
      BY <1>3, <1>4, <3>1, <3>4 DEF baseVars
  <2>7. CASE CloseBase(c)
    <3>1. /\ Taken' = Taken /\ cpc[c] = "closeBase" /\ cpc' = [cpc EXCEPT ![c] = "returned"]
          /\ ~baseOpen' /\ UNCHANGED <<closeMark, fcell, broken, wire, rcvd>>
      BY <2>0, <2>7 DEF CloseBase, CloseMoves, BaseClose, Taken
    <3>2. ~broken => closeMark <= s
      BY <1>3, <3>1 DEF Progress
    <3>3. Progress(s)'
      BY <1>0, <1>3, <2>0, <3>1, <3>2 DEF Progress
    <3>. QED
      BY <1>3, <1>4, <3>1, <3>3
  <2>. QED
    BY <1>12, <2>1, <2>2, <2>3, <2>4, <2>5, <2>6, <2>7 DEF Closer
<1>13. CASE Peer
  <2>1. /\ Taken' = Taken /\ PeerRead /\ UNCHANGED <<ppc, pcell, closeVars, broken, baseOpen>>
    BY <1>13 DEF Peer, PeerRead, Taken, writerVars, pacerVars
  <2>2. WireHolds(s)'
    BY <1>0, <1>3, <2>1, WireHoldsPeer
  <2>3. Progress(s)'
    BY <1>3, <2>1 DEF Progress, closeVars
  <2>. QED
    BY <2>2, <2>3
<1>. QED
  BY <1>5, <1>7, <1>8, <1>9, <1>10, <1>11, <1>12, <1>13 DEF Next, Pacer

\* IInv is inductive.
LEMMA NextIInv == IInv /\ [Next]_vars => IInv'
<1>1. ASSUME IInv, Next PROVE IInv'
  BY <1>1, TypeStep, QueueStep, CloseStep, ErrStep, StreamStep DEF IInv
<1>2. ASSUME IInv, UNCHANGED vars PROVE IInv'
  BY <1>2 DEF IInv, TypeOK, BaseTypeOK, WriterInv, QueueInv, CloseInv, ErrInv, ErrorReported,
     StreamInv, WireHolds, Progress, Taken, vars, writerVars, pacerVars, closeVars, baseVars
<1>. QED
  BY <1>1, <1>2

\* IInv holds in every reachable state.
LEMMA Invariance == Spec => []IInv
BY InitIInv, NextIInv, PTL DEF Spec
-----------------------------------------------------------------------------
\* Every variable keeps its type; sendQ never exceeds its capacity.
THEOREM TypeCorrect == Spec => []TypeOK
<1>1. IInv => TypeOK
  BY DEF IInv
<1>. QED
  BY Invariance, <1>1, PTL

\* sendQ never has two consumers and the base connection never two writers,
\* whatever the number of goroutines that call Write and Close.
THEOREM OneConsumer == Spec => []SingleConsumer
<1>1. IInv => SingleConsumer
  BY DEF IInv, TypeOK, CloseInv, SingleConsumer, Active, Flushing
<1>. QED
  BY Invariance, <1>1, PTL

\* Write reports the pacer's error as it is, and ErrClosed only after Close.
THEOREM ErrorsReported == Spec => []ErrorReported
<1>1. IInv => ErrorReported
  BY DEF IInv, ErrInv
<1>. QED
  BY Invariance, <1>1, PTL

\* When a failed base write is final, the peer reads a prefix of what Write
\* enqueued, in order and without a gap.
THEOREM PrefixDelivered == Spec => [](Sticky => InOrder)
<1>1. IInv => (Sticky => InOrder)
  BY DEF IInv, StreamInv, WireHolds, InOrder
<1>. QED
  BY Invariance, <1>1, PTL

\* Close loses nothing that was enqueued before it, unless the base failed.
THEOREM CloseFlushes == Spec => []FlushedOnClose
<1>1. ASSUME IInv PROVE FlushedOnClose
  <2>1. SUFFICES ASSUME NEW c \in Closers, cpc[c] = "returned", ~broken,
                        NEW n \in 1..closeMark
                 PROVE  OnTheWay(n)
    BY DEF FlushedOnClose
  <2>2. PICK s \in Nat : WireHolds(s) /\ Progress(s)
    BY <1>1, <2>1 DEF IInv, StreamInv
  <2>3. closeMark <= s
    BY <1>1, <2>1, <2>2 DEF IInv, CloseInv, Progress
  <2>4. n \in 1..s
    BY <1>1, <2>2, <2>3 DEF IInv, TypeOK
  <2>. QED
    BY <1>1, <2>2, <2>4, WireHoldsOnTheWay DEF IInv, TypeOK
<1>. QED
  BY Invariance, <1>1, PTL

\* When a failed base write is final, the paced connection implements the
\* ordered stream: a step of Send accepts a cell, a step of the peer that takes
\* a data cell delivers the next one, every other step stutters.
THEOREM ImplementsStream == ASSUME Sticky PROVE Spec => StreamSpec
<1>1. Init => Stream!Init
  BY DEF Init, BaseInit, Stream!Init
<1>2. IInv /\ [Next]_vars => [Stream!Next]_<<enq, rcvd>>
  <2>1. SUFFICES ASSUME IInv, Next PROVE Stream!Next \/ UNCHANGED <<enq, rcvd>>
    BY DEF vars, writerVars, baseVars
  <2>2. ASSUME NEW w \in Writers, Writer(w) PROVE Stream!Accept \/ UNCHANGED <<enq, rcvd>>
    <3>1. enq \in Nat
      BY <2>1 DEF IInv, TypeOK
    <3>. QED
      BY <2>2, <3>1 DEF Writer, WriteRefused, WriteBegin, ResetSurge, Send, Enqueue,
                        SendDead, SendClosed, WriteReturns, Stream!Accept, baseVars
  <2>3. ASSUME Pacer PROVE UNCHANGED <<enq, rcvd>>
    BY <2>3 DEF Pacer, PacerTakes, PacerCovers, PacerWrites, PacerFails, SetPaceErr,
                ClosePaceDead, PacerStops, BaseWrite, BaseWriteFails, writerVars, baseVars
  <2>4. ASSUME NEW c \in Closers, Closer(c) PROVE UNCHANGED <<enq, rcvd>>
    BY <2>4 DEF Closer, CloseCalled, CloseCalledAgain, CloseJoins, FlushTakes, FlushWrites,
                FlushFails, FlushEnds, CloseBase, CloseReturnsAgain, CloseMoves,
                BaseWrite, BaseWriteFails, BaseClose, writerVars, baseVars
  <2>5. ASSUME Peer PROVE Stream!Deliver \/ UNCHANGED <<enq, rcvd>>
    <3>1. PICK s \in Nat : WireHolds(s) /\ Progress(s)
      BY <2>1 DEF IInv, StreamInv
    <3>2. PeerRead /\ BaseTypeOK /\ enq' = enq
      BY <2>1, <2>5 DEF IInv, TypeOK, Peer, writerVars
    <3>3. /\ Head(wire) # Torn
          /\ Head(wire) # Cover => Head(wire) = Len(rcvd) + 1 /\ Len(rcvd) < s
      BY <3>1, <3>2, PeerNext
    <3>4. s <= enq
      BY <2>1, <3>1 DEF IInv, TypeOK, Progress, Taken
    <3>. QED
      BY <2>1, <3>2, <3>3, <3>4 DEF PeerRead, IInv, TypeOK, BaseTypeOK, Stream!Deliver
  <2>. QED
    BY <2>1, <2>2, <2>3, <2>4, <2>5 DEF Next, Stream!Next
<1>. QED
  BY <1>1, <1>2, Invariance, PTL DEF Spec, StreamSpec, Stream!Spec
=============================================================================
