-------------------------- MODULE DirectConnProofs --------------------------
(***************************************************************************)
(* Proofs about DirectConn, for every number of writers and closers, with  *)
(* or without coverLoop and frontLoop.                                     *)
(***************************************************************************)
EXTENDS DirectConn, BaseConnProofs

\* writeMu is held by whoever is inside base.Write.
LockInv ==
  /\ \A w \in Writers : wpc[w] = "put" <=> writeMu = w
  /\ coverPc = "write" <=> writeMu = "cover"
  /\ frontPc = "write" <=> writeMu = "front"

\* A Write counts its cells down; the last one it will put is number next.
WriterInv ==
  \A w \in Writers : /\ wpc[w] # "idle" => todo[w] > 0
                     /\ wpc[w] = "put" => cur[w] + todo[w] = next + 1 /\ cur[w] > 0

\* frontLoop has budget left when it is about to send.
FrontInv == frontPc \in {"lock", "write"} => budget > 0

\* Close goes past wg.Wait only when both loops have exited.
LoopInv ==
  (\E c \in Closers : cpc[c] = "closeBase") \/ ~baseOpen
    => coverPc = "exited" /\ frontPc = "exited"

\* While the base is open and no write has failed, the cells up to s are all
\* those the Writes brought but the ones the holder of writeMu has yet to put.
Progress(s) ==
  /\ s <= next
  /\ ~broken /\ baseOpen =>
       /\ \A w \in Writers : writeMu = w => s + 1 = cur[w]
       /\ writeMu \notin Writers => s = next

StreamInv == Sticky => \E s \in Nat : WireHolds(s) /\ Progress(s)

IInv ==
  /\ TypeOK
  /\ LockInv
  /\ WriterInv
  /\ FrontInv
  /\ LoopInv
  /\ StreamInv
-----------------------------------------------------------------------------
\* The initial state satisfies the inductive invariant.
LEMMA InitIInv == Init => IInv
<1>. SUFFICES ASSUME Init PROVE IInv
  OBVIOUS
<1>1. TypeOK
  <2>1. BaseTypeOK
    <3>1. <<>> \in Seq(WireCell) /\ <<>> \in Seq(Nat \cup {Garbage})
      OBVIOUS
    <3>. QED
      BY <3>1 DEF Init, BaseInit, BaseTypeOK
  <2>2. todo \in [Writers -> 0..MaxCells] /\ cur \in [Writers -> Nat]
    BY DirectAssumption DEF Init
  <2>3. budget \in 0..MaxCount /\ coverPc \in LoopPc /\ frontPc \in LoopPc
    BY DirectAssumption DEF Init, LoopPc
  <2>. QED
    BY <2>1, <2>2, <2>3 DEF Init, TypeOK
<1>2. LockInv /\ WriterInv /\ FrontInv /\ LoopInv
  BY DirectAssumption DEF Init, BaseInit, LockInv, WriterInv, FrontInv, LoopInv
<1>3. WireHolds(0)
  <2>1. rcvd = <<>> /\ wire = <<>> /\ Len(rcvd) = 0 /\ DOMAIN rcvd = {} /\ DOMAIN wire = {}
    BY DEF Init, BaseInit
  <2>2. \A n \in Nat : ~(0 < n /\ n <= 0)
    OBVIOUS
  <2>. QED
    BY <2>1, <2>2 DEF WireHolds
<1>4. Progress(0)
  BY DirectAssumption DEF Init, BaseInit, Progress
<1>. QED
  BY <1>1, <1>2, <1>3, <1>4 DEF IInv, StreamInv

\* Every step keeps the types, the countdown of the Writes and the budget.
LEMMA TypeStep ==
  ASSUME TypeOK, WriterInv, FrontInv, LockInv, Next
  PROVE  TypeOK' /\ WriterInv' /\ FrontInv'
<1>. DEFINE Goal == TypeOK' /\ WriterInv' /\ FrontInv'
<1>1. ASSUME NEW w \in Writers, NEW n \in 1..MaxCells, WriteCalled(w, n) PROVE Goal
  BY <1>1, DirectAssumption DEF TypeOK, WriterInv, FrontInv, WriteCalled, BaseTypeOK, loopVars,
                                closeVars, baseVars
<1>2. ASSUME NEW w \in Writers, WriteLocks(w) PROVE Goal
  <2>1. \A v \in Writers : wpc[v] # "put"
    BY <1>2, DirectAssumption DEF LockInv, WriteLocks
  <2>2. next' \in Nat /\ cur' \in [Writers -> Nat] /\ cur'[w] = next + 1
    BY <1>2 DEF TypeOK, WriteLocks, Flushes
  <2>3. TypeOK'
    BY <1>2, <2>2 DEF TypeOK, WriteLocks, Flushes, BaseTypeOK, loopVars, closeVars, baseVars
  <2>4. WriterInv' /\ FrontInv'
    BY <1>2, <2>1, <2>2 DEF TypeOK, WriterInv, FrontInv, WriteLocks, Flushes, loopVars
  <2>. QED
    BY <2>3, <2>4
<1>3. ASSUME NEW w \in Writers, WritePuts(w) PROVE Goal
  <2>1. BaseTypeOK'
    BY <1>3, BaseWriteType DEF TypeOK, WritePuts
  <2>2. /\ todo[w] > 0 /\ todo' \in [Writers -> 0..MaxCells] /\ todo'[w] = todo[w] - 1
        /\ cur' \in [Writers -> Nat] /\ cur'[w] = cur[w] + 1 /\ cur[w] \in Nat
        /\ \A v \in Writers \ {w} : todo'[v] = todo[v] /\ cur'[v] = cur[v]
    BY <1>3, DirectAssumption DEF TypeOK, WriterInv, WritePuts
  <2>3. /\ wpc' \in [Writers -> {"idle", "delay", "put"}]
        /\ writeMu' \in {"free", "cover", "front"} \cup Writers /\ idle' \in BOOLEAN
    BY <1>3 DEF TypeOK, WritePuts
  <2>4. TypeOK'
    BY <1>3, <2>1, <2>2, <2>3 DEF TypeOK, WritePuts, loopVars, closeVars
  <2>5. WriterInv'
    BY <1>3, <2>2 DEF TypeOK, WriterInv, WritePuts
  <2>6. FrontInv'
    BY <1>3 DEF FrontInv, WritePuts, loopVars
  <2>. QED
    BY <2>4, <2>5, <2>6
<1>4. ASSUME NEW w \in Writers, WriteFails(w) PROVE Goal
  <2>1. BaseTypeOK'
    BY <1>4, BaseWriteFailsType DEF TypeOK, WriteFails
  <2>2. todo' \in [Writers -> 0..MaxCells]
    BY <1>4, DirectAssumption DEF TypeOK, WriteFails
  <2>. QED
    BY <1>4, <2>1, <2>2 DEF TypeOK, WriterInv, FrontInv, WriteFails, loopVars, closeVars
<1>5. CASE Idles \/ CoverTicks \/ CoverLocks \/ CoverStops
  BY <1>5 DEF TypeOK, WriterInv, FrontInv, Idles, CoverTicks, CoverLocks, CoverStops, LoopPc,
              BaseTypeOK, writerVars, loopVars, closeVars, baseVars
<1>6. CASE CoverWrites \/ CoverFails
  <2>1. BaseTypeOK'
    BY <1>6, BaseWriteType, BaseWriteFailsType DEF TypeOK, CoverWrites, CoverFails, Cover
  <2>. QED
    BY <1>6, <2>1 DEF TypeOK, WriterInv, FrontInv, CoverWrites, CoverFails, LoopPc,
                      writerVars, closeVars
<1>7. CASE FrontTicks \/ FrontLocks \/ FrontStops
  BY <1>7 DEF TypeOK, WriterInv, FrontInv, FrontTicks, FrontLocks, FrontStops, LoopPc,
              BaseTypeOK, writerVars, closeVars, baseVars
<1>8. CASE FrontWrites \/ FrontFails
  <2>1. BaseTypeOK'
    BY <1>8, BaseWriteType, BaseWriteFailsType DEF TypeOK, FrontWrites, FrontFails, Cover
  <2>2. budget' \in 0..MaxCount
    BY <1>8, DirectAssumption DEF TypeOK, FrontInv, FrontWrites, FrontFails
  <2>. QED
    BY <1>8, <2>1, <2>2 DEF TypeOK, WriterInv, FrontInv, FrontWrites, FrontFails, LoopPc,
                            writerVars, closeVars
<1>9. ASSUME NEW c \in Closers, Closer(c) PROVE Goal
  <2>1. BaseTypeOK'
    BY <1>9, BaseCloseType
       DEF TypeOK, Closer, CloseCalled, CloseJoins, CloseBase, CloseReturnsAgain, BaseTypeOK,
           baseVars
  <2>2. cpc' \in [Closers -> {"idle", "once", "join", "closeBase", "returned"}] /\ done' \in BOOLEAN
    BY <1>9 DEF TypeOK, Closer, CloseCalled, CloseJoins, CloseBase, CloseReturnsAgain, CloseMoves
  <2>3. UNCHANGED <<writerVars, writeMu, idle, loopVars>>
    BY <1>9 DEF Closer, CloseCalled, CloseJoins, CloseBase, CloseReturnsAgain, CloseMoves
  <2>. QED
    BY <2>1, <2>2, <2>3 DEF TypeOK, WriterInv, FrontInv, writerVars, loopVars
<1>10. CASE Peer
  <2>1. BaseTypeOK'
    BY <1>10, PeerReadType DEF TypeOK, Peer
  <2>. QED
    BY <1>10, <2>1 DEF TypeOK, WriterInv, FrontInv, Peer, writerVars, loopVars, closeVars
<1>. QED
  BY <1>1, <1>2, <1>3, <1>4, <1>5, <1>6, <1>7, <1>8, <1>9, <1>10
     DEF Next, Writer, CoverLoop, FrontLoop

\* writeMu excludes: one goroutine at a time is inside base.Write.
LEMMA LockStep ==
  ASSUME TypeOK, LockInv, Next
  PROVE  LockInv'
<1>0. /\ wpc \in [Writers -> {"idle", "delay", "put"}]
      /\ Writers \cap {"free", "cover", "front"} = {}
  BY DirectAssumption DEF TypeOK
<1>1. ASSUME NEW w \in Writers, Writer(w) PROVE LockInv'
  <2>1. ASSUME NEW n \in 1..MaxCells, WriteCalled(w, n) PROVE LockInv'
    BY <1>0, <2>1 DEF LockInv, WriteCalled, loopVars
  <2>2. CASE WriteLocks(w)
    BY <1>0, <2>2 DEF LockInv, WriteLocks, Flushes, loopVars
  <2>3. CASE WritePuts(w)
    BY <1>0, <2>3 DEF LockInv, WritePuts, loopVars
  <2>4. CASE WriteFails(w)
    BY <1>0, <2>4 DEF LockInv, WriteFails, loopVars
  <2>. QED
    BY <1>1, <2>1, <2>2, <2>3, <2>4 DEF Writer
<1>2. CASE Idles \/ CoverLoop
  BY <1>0, <1>2 DEF LockInv, Idles, CoverLoop, CoverTicks, CoverLocks, CoverWrites, CoverFails,
                    CoverStops, writerVars, loopVars
<1>3. CASE FrontLoop
  BY <1>0, <1>3 DEF LockInv, FrontLoop, FrontTicks, FrontLocks, FrontWrites, FrontFails,
                    FrontStops, writerVars
<1>4. ASSUME NEW c \in Closers, Closer(c) PROVE LockInv'
  BY <1>4 DEF LockInv, Closer, CloseCalled, CloseJoins, CloseBase, CloseReturnsAgain, CloseMoves,
              writerVars, loopVars
<1>5. CASE Peer
  BY <1>5 DEF LockInv, Peer, writerVars, loopVars
<1>. QED
  BY <1>1, <1>2, <1>3, <1>4, <1>5 DEF Next

\* Nobody restarts a loop, and the base is closed only behind wg.Wait.
LEMMA LoopStep ==
  ASSUME TypeOK, LoopInv, Next
  PROVE  LoopInv'
<1>1. ASSUME NEW w \in Writers, Writer(w) PROVE LoopInv'
  BY <1>1 DEF LoopInv, Writer, WriteCalled, WriteLocks, Flushes, WritePuts, WriteFails,
              BaseWrite, BaseWriteFails, loopVars, closeVars, baseVars
<1>2. CASE Idles \/ CoverLoop
  BY <1>2 DEF LoopInv, Idles, CoverLoop, CoverTicks, CoverLocks, CoverWrites, CoverFails,
              CoverStops, BaseWrite, BaseWriteFails, loopVars, closeVars, baseVars
<1>3. CASE FrontLoop
  BY <1>3 DEF LoopInv, FrontLoop, FrontTicks, FrontLocks, FrontWrites, FrontFails,
              FrontStops, BaseWrite, BaseWriteFails, closeVars, baseVars
<1>4. ASSUME NEW c \in Closers, Closer(c) PROVE LoopInv'
  <2>0. cpc \in [Closers -> {"idle", "once", "join", "closeBase", "returned"}]
    BY DEF TypeOK
  <2>. QED
    BY <1>4, <2>0 DEF LoopInv, Closer, CloseCalled, CloseJoins, CloseBase, CloseReturnsAgain,
                      CloseMoves, BaseClose, loopVars, baseVars
<1>5. CASE Peer
  BY <1>5 DEF LoopInv, Peer, PeerRead, loopVars, closeVars
<1>. QED
  BY <1>1, <1>2, <1>3, <1>4, <1>5 DEF Next

\* A failed write adds nothing the peer could misread.
LEMMA FailsHolds ==
  ASSUME TypeOK, Sticky, NEW s \in Nat, WireHolds(s), BaseWriteFails
  PROVE  WireHolds(s)' /\ (baseOpen => broken') /\ baseOpen' = baseOpen
<1>0. BaseTypeOK /\ baseOpen \in BOOLEAN
  BY DEF TypeOK, BaseTypeOK
<1>1. CASE baseOpen
  BY <1>0, <1>1, WireHoldsFails DEF BaseWriteFails
<1>2. CASE ~baseOpen
  <2>1. UNCHANGED <<wire, rcvd, broken, baseOpen>>
    BY <1>0, <1>2 DEF BaseWriteFails, TypeOK, BaseTypeOK
  <2>. QED
    BY <1>2, <2>1 DEF WireHolds
<1>. QED
  BY <1>1, <1>2

\* The wire and the peer hold the gap-free run 1..s of data cells.
LEMMA StreamStep ==
  ASSUME TypeOK, LockInv, WriterInv, StreamInv, Next
  PROVE  StreamInv'
<1>0. /\ BaseTypeOK /\ baseOpen \in BOOLEAN /\ broken \in BOOLEAN /\ next \in Nat
      /\ Writers \cap {"free", "cover", "front"} = {}
      /\ cur \in [Writers -> Nat] /\ todo \in [Writers -> 0..MaxCells]
      /\ wpc \in [Writers -> {"idle", "delay", "put"}]
  BY DirectAssumption DEF TypeOK, BaseTypeOK
<1>1. SUFFICES ASSUME Sticky PROVE \E s \in Nat : (WireHolds(s) /\ Progress(s))'
  BY DEF StreamInv
<1>2. PICK s \in Nat : WireHolds(s) /\ Progress(s)
  BY <1>1 DEF StreamInv
<1>3. ASSUME UNCHANGED <<broken, wire, rcvd>> PROVE WireHolds(s)'
  BY <1>2, <1>3 DEF WireHolds
<1>4. ASSUME NEW w \in Writers, NEW n \in 1..MaxCells, WriteCalled(w, n)
      PROVE  WireHolds(s)' /\ Progress(s)'
  BY <1>2, <1>3, <1>4 DEF Progress, WriteCalled, baseVars
<1>5. ASSUME NEW w \in Writers, WriteLocks(w) PROVE WireHolds(s)' /\ Progress(s)'
  <2>1. /\ writeMu = "free" /\ writeMu' = w /\ cur'[w] = next + 1 /\ next' = next + todo[w]
        /\ UNCHANGED baseVars
    BY <1>0, <1>5 DEF WriteLocks, Flushes
  <2>2. Progress(s)'
    BY <1>0, <1>2, <2>1 DEF Progress, baseVars
  <2>. QED
    BY <1>3, <2>1, <2>2 DEF baseVars
<1>6. ASSUME NEW w \in Writers, WritePuts(w) PROVE WireHolds(s + 1)' /\ Progress(s + 1)'
  <2>1. /\ writeMu = w /\ BaseWrite(cur[w]) /\ baseOpen /\ ~broken /\ next' = next
        /\ cur' = [cur EXCEPT ![w] = cur[w] + 1] /\ UNCHANGED <<broken, baseOpen>>
        /\ cur[w] + todo[w] = next + 1 /\ todo[w] > 0
        /\ IF todo[w] = 1 THEN writeMu' = "free" ELSE writeMu' = writeMu
    BY <1>1, <1>6 DEF LockInv, WriterInv, WritePuts, BaseWrite
  <2>2. cur[w] = s + 1 /\ todo[w] \in Nat
    BY <1>0, <1>2, <2>1 DEF Progress
  <2>3. WireHolds(s + 1)'
    BY <1>0, <1>2, <2>1, <2>2, WireHoldsData
  <2>4. Progress(s + 1)'
    BY <1>0, <2>1, <2>2 DEF Progress
  <2>. QED
    BY <2>3, <2>4
<1>7. ASSUME NEW w \in Writers, WriteFails(w) PROVE WireHolds(s)' /\ Progress(s)'
  BY <1>1, <1>2, <1>7, FailsHolds DEF WriteFails, Progress
<1>8. CASE CoverWrites \/ FrontWrites
  <2>1. /\ writeMu \notin Writers /\ writeMu' = "free" /\ ~broken /\ BaseWrite(Cover)
        /\ UNCHANGED <<next, cur, broken, baseOpen>>
    BY <1>0, <1>1, <1>8 DEF LockInv, CoverWrites, FrontWrites, BaseWrite, writerVars
  <2>2. WireHolds(s)'
    BY <1>0, <1>2, <2>1, WireHoldsCover
  <2>3. Progress(s)'
    BY <1>0, <1>2, <2>1 DEF Progress
  <2>. QED
    BY <2>2, <2>3
<1>9. CASE CoverFails \/ FrontFails
  BY <1>1, <1>2, <1>9, FailsHolds DEF CoverFails, FrontFails, Progress, writerVars
<1>10. CASE Idles \/ CoverTicks \/ CoverLocks \/ CoverStops \/ FrontTicks \/ FrontLocks \/ FrontStops
  <2>1. UNCHANGED <<next, cur, baseVars>>
    BY <1>10 DEF Idles, CoverTicks, CoverLocks, CoverStops, FrontTicks, FrontLocks, FrontStops,
                 writerVars
  <2>2. writeMu' = writeMu \/ (writeMu = "free" /\ writeMu' \in {"cover", "front"})
    BY <1>10 DEF Idles, CoverTicks, CoverLocks, CoverStops, FrontTicks, FrontLocks, FrontStops
  <2>3. Progress(s)'
    BY <1>0, <1>2, <2>1, <2>2 DEF Progress, baseVars
  <2>. QED
    BY <1>3, <2>1, <2>3 DEF baseVars
<1>11. ASSUME NEW c \in Closers, Closer(c) PROVE WireHolds(s)' /\ Progress(s)'
  <2>1. UNCHANGED <<next, cur, writeMu, broken, wire, rcvd>> /\ (baseOpen' => baseOpen)
    BY <1>11 DEF Closer, CloseCalled, CloseJoins, CloseBase, CloseReturnsAgain, CloseMoves,
                 BaseClose, writerVars, baseVars
  <2>. QED
    BY <1>2, <1>3, <2>1 DEF Progress
<1>12. CASE Peer
  <2>1. PeerRead /\ UNCHANGED <<next, cur, writeMu, broken, baseOpen>>
    BY <1>12 DEF Peer, PeerRead, writerVars
  <2>2. WireHolds(s)'
    BY <1>0, <1>2, <2>1, WireHoldsPeer
  <2>3. Progress(s)'
    BY <1>2, <2>1 DEF Progress
  <2>. QED
    BY <2>2, <2>3
<1>. QED
  BY <1>4, <1>5, <1>6, <1>7, <1>8, <1>9, <1>10, <1>11, <1>12
     DEF Next, Writer, CoverLoop, FrontLoop

\* IInv is inductive.
LEMMA NextIInv == IInv /\ [Next]_vars => IInv'
<1>1. ASSUME IInv, Next PROVE IInv'
  BY <1>1, TypeStep, LockStep, LoopStep, StreamStep DEF IInv
<1>2. ASSUME IInv, UNCHANGED vars PROVE IInv'
  BY <1>2 DEF IInv, TypeOK, BaseTypeOK, LockInv, WriterInv, FrontInv, LoopInv, StreamInv,
     WireHolds, Progress, vars, writerVars, loopVars, closeVars, baseVars
<1>. QED
  BY <1>1, <1>2

\* IInv holds in every reachable state.
LEMMA Invariance == Spec => []IInv
BY InitIInv, NextIInv, PTL DEF Spec
-----------------------------------------------------------------------------
\* Every variable keeps its type; frontLoop never overdraws its budget.
THEOREM TypeCorrect == Spec => []TypeOK
<1>1. IInv => TypeOK
  BY DEF IInv
<1>. QED
  BY Invariance, <1>1, PTL

\* No loop goroutine outlives the base connection.
THEOREM LoopsStopped == Spec => []LoopsQuiet
<1>1. IInv => LoopsQuiet
  BY DEF IInv, LoopInv, LoopsQuiet
<1>. QED
  BY Invariance, <1>1, PTL

\* When a failed base write is final, the peer gets the Writes whole and in the
\* order of the lock, with any number of writers and both cover loops running.
THEOREM WritesInOrder == Spec => [](Sticky => InOrder)
<1>1. IInv => (Sticky => InOrder)
  BY DEF IInv, StreamInv, WireHolds, InOrder
<1>. QED
  BY Invariance, <1>1, PTL

\* When a failed base write is final, the connection implements the ordered
\* stream: getting the lock accepts the cells of a Write, the peer's Read of a
\* data cell delivers the next one, every other step stutters.
THEOREM ImplementsStream == ASSUME Sticky PROVE Spec => StreamSpec
<1>1. Init => Stream!Init
  BY DEF Init, BaseInit, Stream!Init
<1>2. IInv /\ [Next]_vars => [Stream!Next]_<<next, rcvd>>
  <2>1. SUFFICES ASSUME IInv, Next PROVE Stream!Next \/ UNCHANGED <<next, rcvd>>
    BY DEF vars, writerVars, baseVars
  <2>2. ASSUME NEW w \in Writers, WriteLocks(w) PROVE Stream!Accept
    <3>1. next \in Nat /\ todo[w] \in Nat /\ todo[w] > 0
      BY <2>1, <2>2, DirectAssumption DEF IInv, TypeOK, WriterInv, WriteLocks, Flushes
    <3>. QED
      BY <2>2, <3>1 DEF WriteLocks, Flushes, Stream!Accept, baseVars
  <2>3. ASSUME Peer PROVE Stream!Deliver \/ UNCHANGED <<next, rcvd>>
    <3>1. PICK s \in Nat : WireHolds(s) /\ Progress(s)
      BY <2>1 DEF IInv, StreamInv
    <3>2. PeerRead /\ BaseTypeOK /\ next' = next
      BY <2>1, <2>3 DEF IInv, TypeOK, Peer, writerVars
    <3>3. /\ Head(wire) # Torn
          /\ Head(wire) # Cover => Head(wire) = Len(rcvd) + 1 /\ Len(rcvd) < s
      BY <3>1, <3>2, PeerNext
    <3>4. s <= next
      BY <3>1 DEF Progress
    <3>. QED
      BY <2>1, <3>2, <3>3, <3>4 DEF PeerRead, IInv, TypeOK, BaseTypeOK, Stream!Deliver
  <2>4. ASSUME NEW w \in Writers, NEW n \in 1..MaxCells, WriteCalled(w, n)
        PROVE  UNCHANGED <<next, rcvd>>
    BY <2>4 DEF WriteCalled, baseVars
  <2>5. ASSUME NEW w \in Writers, WritePuts(w) \/ WriteFails(w) PROVE UNCHANGED <<next, rcvd>>
    BY <2>5 DEF WritePuts, WriteFails, BaseWrite, BaseWriteFails
  <2>6. ASSUME Idles \/ CoverLoop \/ FrontLoop PROVE UNCHANGED <<next, rcvd>>
    BY <2>6 DEF Idles, CoverLoop, CoverTicks, CoverLocks, CoverWrites, CoverFails, CoverStops,
                FrontLoop, FrontTicks, FrontLocks, FrontWrites, FrontFails, FrontStops,
                BaseWrite, BaseWriteFails, writerVars, baseVars
  <2>7. ASSUME NEW c \in Closers, Closer(c) PROVE UNCHANGED <<next, rcvd>>
    BY <2>7 DEF Closer, CloseCalled, CloseJoins, CloseBase, CloseReturnsAgain, CloseMoves,
                BaseClose, writerVars, baseVars
  <2>. QED
    BY <2>1, <2>2, <2>3, <2>4, <2>5, <2>6, <2>7 DEF Next, Writer, Stream!Next
<1>. QED
  BY <1>1, <1>2, Invariance, PTL DEF Spec, StreamSpec, Stream!Spec
=============================================================================
