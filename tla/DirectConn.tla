----------------------------- MODULE DirectConn -----------------------------
(***************************************************************************)
(* A shapedConn without pacing (conn.go, morph.go): Write frames its bytes *)
(* and flushes all cells in one base.Write under writeMu, while coverLoop  *)
(* and frontLoop write cover cells under the same lock and Close waits for *)
(* those two loops before it closes the base.  A base.Write of several     *)
(* cells puts them on the wire one by one.  A data cell is its number in   *)
(* the order in which the Writes got the lock.                             *)
(***************************************************************************)
EXTENDS BaseConn, FiniteSets

CONSTANTS
  Writers,    \* application goroutines that call Write
  Closers,    \* application goroutines that call Close
  CoverEvery, \* Policy.CoverEvery > 0
  MaxCount,   \* Front.MaxCount; 0 when there is no frontLoop
  MaxCells,   \* bound: cells one Write frames
  MaxFramed   \* bound: cells framed in a behaviour

ASSUME DirectAssumption ==
  /\ Writers \cap {"free", "cover", "front"} = {}
  /\ CoverEvery \in BOOLEAN
  /\ MaxCount \in Nat
  /\ MaxCells \in Nat
  /\ MaxFramed \in Nat

VARIABLES
  wpc,      \* wpc[w]: where writer w is in Write
  todo,     \* todo[w]: cells w's Write has still to put on the wire
  cur,      \* cur[w]: number of the next of them
  framed,   \* number of cells framed so far (for the bound)
  next,     \* number of cells the Writes that got the lock brought with them
  writeMu,  \* holder of writeMu, or "free"
  idle,     \* time.Since(lastWrite) >= CoverEvery
  coverPc,  \* where coverLoop is
  frontPc,  \* where frontLoop is
  budget,   \* dummy cells frontLoop has still to send
  done,     \* channel done is closed
  cpc       \* cpc[c]: where closer c is in Close

writerVars == <<wpc, todo, cur, framed, next>>
loopVars   == <<coverPc, frontPc, budget>>
closeVars  == <<done, cpc>>
vars == <<writerVars, writeMu, idle, loopVars, closeVars, baseVars>>

LoopPc == {"wait", "lock", "write", "exited"}

TypeOK ==
  /\ BaseTypeOK
  /\ wpc \in [Writers -> {"idle", "delay", "put"}]
  /\ todo \in [Writers -> 0..MaxCells]
  /\ cur \in [Writers -> Nat]
  /\ framed \in Nat
  /\ next \in Nat
  /\ writeMu \in {"free", "cover", "front"} \cup Writers
  /\ idle \in BOOLEAN
  /\ coverPc \in LoopPc
  /\ frontPc \in LoopPc
  /\ budget \in 0..MaxCount
  /\ done \in BOOLEAN
  /\ cpc \in [Closers -> {"idle", "once", "join", "closeBase", "returned"}]

Init ==
  /\ BaseInit
  /\ wpc = [w \in Writers |-> "idle"]
  /\ todo = [w \in Writers |-> 0]
  /\ cur = [w \in Writers |-> 0]
  /\ framed = 0
  /\ next = 0
  /\ writeMu = "free"
  /\ idle = FALSE
  /\ coverPc = IF CoverEvery THEN "wait" ELSE "exited"
  /\ \/ MaxCount > 0 /\ frontPc = "wait" /\ budget \in 1..MaxCount
     \/ MaxCount = 0 /\ frontPc = "exited" /\ budget = 0
  /\ done = FALSE
  /\ cpc = [c \in Closers |-> "idle"]
-----------------------------------------------------------------------------
(* Write and writeMorph.                                                     *)

\* Write frames its bytes into n cells and sleeps out its delay.
WriteCalled(w, n) ==
  /\ wpc[w] = "idle"
  /\ framed + n <= MaxFramed
  /\ wpc' = [wpc EXCEPT ![w] = "delay"]
  /\ todo' = [todo EXCEPT ![w] = n]
  /\ framed' = framed + n
  /\ UNCHANGED <<cur, next, writeMu, idle, loopVars, closeVars, baseVars>>

\* Write begins its base.Write with mu as the new holder of writeMu.
Flushes(w, mu) ==
  /\ wpc[w] = "delay"
  /\ writeMu' = mu
  /\ wpc' = [wpc EXCEPT ![w] = "put"]
  /\ cur' = [cur EXCEPT ![w] = next + 1]
  /\ next' = next + todo[w]
  /\ UNCHANGED <<todo, framed, idle, loopVars, closeVars, baseVars>>

\* Mutant: Write flushes without the lock.
WriteLocksNothing(w) == Flushes(w, writeMu)

WriteLocks(w) ==
  /\ writeMu = "free"
  /\ Flushes(w, w)

\* One more cell of the buffer is on the wire; after the last one lastWrite is
\* set, the lock released and Write returns len(p), nil.
WritePuts(w) ==
  /\ wpc[w] = "put"
  /\ BaseWrite(cur[w])
  /\ cur' = [cur EXCEPT ![w] = @ + 1]
  /\ todo' = [todo EXCEPT ![w] = @ - 1]
  /\ IF todo[w] = 1
     THEN /\ wpc' = [wpc EXCEPT ![w] = "idle"]
          /\ writeMu' = "free"
          /\ idle' = FALSE
     ELSE UNCHANGED <<wpc, writeMu, idle>>
  /\ UNCHANGED <<framed, next, loopVars, closeVars>>

\* base.Write fails and Write returns 0, err; no error is kept for later.
WriteFails(w) ==
  /\ wpc[w] = "put"
  /\ BaseWriteFails
  /\ wpc' = [wpc EXCEPT ![w] = "idle"]
  /\ todo' = [todo EXCEPT ![w] = 0]
  /\ writeMu' = "free"
  /\ UNCHANGED <<cur, framed, next, idle, loopVars, closeVars>>
-----------------------------------------------------------------------------
(* coverLoop.                                                                *)

\* CoverEvery passes without a write.
Idles ==
  /\ ~idle
  /\ idle' = TRUE
  /\ UNCHANGED <<writerVars, writeMu, loopVars, closeVars, baseVars>>

CoverTicks ==
  /\ coverPc = "wait"
  /\ coverPc' = "lock"
  /\ UNCHANGED <<writerVars, writeMu, idle, frontPc, budget, closeVars, baseVars>>

\* Mutant: coverLoop tests the idle time the wrong way round.
CoverLocksBusy ==
  /\ coverPc = "lock"
  /\ writeMu = "free"
  /\ IF idle THEN coverPc' = "wait" /\ UNCHANGED writeMu
             ELSE coverPc' = "write" /\ writeMu' = "cover"
  /\ UNCHANGED <<writerVars, idle, frontPc, budget, closeVars, baseVars>>

\* writeMu.Lock returns; a connection that was busy is left alone.
CoverLocks ==
  /\ coverPc = "lock"
  /\ writeMu = "free"
  /\ IF idle THEN coverPc' = "write" /\ writeMu' = "cover"
             ELSE coverPc' = "wait" /\ UNCHANGED writeMu
  /\ UNCHANGED <<writerVars, idle, frontPc, budget, closeVars, baseVars>>

CoverWrites ==
  /\ coverPc = "write"
  /\ BaseWrite(Cover)
  /\ coverPc' = "wait"
  /\ writeMu' = "free"
  /\ idle' = FALSE
  /\ UNCHANGED <<writerVars, frontPc, budget, closeVars>>

\* Mutant: the error path of coverLoop forgets to unlock.
CoverFailsLocked ==
  /\ coverPc = "write"
  /\ BaseWriteFails
  /\ coverPc' = "wait"
  /\ UNCHANGED <<writerVars, writeMu, idle, frontPc, budget, closeVars>>

\* The error is dropped and the loop goes on.
CoverFails ==
  /\ coverPc = "write"
  /\ BaseWriteFails
  /\ coverPc' = "wait"
  /\ writeMu' = "free"
  /\ UNCHANGED <<writerVars, idle, frontPc, budget, closeVars>>

\* Mutant: coverLoop does not select on done.
CoverIgnoresDone == FALSE

CoverStops ==
  /\ coverPc = "wait"
  /\ done
  /\ coverPc' = "exited"
  /\ UNCHANGED <<writerVars, writeMu, idle, frontPc, budget, closeVars, baseVars>>
-----------------------------------------------------------------------------
(* frontLoop.  It runs through its budget of send times once.                *)

\* Mutant: frontLoop sends one dummy too many.
FrontTicksOver ==
  /\ frontPc = "wait"
  /\ frontPc' = "lock"
  /\ UNCHANGED <<writerVars, writeMu, idle, coverPc, budget, closeVars, baseVars>>

FrontTicks ==
  /\ frontPc = "wait"
  /\ budget > 0
  /\ frontPc' = "lock"
  /\ UNCHANGED <<writerVars, writeMu, idle, coverPc, budget, closeVars, baseVars>>

FrontLocks ==
  /\ frontPc = "lock"
  /\ writeMu = "free"
  /\ writeMu' = "front"
  /\ frontPc' = "write"
  /\ UNCHANGED <<writerVars, idle, coverPc, budget, closeVars, baseVars>>

FrontWrites ==
  /\ frontPc = "write"
  /\ BaseWrite(Cover)
  /\ frontPc' = "wait"
  /\ budget' = budget - 1
  /\ writeMu' = "free"
  /\ idle' = FALSE
  /\ UNCHANGED <<writerVars, coverPc, closeVars>>

FrontFails ==
  /\ frontPc = "write"
  /\ BaseWriteFails
  /\ frontPc' = "wait"
  /\ budget' = budget - 1
  /\ writeMu' = "free"
  /\ UNCHANGED <<writerVars, idle, coverPc, closeVars>>

FrontStops ==
  /\ frontPc = "wait"
  /\ budget = 0 \/ done
  /\ frontPc' = "exited"
  /\ UNCHANGED <<writerVars, writeMu, idle, coverPc, budget, closeVars, baseVars>>
-----------------------------------------------------------------------------
(* Close.                                                                    *)

CloseMoves(c, from, to) ==
  /\ cpc[c] = from
  /\ cpc' = [cpc EXCEPT ![c] = to]
  /\ UNCHANGED <<writerVars, writeMu, idle, loopVars>>

CloseCalled(c) ==
  /\ CloseMoves(c, "idle", IF done THEN "once" ELSE "join")
  /\ done' = TRUE
  /\ UNCHANGED baseVars

\* Mutant: wg.Wait forgets frontLoop.
CloseJoinsCover(c) ==
  /\ coverPc = "exited"
  /\ CloseMoves(c, "join", "closeBase")
  /\ UNCHANGED <<done, baseVars>>

\* wg.Wait returns.
CloseJoins(c) ==
  /\ coverPc = "exited"
  /\ frontPc = "exited"
  /\ CloseMoves(c, "join", "closeBase")
  /\ UNCHANGED <<done, baseVars>>

CloseBase(c) ==
  /\ CloseMoves(c, "closeBase", "returned")
  /\ BaseClose
  /\ UNCHANGED done

CloseReturnsAgain(c) ==
  /\ ~baseOpen
  /\ CloseMoves(c, "once", "returned")
  /\ UNCHANGED <<done, baseVars>>
-----------------------------------------------------------------------------
Peer == PeerRead /\ UNCHANGED <<writerVars, writeMu, idle, loopVars, closeVars>>

Writer(w) ==
  \/ \E n \in 1..MaxCells : WriteCalled(w, n)
  \/ WriteLocks(w)
  \/ WritePuts(w)
  \/ WriteFails(w)

CoverLoop == CoverTicks \/ CoverLocks \/ CoverWrites \/ CoverFails \/ CoverStops

FrontLoop == FrontTicks \/ FrontLocks \/ FrontWrites \/ FrontFails \/ FrontStops

Closer(c) ==
  \/ CloseCalled(c)
  \/ CloseJoins(c)
  \/ CloseBase(c)
  \/ CloseReturnsAgain(c)

Next ==
  \/ \E w \in Writers : Writer(w)
  \/ Idles
  \/ CoverLoop
  \/ FrontLoop
  \/ \E c \in Closers : Closer(c)
  \/ Peer

Spec == Init /\ [][Next]_vars

\* A goroutine that can run does run; sync.Mutex starves no waiter and select
\* no ready case; the peer keeps reading.  Nobody has to call Write or Close.
Fairness ==
  /\ \A w \in Writers : /\ SF_vars(WriteLocks(w))
                        /\ WF_vars(WritePuts(w) \/ WriteFails(w))
  /\ WF_vars(CoverTicks)
  /\ SF_vars(CoverLocks)
  /\ WF_vars(CoverWrites \/ CoverFails)
  /\ SF_vars(CoverStops)
  /\ WF_vars(FrontTicks)
  /\ SF_vars(FrontLocks)
  /\ WF_vars(FrontWrites \/ FrontFails)
  /\ SF_vars(FrontStops)
  /\ \A c \in Closers : /\ WF_vars(CloseJoins(c))
                        /\ WF_vars(CloseBase(c))
                        /\ WF_vars(CloseReturnsAgain(c))
  /\ WF_vars(Peer)

FairSpec == Spec /\ Fairness
-----------------------------------------------------------------------------
(* Properties.                                                               *)

\* The peer's Read delivers the cells of one Write together and in order, and
\* the Writes in the order in which they got writeMu: neither another Write nor
\* a cover cell, nor the rest of a failed Write, ever disturbs the framing.
InOrder == \A i \in DOMAIN rcvd : rcvd[i] = i

\* Once Close has closed the base no background goroutine is left that could
\* still write to it: wg.Wait covers both loops.
LoopsQuiet == ~baseOpen => coverPc = "exited" /\ frontPc = "exited"

\* A Write ends although it queues for writeMu behind other Writes and behind
\* both cover loops, and although Close may run at any moment.
WritesReturn ==
  \A w \in Writers : wpc[w] # "idle" ~> wpc[w] = "idle"

\* Close ends: both loops see done, whatever they wait for at that time.
CloseReturns ==
  \A c \in Closers : cpc[c] # "idle" ~> cpc[c] = "returned"

\* An open, healthy connection with CoverEvery does not stay silent: once idle
\* it is written to again, by the application or by coverLoop.
CoverComes == idle ~> ~idle \/ done \/ broken

\* The connection implements the ordered stream of module Stream.
Stream == INSTANCE Stream WITH accepted <- next, delivered <- rcvd
StreamSpec == Stream!Spec
=============================================================================
