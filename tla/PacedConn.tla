----------------------------- MODULE PacedConn ------------------------------
(***************************************************************************)
(* A shapedConn in paced mode (Policy.Paced, conn.go): Write frames its    *)
(* bytes and hands the cells to sendQ, the pacer goroutine releases one    *)
(* cell per tick of its rate clock, Close stops the pacer and flushes what *)
(* is still queued.  A cell is its number in the order of enqueueing; the  *)
(* framing itself is the subject of module Framing.                        *)
(***************************************************************************)
EXTENDS BaseConn, FiniteSets

CONSTANTS
  Writers,   \* application goroutines that call Write
  Closers,   \* application goroutines that call Close
  Queue,     \* PacedConfig.Queue, the capacity of sendQ
  NoPad,     \* PacedConfig.NoPad
  MaxCells,  \* bound: cells one Write frames
  MaxFramed  \* bound: cells framed in a behaviour

ASSUME PacedAssumption ==
  /\ Queue \in Nat \ {0}
  /\ NoPad \in BOOLEAN
  /\ MaxCells \in Nat
  /\ MaxFramed \in Nat

VARIABLES
  wpc,        \* wpc[w]: where writer w is in writePaced
  todo,       \* todo[w]: cells w's Write has still to hand over
  mine,       \* mine[w]: cells w's Write has handed over (history)
  result,     \* result[w]: what w's last Write returned
  framed,     \* number of cells framed so far (for the bound)
  enq,        \* number of cells handed to sendQ so far
  acked,      \* cells of the Writes that returned without error (history)
  sendQ,      \* the channel between Write and the pacer
  paceStart,  \* surge clock, its time counted in cells enqueued
  paceErr,    \* paceErrV is set
  paceDead,   \* channel paceDead is closed
  ppc,        \* where the pacer is in pacingLoop
  pcell,      \* the cell the pacer is writing
  done,       \* channel done is closed
  cpc,        \* cpc[c]: where closer c is in Close
  fcell,      \* the cell flushQueue is writing
  closeMark   \* value of enq when Close closed done (history)

writerVars == <<wpc, todo, mine, result, framed, enq, acked, paceStart>>
pacerVars  == <<paceErr, paceDead, ppc, pcell>>
closeVars  == <<done, cpc, fcell, closeMark>>
vars == <<writerVars, sendQ, pacerVars, closeVars, baseVars>>

TypeOK ==
  /\ BaseTypeOK
  /\ wpc \in [Writers -> {"idle", "surge", "send"}]
  /\ todo \in [Writers -> 0..MaxCells]
  /\ mine \in [Writers -> SUBSET Nat]
  /\ result \in [Writers -> {"none", "ok", "baseErr", "ErrClosed"}]
  /\ framed \in Nat
  /\ enq \in Nat
  /\ acked \in SUBSET Nat
  /\ sendQ \in Seq(Nat \ {0})
  /\ Len(sendQ) <= Queue
  /\ paceStart \in Nat
  /\ paceErr \in BOOLEAN
  /\ paceDead \in BOOLEAN
  /\ ppc \in {"wait", "write", "failed", "erred", "exited"}
  /\ pcell \in Nat
  /\ done \in BOOLEAN
  /\ cpc \in [Closers -> {"idle", "once", "join", "flush", "flushing",
                          "closeBase", "returned"}]
  /\ fcell \in Nat
  /\ closeMark \in Nat

Init ==
  /\ BaseInit
  /\ wpc = [w \in Writers |-> "idle"]
  /\ todo = [w \in Writers |-> 0]
  /\ mine = [w \in Writers |-> {}]
  /\ result = [w \in Writers |-> "none"]
  /\ framed = 0
  /\ enq = 0
  /\ acked = {}
  /\ sendQ = <<>>
  /\ paceStart = 0
  /\ paceErr = FALSE
  /\ paceDead = FALSE
  /\ ppc = "wait"
  /\ pcell = Cover
  /\ done = FALSE
  /\ cpc = [c \in Closers |-> "idle"]
  /\ fcell = Cover
  /\ closeMark = 0
-----------------------------------------------------------------------------
(* Write -> writePaced.  An empty Write returns (0, nil) and changes nothing. *)

\* writePaced finds the pacer's error already set.
WriteRefused(w) ==
  /\ wpc[w] = "idle"
  /\ paceErr
  /\ result' = [result EXCEPT ![w] = "baseErr"]
  /\ UNCHANGED <<wpc, todo, mine, framed, enq, acked, paceStart>>
  /\ UNCHANGED <<sendQ, pacerVars, closeVars, baseVars>>

\* writePaced sees no error and frames its bytes into n cells.
WriteBegin(w, n) ==
  /\ wpc[w] = "idle"
  /\ ~paceErr
  /\ framed + n <= MaxFramed
  /\ wpc' = [wpc EXCEPT ![w] = "surge"]
  /\ todo' = [todo EXCEPT ![w] = n]
  /\ mine' = [mine EXCEPT ![w] = {}]
  /\ framed' = framed + n
  /\ UNCHANGED <<result, enq, acked, paceStart>>
  /\ UNCHANGED <<sendQ, pacerVars, closeVars, baseVars>>

\* len(c.sendQ) == 0 restarts the surge clock.
ResetSurge(w) ==
  /\ wpc[w] = "surge"
  /\ wpc' = [wpc EXCEPT ![w] = "send"]
  /\ paceStart' = IF sendQ = <<>> THEN enq ELSE paceStart
  /\ UNCHANGED <<todo, mine, result, framed, enq, acked>>
  /\ UNCHANGED <<sendQ, pacerVars, closeVars, baseVars>>

\* c.sendQ <- cell; after the last cell Write returns len(p), nil.
Enqueue(w) ==
  /\ wpc[w] = "send"
  /\ enq' = enq + 1
  /\ sendQ' = Append(sendQ, enq')
  /\ mine' = [mine EXCEPT ![w] = @ \cup {enq'}]
  /\ todo' = [todo EXCEPT ![w] = @ - 1]
  /\ IF todo[w] = 1
     THEN /\ wpc' = [wpc EXCEPT ![w] = "idle"]
          /\ result' = [result EXCEPT ![w] = "ok"]
          /\ acked' = acked \cup mine'[w]
     ELSE UNCHANGED <<wpc, result, acked>>
  /\ UNCHANGED <<framed, paceStart, pacerVars, closeVars, baseVars>>

\* Mutant: sendQ without a capacity.
SendUnbounded(w) == Enqueue(w)

\* select: the case that hands a cell over.
Send(w) == Len(sendQ) < Queue /\ Enqueue(w)

\* Write gives up on the cells it has not handed over.
WriteReturns(w, err) ==
  /\ wpc[w] = "send"
  /\ wpc' = [wpc EXCEPT ![w] = "idle"]
  /\ todo' = [todo EXCEPT ![w] = 0]
  /\ result' = [result EXCEPT ![w] = err]
  /\ UNCHANGED <<mine, framed, enq, acked, paceStart>>
  /\ UNCHANGED <<sendQ, pacerVars, closeVars, baseVars>>

\* Mutant: the select of writePaced has no case for paceDead.
SendDeadMissing(w) == FALSE

\* select: <-c.paceDead.
SendDead(w) ==
  /\ paceDead
  /\ WriteReturns(w, IF paceErr THEN "baseErr" ELSE "ErrClosed")

\* select: <-c.done.
SendClosed(w) ==
  /\ done
  /\ WriteReturns(w, "ErrClosed")
-----------------------------------------------------------------------------
(* pacingLoop.  The timer may fire whenever the pacer waits.  With NoPad an  *)
(* idle tick changes nothing.                                                *)

PacerTakes ==
  /\ ppc = "wait"
  /\ sendQ # <<>>
  /\ pcell' = Head(sendQ)
  /\ sendQ' = Tail(sendQ)
  /\ ppc' = "write"
  /\ UNCHANGED <<writerVars, paceErr, paceDead, closeVars, baseVars>>

PacerCovers ==
  /\ ppc = "wait"
  /\ sendQ = <<>>
  /\ ~NoPad
  /\ pcell' = Cover
  /\ ppc' = "write"
  /\ UNCHANGED <<writerVars, sendQ, paceErr, paceDead, closeVars, baseVars>>

PacerWrites ==
  /\ ppc = "write"
  /\ BaseWrite(pcell)
  /\ ppc' = "wait"
  /\ UNCHANGED <<writerVars, sendQ, paceErr, paceDead, pcell, closeVars>>

PacerFails ==
  /\ ppc = "write"
  /\ BaseWriteFails
  /\ ppc' = "failed"
  /\ UNCHANGED <<writerVars, sendQ, paceErr, paceDead, pcell, closeVars>>

SetPaceErr ==
  /\ ppc = "failed"
  /\ paceErr' = TRUE
  /\ ppc' = "erred"
  /\ UNCHANGED <<writerVars, sendQ, paceDead, pcell, closeVars, baseVars>>

\* Mutant: paceDead is closed before the error is stored.
ClosePaceDeadFirst ==
  /\ ppc \in {"failed", "erred"}
  /\ ~paceDead
  /\ paceDead' = TRUE
  /\ ppc' = IF paceErr THEN "exited" ELSE "failed"
  /\ UNCHANGED <<writerVars, sendQ, paceErr, pcell, closeVars, baseVars>>

ClosePaceDead ==
  /\ ppc = "erred"
  /\ paceDead' = TRUE
  /\ ppc' = "exited"
  /\ UNCHANGED <<writerVars, sendQ, paceErr, pcell, closeVars, baseVars>>

\* Mutants: the pacer never looks at done; the pacer stops when it is idle.
PacerIgnoresDone == FALSE
PacerStopsIdle ==
  /\ ppc = "wait"
  /\ ppc' = "exited"
  /\ UNCHANGED <<writerVars, sendQ, paceErr, paceDead, pcell, closeVars, baseVars>>

PacerStops ==
  /\ ppc = "wait"
  /\ done
  /\ ppc' = "exited"
  /\ UNCHANGED <<writerVars, sendQ, paceErr, paceDead, pcell, closeVars, baseVars>>
-----------------------------------------------------------------------------
(* Close and flushQueue.  closeOnce runs the body once; other callers wait   *)
(* for it to finish.                                                         *)

CloseMoves(c, from, to) ==
  /\ cpc[c] = from
  /\ cpc' = [cpc EXCEPT ![c] = to]
  /\ UNCHANGED <<writerVars, pacerVars>>

CloseCalled(c) ==
  /\ ~done
  /\ CloseMoves(c, "idle", "join")
  /\ done' = TRUE
  /\ closeMark' = enq
  /\ UNCHANGED <<fcell, sendQ, baseVars>>

CloseCalledAgain(c) ==
  /\ done
  /\ CloseMoves(c, "idle", "once")
  /\ UNCHANGED <<done, closeMark, fcell, sendQ, baseVars>>

\* Mutant: Close does not wait for the pacer.
CloseJoinsNobody(c) ==
  CloseMoves(c, "join", "flush") /\ UNCHANGED <<done, closeMark, fcell, sendQ, baseVars>>

\* wg.Wait returns.
CloseJoins(c) ==
  /\ ppc = "exited"
  /\ CloseMoves(c, "join", "flush")
  /\ UNCHANGED <<done, closeMark, fcell, sendQ, baseVars>>

FlushTakes(c) ==
  /\ sendQ # <<>>
  /\ CloseMoves(c, "flush", "flushing")
  /\ fcell' = Head(sendQ)
  /\ sendQ' = Tail(sendQ)
  /\ UNCHANGED <<done, closeMark, baseVars>>

FlushWrites(c) ==
  /\ CloseMoves(c, "flushing", "flush")
  /\ BaseWrite(fcell)
  /\ UNCHANGED <<done, closeMark, fcell, sendQ>>

FlushFails(c) ==
  /\ CloseMoves(c, "flushing", "closeBase")
  /\ BaseWriteFails
  /\ UNCHANGED <<done, closeMark, fcell, sendQ>>

\* Mutant: Close does not drain sendQ.
FlushEndsEarly(c) ==
  CloseMoves(c, "flush", "closeBase") /\ UNCHANGED <<done, closeMark, fcell, sendQ, baseVars>>

FlushEnds(c) ==
  /\ sendQ = <<>>
  /\ CloseMoves(c, "flush", "closeBase")
  /\ UNCHANGED <<done, closeMark, fcell, sendQ, baseVars>>

CloseBase(c) ==
  /\ CloseMoves(c, "closeBase", "returned")
  /\ BaseClose
  /\ UNCHANGED <<done, closeMark, fcell, sendQ>>

\* closeOnce.Do returns to the callers that waited for the first one.
CloseReturnsAgain(c) ==
  /\ ~baseOpen
  /\ CloseMoves(c, "once", "returned")
  /\ UNCHANGED <<done, closeMark, fcell, sendQ, baseVars>>
-----------------------------------------------------------------------------
Peer == PeerRead /\ UNCHANGED <<writerVars, sendQ, pacerVars, closeVars>>

Writer(w) ==
  \/ WriteRefused(w)
  \/ \E n \in 1..MaxCells : WriteBegin(w, n)
  \/ ResetSurge(w)
  \/ Send(w)
  \/ SendDead(w)
  \/ SendClosed(w)

Pacer ==
  \/ PacerTakes
  \/ PacerCovers
  \/ PacerWrites
  \/ PacerFails
  \/ SetPaceErr
  \/ ClosePaceDead
  \/ PacerStops

Closer(c) ==
  \/ CloseCalled(c)
  \/ CloseCalledAgain(c)
  \/ CloseJoins(c)
  \/ FlushTakes(c)
  \/ FlushWrites(c)
  \/ FlushFails(c)
  \/ FlushEnds(c)
  \/ CloseBase(c)
  \/ CloseReturnsAgain(c)

Next ==
  \/ \E w \in Writers : Writer(w)
  \/ Pacer
  \/ \E c \in Closers : Closer(c)
  \/ Peer

Spec == Init /\ [][Next]_vars

\* A goroutine that can run does run; a sender blocked on a full channel is
\* served in turn; a select with several ready cases picks any of them in the
\* long run; the peer keeps reading.  Nobody has to call Write or Close.
Fairness ==
  /\ \A w \in Writers : /\ WF_vars(ResetSurge(w))
                        /\ SF_vars(Send(w))
                        /\ WF_vars(SendDead(w))
                        /\ WF_vars(SendClosed(w))
  /\ WF_vars(PacerTakes)
  /\ WF_vars(PacerWrites \/ PacerFails)
  /\ WF_vars(SetPaceErr)
  /\ WF_vars(ClosePaceDead)
  /\ SF_vars(PacerStops)
  /\ \A c \in Closers : /\ WF_vars(CloseJoins(c))
                        /\ WF_vars(FlushTakes(c))
                        /\ WF_vars(FlushWrites(c) \/ FlushFails(c))
                        /\ WF_vars(FlushEnds(c))
                        /\ WF_vars(CloseBase(c))
                        /\ WF_vars(CloseReturnsAgain(c))
  /\ WF_vars(Peer)

FairSpec == Spec /\ Fairness
-----------------------------------------------------------------------------
(* Properties.                                                               *)

\* What the peer's Read has delivered is a prefix of what Write enqueued, in
\* order and with no cell lost, repeated or garbled in between, although the
\* cells of sendQ are written first by the pacer and then by Close.
InOrder == \A i \in DOMAIN rcvd : rcvd[i] = i

\* When Close has returned and no base write ever failed, every cell that was
\* in sendQ (or with the pacer) when Close began is with the peer or on its
\* way to it: flushQueue and the pacer's last write leave no gap.
FlushedOnClose ==
  (\E c \in Closers : cpc[c] = "returned") /\ ~broken
    => \A n \in 1..closeMark : OnTheWay(n)

\* sendQ has one consumer at a time and the base connection one writer: while
\* flushQueue runs the pacer is gone, only one Close runs the body of
\* closeOnce, and nobody is left to write once the base is closed.
SingleConsumer ==
  /\ \A c \in Closers :
        cpc[c] \in {"flush", "flushing", "closeBase"} =>
          /\ ppc = "exited"
          /\ \A d \in Closers \ {c} : cpc[d] \in {"idle", "once"}
  /\ ~baseOpen => /\ ppc = "exited"
                  /\ \A c \in Closers : cpc[c] \in {"idle", "once", "returned"}

\* A Write woken by the pacer's death reports the base error: writePaced falls
\* back on net.ErrClosed only when the connection really was closed, and a
\* Write that fails with the base error does so because a base write failed.
ErrorReported ==
  \A w \in Writers : /\ result[w] = "ErrClosed" => done
                     /\ result[w] = "baseErr" => broken

\* The doc comment of flushQueue: what a successful Write accepted is not
\* dropped by Close (unless the base connection failed).
AckedKept ==
  (\E c \in Closers : cpc[c] = "returned") /\ ~broken
    => \A n \in acked : OnTheWay(n)

\* Back-pressure never blocks a Write for good: it ends when the pacer drains
\* the queue, when the pacer dies, or when the connection is closed.
WritesReturn ==
  \A w \in Writers : wpc[w] # "idle" ~> wpc[w] = "idle"

\* Every Close returns: the pacer always sees done, the flush is finite.
CloseReturns ==
  \A c \in Closers : cpc[c] # "idle" ~> cpc[c] = "returned"

\* While the connection is open and healthy every enqueued cell reaches the
\* peer, whatever mix of cover and data the pacer sends.
Delivered ==
  \A n \in 1..MaxFramed :
    enq >= n ~> (\E i \in DOMAIN rcvd : rcvd[i] = n) \/ broken \/ done

\* The connection implements the ordered stream of module Stream.
Stream == INSTANCE Stream WITH accepted <- enq, delivered <- rcvd
StreamSpec == Stream!Spec
=============================================================================
