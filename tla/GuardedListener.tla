-------------------------- MODULE GuardedListener ---------------------------
(***************************************************************************)
(* What the probe-defending listeners of packages reality and xreality     *)
(* have in common: an accept loop that starts a handler per connection,    *)
(* the peek at the first TLS record and its replay by prefixConn, the      *)
(* handshake deadline, the splice of a connection to an upstream, and      *)
(* Accept and Close over an unbuffered channel.  Modules Reality and       *)
(* XReality add the decisions of their handlers, ProbeDefence puts them    *)
(* together.                                                               *)
(*                                                                         *)
(* The bytes a client sends are counted in units, numbered from 1: the     *)
(* first record is two units (its header and its body), the handshake      *)
(* takes ShakeLen units in all, and the secret SecretLen units after that. *)
(***************************************************************************)
EXTENDS Integers, Sequences, FiniteSets

CONSTANTS
  Conns,        \* connections clients may make
  Kinds,        \* what those clients send, records as in Kind
  Acceptors,    \* goroutines that call Accept
  Closers,      \* goroutines that call Close
  SecretLen,    \* units of the token (reality) or of the proof (xreality)
  Dest,         \* an upstream for raw splicing is configured
  AcceptFaults, \* base.Accept may fail although the base is open
  DialFaults,   \* dialling an upstream may fail
  MaxUnits      \* bound: units a client sends

RecLen   == 2
ShakeLen == 3

\* A client's first record holds a whole ClientHello, the first part of one, or
\* is not TLS; the hello has our name (reality: an allowed SNI; xreality: a
\* session ID that authenticates) or not; the secret that follows is right or
\* wrong.
Kind == [hello  : {"whole", "part", "notTLS"},
         name   : {"ours", "other"},
         secret : {"right", "wrong"}]

ASSUME GuardedAssumption ==
  /\ Kinds \subseteq Kind
  /\ SecretLen \in Nat
  /\ MaxUnits \in Nat
  /\ {Dest, AcceptFaults, DialFaults} \subseteq BOOLEAN

VARIABLES
  baseOpen,  \* the base listener is open
  lpc,       \* where acceptLoop is
  done,      \* channel done is closed
  apc,       \* apc[x]: whether acceptor x is inside Accept
  cpc,       \* cpc[z]: where closer z is in Close
  pkg,       \* the package the listener is of
  kind,      \* kind[c]: what client c sends
  sent,      \* sent[c]: units the client has sent
  eof,       \* eof[c]: the client has closed its end
  pc,        \* pc[c]: where the handler of connection c is
  timer,     \* timer[c]: the deadline of the raw connection
  taken,     \* taken[c]: units read from the raw connection
  prefix,    \* prefix[c]: peeked units prefixConn has still to replay
  rd,        \* rd[c]: units read through prefixConn (history)
  open,      \* open[c]: our end of connection c is open
  dst,       \* dst[c]: the connection to the upstream
  route,     \* route[c]: why it is spliced: "pass" raw, "proxy" behind TLS
  out,       \* out[c]: units written to the upstream
  up         \* up[c]: the goroutine that copies to the upstream runs

listenerVars == <<baseOpen, lpc, done, apc, cpc>>
clientVars   == <<pkg, kind, sent, eof>>
readVars     == <<taken, prefix, rd>>
spliceVars   == <<dst, route, out, up>>
connVars     == <<clientVars, pc, timer, readVars, open, spliceVars>>
vars == <<listenerVars, connVars>>

Shaking == {"peek", "tls", "secret"}

Init ==
  /\ baseOpen = TRUE
  /\ lpc = "accept"
  /\ done = FALSE
  /\ apc = [x \in Acceptors |-> "idle"]
  /\ cpc = [z \in Closers |-> "idle"]
  /\ pkg \in {"reality", "xreality"}
  /\ kind \in [Conns -> Kinds]
  /\ sent = [c \in Conns |-> 0]
  /\ eof = [c \in Conns |-> FALSE]
  /\ pc = [c \in Conns |-> "none"]
  /\ timer = [c \in Conns |-> "off"]
  /\ taken = [c \in Conns |-> 0]
  /\ prefix = [c \in Conns |-> <<>>]
  /\ rd = [c \in Conns |-> <<>>]
  /\ open = [c \in Conns |-> FALSE]
  /\ dst = [c \in Conns |-> "none"]
  /\ route = [c \in Conns |-> "none"]
  /\ out = [c \in Conns |-> <<>>]
  /\ up = [c \in Conns |-> FALSE]
-----------------------------------------------------------------------------
(* Clients and time.                                                         *)

Connect(c) ==
  /\ baseOpen
  /\ pc[c] = "none"
  /\ pc' = [pc EXCEPT ![c] = "backlog"]
  /\ open' = [open EXCEPT ![c] = TRUE]
  /\ UNCHANGED <<listenerVars, clientVars, timer, readVars, spliceVars>>

ClientSends(c) ==
  /\ open[c]
  /\ ~eof[c]
  /\ sent[c] < MaxUnits
  /\ sent' = [sent EXCEPT ![c] = @ + 1]
  /\ UNCHANGED <<listenerVars, pkg, kind, eof, pc, timer, readVars, open, spliceVars>>

ClientCloses(c) ==
  /\ open[c]
  /\ ~eof[c]
  /\ eof' = [eof EXCEPT ![c] = TRUE]
  /\ UNCHANGED <<listenerVars, pkg, kind, sent, pc, timer, readVars, open, spliceVars>>

\* The deadline of the raw connection passes.
Expires(c) ==
  /\ open[c]
  /\ timer[c] = "armed"
  /\ timer' = [timer EXCEPT ![c] = "late"]
  /\ UNCHANGED <<listenerVars, clientVars, pc, readVars, open, spliceVars>>
-----------------------------------------------------------------------------
(* acceptLoop.                                                               *)

\* Mutant: the handler sets no deadline.
SetDeadlineNot == "off"

\* raw.SetDeadline(time.Now().Add(timeout))
SetDeadline == "armed"

\* base.Accept returns a connection: its handler arms the deadline and begins
\* with the given stage.
LoopAccepts(c, first) ==
  /\ lpc = "accept"
  /\ baseOpen
  /\ pc[c] = "backlog"
  /\ pc' = [pc EXCEPT ![c] = first]
  /\ timer' = [timer EXCEPT ![c] = SetDeadline]
  /\ UNCHANGED <<listenerVars, clientVars, readVars, open, spliceVars>>

LoopAcceptFails ==
  /\ lpc = "accept"
  /\ ~baseOpen \/ AcceptFaults
  /\ lpc' = "offer"
  /\ UNCHANGED <<baseOpen, done, apc, cpc, connVars>>

\* accepted <- acceptResult{nil, err}: Accept returns the error, the loop ends.
LoopReports(x) ==
  /\ lpc = "offer"
  /\ apc[x] = "wait"
  /\ lpc' = "exited"
  /\ apc' = [apc EXCEPT ![x] = "idle"]
  /\ UNCHANGED <<baseOpen, done, cpc, connVars>>

LoopStops ==
  /\ lpc = "offer"
  /\ done
  /\ lpc' = "exited"
  /\ UNCHANGED <<baseOpen, done, apc, cpc, connVars>>
-----------------------------------------------------------------------------
(* Reading: the peek, and prefixConn.                                        *)

\* A read from the raw connection would return an error.
RawFails(c) == ~open[c] \/ timer[c] = "late" \/ (eof[c] /\ sent[c] = taken[c])
RawReady(c) == open[c] /\ timer[c] # "late" /\ sent[c] > taken[c]

\* The peek has read all it reads: the header if it is not that of a TLS
\* record, or the whole record.
PeekedAll(c) ==
  \/ taken[c] = RecLen
  \/ taken[c] = 1 /\ kind[c].hello = "notTLS"

\* Mutant: only the last read is kept.
TeedLast(c, u) == <<u>>

\* io.TeeReader: everything read is kept for the replay.
Teed(c, u) == Append(prefix[c], u)

PeekReads(c) ==
  /\ pc[c] = "peek"
  /\ ~PeekedAll(c)
  /\ RawReady(c)
  /\ taken' = [taken EXCEPT ![c] = @ + 1]
  /\ prefix' = [prefix EXCEPT ![c] = Teed(c, taken'[c])]
  /\ UNCHANGED <<listenerVars, clientVars, pc, timer, rd, open, spliceVars>>

\* The end of the peek, with an error unless the record holds a ClientHello.
PeekEnds(c) == pc[c] = "peek" /\ (PeekedAll(c) \/ RawFails(c))
PeekOk(c)   == PeekedAll(c) /\ kind[c].hello = "whole"

\* prefixConn.Read has something to return, or fails.
CanRead(c)   == prefix[c] # <<>> \/ RawReady(c)
ReadFails(c) == prefix[c] = <<>> /\ RawFails(c)

\* prefixConn.Read: the peeked units first, then the raw connection.
ReadUnit(c) ==
  IF prefix[c] # <<>>
  THEN /\ rd' = [rd EXCEPT ![c] = Append(@, Head(prefix[c]))]
       /\ prefix' = [prefix EXCEPT ![c] = Tail(@)]
       /\ UNCHANGED taken
  ELSE /\ taken' = [taken EXCEPT ![c] = @ + 1]
       /\ rd' = [rd EXCEPT ![c] = Append(@, taken'[c])]
       /\ UNCHANGED prefix
-----------------------------------------------------------------------------
(* The handler: handshake, hand-over, and the splice to an upstream.         *)

\* Mutant: the connection is not closed.
DropsNot(c) ==
  /\ pc' = [pc EXCEPT ![c] = "ended"]
  /\ UNCHANGED open

\* The handler ends and closes its connection.
Drops(c) ==
  /\ pc' = [pc EXCEPT ![c] = "ended"]
  /\ open' = [open EXCEPT ![c] = FALSE]

\* The TLS server reads one more unit; the last one of the handshake moves the
\* handler to the secret.
ShakeReads(c) ==
  /\ pc[c] = "tls"
  /\ timer[c] # "late"
  /\ ~(kind[c].hello = "notTLS" /\ Len(rd[c]) = 1)
  /\ CanRead(c)
  /\ ReadUnit(c)
  /\ pc' = [pc EXCEPT ![c] = IF Len(rd'[c]) = ShakeLen THEN "secret" ELSE "tls"]
  /\ UNCHANGED <<listenerVars, clientVars, timer, open, spliceVars>>

\* The handshake fails: the bytes are not TLS, the two sides do not agree once
\* the first record is read, a read fails, the deadline has passed (a replayed
\* prefix does not help: the answer cannot be written), or a client that is gone
\* resets the connection.
ShakeFails(c) ==
  /\ pc[c] = "tls"
  /\ \/ kind[c].hello = "notTLS" /\ Len(rd[c]) = 1
     \/ Len(rd[c]) >= RecLen
     \/ timer[c] = "late"
     \/ ReadFails(c)
     \/ eof[c]
  /\ Drops(c)
  /\ UNCHANGED <<listenerVars, clientVars, timer, readVars, spliceVars>>

\* io.ReadFull of the token or the proof: one more unit.
SecretRead(c) == Len(rd[c]) - ShakeLen
SecretReads(c) ==
  /\ pc[c] = "secret"
  /\ SecretRead(c) < SecretLen
  /\ CanRead(c)
  /\ ReadUnit(c)
  /\ UNCHANGED <<listenerVars, clientVars, pc, timer, open, spliceVars>>

\* accepted <- acceptResult{conn, nil}.
Deliver(c, x) ==
  /\ pc[c] = "offer"
  /\ apc[x] = "wait"
  /\ pc' = [pc EXCEPT ![c] = "delivered"]
  /\ apc' = [apc EXCEPT ![x] = "idle"]
  /\ UNCHANGED <<baseOpen, lpc, done, cpc>>
  /\ UNCHANGED <<clientVars, timer, readVars, open, spliceVars>>

\* Mutant: the handler does not select on done.
OfferKept(c) == FALSE

\* <-l.done: nobody takes the tunnel, it is closed.
OfferClosed(c) ==
  /\ pc[c] = "offer"
  /\ done
  /\ Drops(c)
  /\ UNCHANGED <<listenerVars, clientVars, timer, readVars, spliceVars>>

\* Mutant: the deadline stays.
ClearDeadlineNot(c) == timer[c]

\* raw.SetDeadline(time.Time{})
ClearDeadline(c) == "off"

\* passthrough: closed at once without an upstream, else the deadline is
\* cleared and the upstream is dialled.
Passthrough(c) ==
  /\ IF Dest
     THEN /\ pc' = [pc EXCEPT ![c] = "dial"]
          /\ route' = [route EXCEPT ![c] = "pass"]
          /\ timer' = [timer EXCEPT ![c] = ClearDeadline(c)]
          /\ UNCHANGED open
     ELSE /\ Drops(c)
          /\ UNCHANGED <<timer, route>>
  /\ UNCHANGED <<listenerVars, clientVars, readVars, dst, out, up>>

\* Both copy directions run; the reverse proxy first replays what it consumed.
Dialled(c) ==
  /\ pc[c] = "dial"
  /\ dst' = [dst EXCEPT ![c] = "open"]
  /\ pc' = [pc EXCEPT ![c] = IF route[c] = "pass" THEN "splice" ELSE "replay"]
  /\ up' = [up EXCEPT ![c] = route[c] = "pass"]
  /\ UNCHANGED <<listenerVars, clientVars, timer, readVars, open, route, out>>

DialFails(c) ==
  /\ DialFaults
  /\ pc[c] = "dial"
  /\ Drops(c)
  /\ UNCHANGED <<listenerVars, clientVars, timer, readVars, spliceVars>>

\* Mutant: the goroutine that ends first closes nothing.
CloseNeither(c) == UNCHANGED <<open, dst>>

CloseBoth(c) ==
  /\ open' = [open EXCEPT ![c] = FALSE]
  /\ dst' = [dst EXCEPT ![c] = "closed"]

\* io.Copy(dst, client): one more unit.
UpCopies(c) ==
  /\ up[c]
  /\ dst[c] = "open"
  /\ CanRead(c)
  /\ ReadUnit(c)
  /\ out' = [out EXCEPT ![c] = Append(@, rd'[c][Len(rd'[c])])]
  /\ UNCHANGED <<listenerVars, clientVars, pc, timer, open, dst, route, up>>

\* io.Copy(dst, client) ends and closes both ends.
UpEnds(c) ==
  /\ up[c]
  /\ ReadFails(c) \/ dst[c] = "closed"
  /\ up' = [up EXCEPT ![c] = FALSE]
  /\ CloseBoth(c)
  /\ UNCHANGED <<listenerVars, clientVars, pc, timer, readVars, route, out>>

\* io.Copy(client, dst) ends, because the upstream is done or an end is closed:
\* the handler closes both and returns.
DownEnds(c) ==
  /\ pc[c] = "splice"
  /\ pc' = [pc EXCEPT ![c] = "ended"]
  /\ CloseBoth(c)
  /\ UNCHANGED <<listenerVars, clientVars, timer, readVars, route, out, up>>
-----------------------------------------------------------------------------
(* Accept and Close.                                                         *)

AcceptCalled(x) ==
  /\ apc[x] = "idle"
  /\ apc' = [apc EXCEPT ![x] = "wait"]
  /\ UNCHANGED <<baseOpen, lpc, done, cpc, connVars>>

\* <-l.done: Accept returns net.ErrClosed.
AcceptClosed(x) ==
  /\ apc[x] = "wait"
  /\ done
  /\ apc' = [apc EXCEPT ![x] = "idle"]
  /\ UNCHANGED <<baseOpen, lpc, done, cpc, connVars>>

CloseCalled(z) ==
  /\ cpc[z] = "idle"
  /\ cpc' = [cpc EXCEPT ![z] = "closing"]
  /\ done' = TRUE
  /\ UNCHANGED <<baseOpen, lpc, apc, connVars>>

\* base.Close: the connections of its backlog are reset.
CloseBase(z) ==
  /\ cpc[z] = "closing"
  /\ cpc' = [cpc EXCEPT ![z] = "returned"]
  /\ baseOpen' = FALSE
  /\ pc' = [c \in Conns |-> IF pc[c] = "backlog" THEN "ended" ELSE pc[c]]
  /\ open' = [c \in Conns |-> pc[c] # "backlog" /\ open[c]]
  /\ UNCHANGED <<lpc, done, apc, clientVars, timer, readVars, spliceVars>>
-----------------------------------------------------------------------------
Environment(c) == Connect(c) \/ ClientSends(c) \/ ClientCloses(c) \/ Expires(c)

Listens ==
  \/ LoopAcceptFails
  \/ LoopStops
  \/ \E x \in Acceptors : LoopReports(x) \/ AcceptCalled(x) \/ AcceptClosed(x)
  \/ \E z \in Closers : CloseCalled(z) \/ CloseBase(z)

\* The steps of a handler that both packages take alike.
HandlerShared(c) ==
  \/ PeekReads(c)
  \/ ShakeReads(c)
  \/ ShakeFails(c)
  \/ SecretReads(c)
  \/ \E x \in Acceptors : Deliver(c, x)
  \/ OfferClosed(c)
  \/ Dialled(c)
  \/ DialFails(c)
  \/ UpCopies(c)
  \/ UpEnds(c)
  \/ DownEnds(c)

\* Goroutines that can run do run, a dial ends, the server calls Accept again
\* and again until Close, and a handler that offers a tunnel is served in turn.
\* No client has to send anything and no upstream has to finish.
FairnessShared ==
  /\ WF_vars(~baseOpen /\ LoopAcceptFails)
  /\ WF_vars(LoopStops)
  /\ WF_vars(\E x \in Acceptors : LoopReports(x))
  /\ \A x \in Acceptors : WF_vars(~done /\ AcceptCalled(x)) /\ WF_vars(AcceptClosed(x))
  /\ \A z \in Closers : WF_vars(CloseBase(z))
  /\ \A c \in Conns : /\ WF_vars(PeekReads(c))
                      /\ WF_vars(ShakeReads(c) \/ ShakeFails(c))
                      /\ WF_vars(SecretReads(c))
                      /\ SF_vars(\E x \in Acceptors : Deliver(c, x))
                      /\ WF_vars(OfferClosed(c))
                      /\ WF_vars(Dialled(c) \/ DialFails(c))
                      /\ WF_vars(UpCopies(c))
                      /\ WF_vars(UpEnds(c))
                      /\ WF_vars(~open[c] /\ DownEnds(c))
-----------------------------------------------------------------------------
(* Properties.                                                               *)

\* The comment of prefixConn: whoever reads a connection behind the peek sees
\* the original bytes.  What has been read and what is still to be replayed
\* make up exactly what was taken from the raw connection.
ReplayIntact ==
  \A c \in Conns : rd[c] \o prefix[c] = [i \in 1..taken[c] |-> i]

\* The upstream of a splice gets the client's bytes in order and without a gap:
\* from the ClientHello on when passed through, from the first byte inside the
\* tunnel on when proxied, the bytes already consumed as a token included.
Transparent ==
  \A c \in Conns :
    LET first == IF route[c] = "pass" THEN 0 ELSE ShakeLen
    IN  \A i \in DOMAIN out[c] : out[c][i] = first + i

\* The handshake deadline is off wherever a connection outlives the handshake:
\* on a tunnel given to the application and on a spliced connection.
DeadlineOff ==
  \A c \in Conns : pc[c] \in {"delivered", "dial", "replay", "splice"} => timer[c] = "off"

\* A handler that is gone leaves nothing open behind it, neither its client nor
\* the connection it dialled.
NothingLeft ==
  \A c \in Conns : pc[c] = "ended" => ~open[c] /\ dst[c] # "open"

\* However a client stalls, its handler is out of the handshake in the end.
Classified ==
  \A c \in Conns : pc[c] \in Shaking ~> pc[c] \notin Shaking

\* When the client of a spliced connection is gone the splice ends and both of
\* its goroutines with it.
SpliceEnds ==
  \A c \in Conns : pc[c] = "splice" /\ eof[c] ~> pc[c] = "ended" /\ ~up[c]

\* After Close the accept loop ends, no handler stays behind with a tunnel that
\* nobody accepts, and every blocked Accept returns.
CloseReleases ==
  /\ done ~> lpc = "exited" /\ \A c \in Conns : pc[c] # "offer"
  /\ \A x \in Acceptors : done /\ apc[x] = "wait" ~> apc[x] = "idle"
=============================================================================
