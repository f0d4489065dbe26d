# A TLA+ model of obfs

`go.arpabet.com/obfs` shapes and camouflages network connections: it reframes a
`net.Conn` into cells of chosen sizes, adds cover traffic, paces what is sent,
spreads connections over several addresses, hides a TLS service from active probes,
tunnels through WebRTC data channels, and encrypts datagrams. This directory models the parts of it in which goroutines, callbacks,
deadlines and failures meet, checks them with TLC on small instances, and proves
with TLAPS, for all instances, the safety results about the shaped connection, its
reader, the listeners, the WebRTC transport, the xreality handshake and the datagrams.

## 1. Inventory

| Part | Source | State | Operations | Hard because |
|---|---|---|---|---|
| Paced connection | `conn.go`, `obfs.go` | `sendQ`, `paceErrV`, `paceDead`, `paceStart`, `done`, `closeOnce` | `Write`→`writePaced`, `pacingLoop`, `Close`→`flushQueue` | writers, pacer and closers share a channel; the pacer may die; Close hands the channel over |
| Direct connection | `conn.go`, `morph.go` | `writeMu`, `lastWrite`, `done` | `Write`/`writeMorph`, `coverLoop`, `frontLoop`, `Close` | three kinds of goroutines write to one base; a failed write may leave part of a cell |
| Framing | `conn.go`, `morph.go`, `fill.go` | none | `fixedCells`, `morphCells`, cover cells | 16-bit lengths, arbitrary sampler values |
| Cell reader | `conn.go`, `morph.go` | `pending`, the cell buffer | `Read`, `readMorph` | short reads, cuts, deadlines, cover, small buffers in any order |
| Port hopping | `hop/hop.go` | listeners, channel of results, `done` | `Dialer`, `MultiListener`, `acceptLoop`, `Accept`, `Close` | one loop per address, unbuffered hand-over, partial bind, accept errors |
| reality listener | `reality/reality.go` | channel of tunnels, `done`, per connection a deadline and a replay prefix | `acceptLoop`, `handle`, `reverseProxy`, `passthrough`, `Accept`, `Close` | a handler per connection, deadlines inside reads, bytes consumed before the decision, two copy goroutines |
| xreality listener | `xreality/listener.go`, `server.go` | as above | `handle`, `serverChannelAuth`, `passthrough` | as above, with two stages of authentication |
| xreality client and authentication | `xreality/auth.go`, `client.go`, `clienthello.go` | the deadline of a connection | `Client`, `Dialer`, `ClientSessionID`, `ServerAuthenticate`, `ParseClientHello` | two programs with a deadline each, mutual proofs bound to a channel that may lead to a stranger, a time window in whole seconds, hellos of every shape |
| xrayreality, tlscamo | own directories | none | adapters to TLS libraries | external handshakes |
| WebRTC transport | `webrtc/webrtc.go` | channels of connections, context | `Dial`, `acceptLoop`, `answer`, `Accept`, `Close` | callbacks of a library racing timers and Close on both ends, answers that are lost |
| Datagrams | `packet.go` | the pool of read buffers | `WriteTo`, `ReadFrom` | readers sharing recycled buffers, sizes at the limit of a datagram |

A shaped connection sits on any `net.Conn`; the listeners produce such `net.Conn`s.
Packages do not call each other otherwise, except that `reality` dials through
`tlscamo`. What makes the parts correct:

* connection: the reader gets the writer's bytes, in order, each once; Close loses
  nothing that was queued; no Write and no Close blocks for ever; cover traffic is
  invisible to the application;
* reader: it never leaves the writer's cell boundaries, and tells a cut from an end;
* listeners: no accepted connection is lost or left open, Close ends every goroutine
  and every blocked Accept, one client never holds up another, bytes read before a
  decision reach whoever serves the connection, only authenticated clients are accepted;
* xreality handshake: a tunnel exists only when both ends have proved the same key on the
  same channel, and an entitled client gets one;
* WebRTC: neither end keeps a peer connection the other has given up;
* datagrams: what ReadFrom returns is what WriteTo was given, and nothing else.

The hazards behind these are listed, each at its line, under `hazards` in
`PROJECT.json`.

## 2. Modules

`BaseConn` is the carrier below a shaped connection and the peer at its other end,
both external: they are modelled from how `conn.go` uses them. The unit is the cell; a
data cell is its number in the sender's order. A base write blocks while the carrier is
full (`WireCap`), and may fail having written nothing or part of a cell (`Faults`).
`Sticky` tells final errors (TLS, a reset TCP connection) from a write deadline on plain
TCP that the application then moves. Behind a partial cell the peer is out of step: it
may deliver garbage or drop cells.

`PacedConn` (extends `BaseConn`) is a connection with `Policy.Paced`. Each writer goes
through the steps of `writePaced`: the error check, the framing, the test for a drained
queue, then one select per cell, whose three cases are three actions. The pacer's loop
is seven actions; storing the error and closing `paceDead` are separate steps, as in the
code. `Close` runs inside `closeOnce`: close `done`, wait for the pacer, flush cell by
cell, close the base. The rate clock is a timer that may fire at any time. The surge
clock is kept as the count of cells at its last restart. `mine`, `acked`, `closeMark`
are history variables.

`DirectConn` (extends `BaseConn`) is a connection without pacing: `Write` or
`writeMorph` with the lock around one base write of several cells (put on the wire one
by one), `coverLoop` and `frontLoop` with their error paths, `Close`. `idle` stands for
`time.Since(lastWrite) >= interval`.

`Stream` is what both promise: a number of cells handed over and the sequence delivered.
`PacedConn!StreamSpec` and `DirectConn!StreamSpec` are its specification under the
mappings `accepted <- enq`, `accepted <- next`, and `delivered <- rcvd`.

`Framing` has both wire formats as operators over bytes; bytes are integers, their value
on the wire is taken modulo `Base` (256 in the code), so lengths overflow as in the code
but at small sizes. Padding is zeroes (`ZeroFill`): a reader in step never looks at it.

`CellReader` (extends `Framing`) is `Read`/`readMorph`, the mode chosen in `Init`, against
a peer that writes data and cover and a carrier that hands over any number of bytes at a
time. The loop that splits a Write into cells (`fixedCells`, `morphCells`) is one step per
cell (`PeerFrames`), each with a size of its own; cover may come between any two, as it does
when the pacer writes. `io.ReadFull` is the pair `buf`, `Need`; its errors (`io.EOF` with no
byte read, `io.ErrUnexpectedEOF` otherwise, a timeout) are kept apart. Data bytes are
numbered in the peer's order. `cells`, `written` and `taken` are history: which cell begins
behind which byte of the carrier, how many bytes it was given and how many were read.

`Handover` is what a listener promises that makes connections in goroutines of its own:
each is handed to one `Accept` or closed and none is left behind open (`Spec`), and after
`Close` none is kept waiting (`Settled`). `HandoverSpec` of `MultiListener`
and `TunnelHandover` of `Tunnel` are the one, and a part of `CloseReleases` and `GoroutinesEnd`
the other, under the mappings `State` and `TunnelState`, which call a connection "lost" when it is open and neither a goroutine of the listener nor the
application has it.

`MultiListener` is `hop.go`: the constructor, one accept loop per address, the unbuffered
hand-over as a joint step of a loop and an `Accept`, `Close`, and clients whose address is
`HopIndex` of their time window, negative windows included. `Close` goes through the
listeners one step each (`cpc` is where it is), so that several Closes overlap and each meets
listeners the others have closed; the constructor calls the same `Close` after a failed bind,
as the goroutine `Maker`, with as many listeners as it has bound and clients perhaps in their
backlogs.

`GuardedListener` has what `reality` and `xreality` share: accept loop, peek, replay by
`prefixConn`, handshake deadline, splice with two copy goroutines, `Accept`, `Close`.
Clients send numbered units: two for the first record, `ShakeLen` for the handshake,
`SecretLen` for the token or proof. What a client sends is one of the records of `Kind`:
the outcomes of parsing, of the name check and of the secret check, not their bytes.
`Reality` adds the SNI stage, the token and the reverse proxy; `XReality` the decision
on the record and the channel proofs. `ProbeDefence` puts the three together: a behaviour
is one of a listener of either package (`pkg`), and the properties hold of both.

`ClientHello` has the two parsers of a ClientHello as operators over bytes, and the hello
a TLS stack writes. The loops of the code are one recursive function, `Entries`, which
also says whether the list was cut short; the two parsers differ in what they make of
that. Field lengths and code points are shrunk to fit a small byte base.

`XHandshake` (extends `ClientHello`) is one handshake of `xreality.Dialer` with
`handle` of the listener. The client's hello is bytes and goes through the parser; keys,
sealed session IDs and HMACs are records of what they are made from, so that two are
equal exactly when they are made from the same things. A client of `Confs` has the right
or a wrong server key, a shortID that is listed, padded, cut, unknown or too long, names,
key shares (GREASE, a short one, the right one) and extensions in some order, a clock that
is ahead or behind, and a connection that leads to the server or to a stranger. The
borrowed site behind passthrough is a stranger too; passthrough may also close the client
(no `Dest`, or one that cannot be dialled), and the site may end the splice. The clock has `Sec` ticks to the
second, so that the truncation to seconds shows.

`Tunnel` has the two ends of the WebRTC tunnels and what is promised of them; `WebRTC`
(extends `Tunnel`) is `webrtc.go` on both ends: `Dial` with its callback for any number of tunnels,
the listener's loop, one `answer` goroutine per offer with its callback, `Accept`,
`Close`. The broker and pion are external: offers may be stray (their client is gone),
answers may be lost, calls may fail, and a data channel opens once both descriptions are
set, on either end first, or never. A peer connection has one data channel, as `Dial` opens
one; the callback `answer` registers for any further one is not exercised.

`Packet` is `packet.go`: `WriteTo` frames, pads and encrypts, `ReadFrom` takes a buffer of
the pool, reads, decrypts in place, checks, copies, and puts the buffer back. A byte
carries the datagram it is from, its value, and the set of key stream bytes XORed to it,
so that XOR with the same stream undoes itself and nothing else does; a length field that
is not in the clear may say anything. Datagrams stay in `net` and may arrive any number of
times, in any order, or never. The pool counts how often a buffer lies in it, and `Get`
takes what lies there whoever still uses it, or a new one; that no two readers have the same
buffer follows from where `ReadFrom` calls `Put`. A `Put` before the copy, or a second one,
makes the run `packet` fail.

`MCPacedConn`, `MCDirectConn`, `MCMultiListener`, `MCProbeDefence`, `MCXHandshake`,
`MCWebRTC`, `MCPacket` give TLC model values and sets, and symmetry where only safety is checked. `CellReader` needs none.

Operators commented `Mutant` are deliberately wrong variants of the definition that
follows; no specification uses them. Each property has one that violates it, listed
under `mutants`, so a property that cannot fail is noticed.

## 3. Runs

| Run | Instance | Shows |
|---|---|---|
| `paced_safety` | 2 writers, 2 closers, queue 2, carrier 2, 3 cells, clean and torn errors, final | order, flush on close, one consumer at a time, truthful errors, `Stream` implemented |
| `paced_live` | 1 writer of 3 cells over a queue of 1, transient errors | Writes and Close return, cells arrive |
| `direct` | 2 writers, 2 closers, cover and one front cell, a carrier of 1, 2 cells, clean and torn errors, final | `Stream` implemented, loops end before the base is closed, nobody starves on `writeMu`, cover comes |
| `read` | both modes; byte base 3, cells of 4 bytes or samples 0, 6, 12 (too small, valid, too large), 3 bytes, cover, cuts, buffers of 1 and 2 | the bytes are reconstructed, boundaries kept, cuts reported |
| `hop` | 2 addresses, 2 clients, 2 acceptors, 2 closers, bind and accept errors, windows -2..2 | `Handover` implemented and settled after `Close`, nothing stays bound after any `Close`, every window lands, loops and `Accept` end after `Close` |
| `probe_defence` | both packages, one client of each of 12 kinds, a secret of 2 units, 6 units, accept and dial errors | bytes intact, deadlines off, nothing left, only holders of the secret; classification, end of splices, release by `Close` |
| `xhandshake` | about 200 clients, a skew of 1.5 seconds of 2 ticks, a clock of 3 ticks, cuts, deadlines, strangers | fingerprints parsed rightly, agreement on key and channel, nobody answered but clients with the key and a shortID, the exact time window, no side stuck, entitled clients get in |
| `webrtc` | 2 tunnels, one of them a stray offer, 2 acceptors | `Handover` implemented and settled after `Close`, `Dial` leaks nothing, the two ends agree in the end, no goroutine stays blocked |
| `packet` | 2 readers, 2 buffers, 2 datagrams of 4 payload lengths, 4 padded sizes and 3 foreign lengths, buffers of 1 and 4 | payloads returned exactly, no byte of another datagram |

Why these bounds suffice: a queue of two with three cells has empty, partly filled and
full states and a cell in hand; two of each actor show every pairwise race, and
`closeOnce` and `writeMu` make any further one behave like the second. In `direct` two
cells are one Write of two or two Writes of one; its safety properties are proved for
any number. Bytes: with cells of two data bytes three bytes make full, short and
multi-cell Writes; with three samples a Write of three bytes takes one to three cells. Handlers of different connections share only the accept channel and `done`,
so one connection of every kind is enough for what is said of a single connection; the
safety properties of `probe_defence` are proved for any number. In
`xhandshake` the clients vary one group of features at a time: fingerprints with the usual
keys, and keys, clocks and routes with the usual fingerprint; the two groups meet only in
the parsed key share. In `packet` a buffer that has held one datagram and then holds
another is all there is to recycling; sizes are such that the largest padded datagram is
longer than the buffer, as in the code. All runs switch deadlock checking off: a closed connection, a
closed listener, and a client that sends no more are legitimate ends.

Three runs expect a violation, where a comment of the repository and the code disagree;
`findings` in `PROJECT.json` quotes the line.

| Run | What happens |
|---|---|
| `paced_acked` | a Write racing Close enqueues after the flush and still returns success |
| `read_deadline` | a read deadline inside a cell loses the bytes already read |
| `hop_transient` | one accept error ends the loop of an address that stays bound |

Other settings of the constants show smaller disagreements, which are not runs of their
own:

* `Sticky = FALSE` in `PacedSafety.cfg` violates `StreamSpec` and `InOrder`: the pacer drops the cell
  whose write timed out, and Close flushes the ones behind it (`conn.go:406`). This needs
  plain TCP with a write deadline; under TLS write errors are final, and for such
  carriers `InOrder` is proved.
* `Sticky = FALSE` in `Direct.cfg` violates `StreamSpec`: a cover cell written in part
  garbles the stream although every Write succeeds (`conn.go:215`).
* In morpher mode a carrier cut right behind a cell's length field is reported as `io.EOF`
  (`morph.go:95`); `CleanEOF` allows it there and nowhere else.
* `CellSize = 11`, `MaxWrite = 9`, `MaxBytes = 9`, `Modes = {FALSE}` in `Read.cfg` violates
  `AllRead`: a data length above 16 bits is truncated (`CellSize` > 65537,
  `conn.go:153`).
* The test for a drained queue and the first enqueue are two steps (`ResetSurge`, `Send`),
  so a queue that drains in between leaves the surge clock running (`conn.go:283`).

### Fairness

Weak fairness for every step a goroutine can take by itself. Strong fairness where Go's
runtime serves waiters in turn: a sender blocked on a channel (`Send`, `Deliver`), a
goroutine waiting for `sync.Mutex` (`WriteLocks`, `CoverLocks`, `FrontLocks`), and a
select with several ready cases, which picks at random (`PacerStops`, `CoverStops`). The
peer of a shaped connection keeps reading: without that base writes block for ever and
so does everything above. Nobody has to call `Write` or `Close`, no client has to send,
no upstream has to finish, and writes may fail at any time. Servers call `Accept` again
until `Close`. Deadlines that are set pass. In `WebRTC` the context of `Dial` and the
timer of `answer` run out, callbacks run, and `reply` and `src.Next` return once the
context has ended; nothing makes a data channel open. `reply` gets no context from the
code, so that is an assumption about the broker.

## 4. Proofs

The modules named `...Proofs` are checked by `tlapm`. `BaseConnProofs` has lemmas about
the carrier; each of the others states an inductive invariant
`IInv` as a conjunction of named parts, shows `Init => IInv` (`InitIInv`) and
`IInv /\ [Next]_vars => IInv'` (`NextIInv`, from one lemma per group of actions), and
derives its theorems from `Invariance`, `Spec => []IInv`. The assumptions are those the
modules name: capacities and sizes are numbers of the right sign, switches are Booleans,
(`DirectConn`) no writer is called like a loop, (`MultiListener`) the goroutine of the
constructor is none of the closers, (`XHandshake`) a clock is ahead by some
integer, and (`Packet`) a datagram has room for its
salt and header. All sets of actors, connections, tunnels, readers and buffers are
arbitrary and need not even be finite.

Key notion (`BaseConnProofs`): `WireHolds(s)` says that the peer and the wire together
hold the data cells 1..s in order, cover anywhere between, and a torn cell at most at
the end and only when the carrier is broken. Its lemmas say how a base write, a failed
one and a peer read carry `WireHolds(s)` on.

`PacedConnProofs`: the inductive invariant `IInv` is the type invariant and
* `QueueInv`: `sendQ` holds the latest cells without a gap;
* `CloseInv`: one closer inside `closeOnce`, past the wait only when the pacer is gone;
* `ErrInv`: the error is stored before `paceDead` is closed, and only after a failure;
* `StreamInv`: `WireHolds(s)` for an s that is the number of cells that left `sendQ`,
  less the one in the hands of the pacer or the flush.

`InOrder` is not inductive: it says nothing of the cells still in `sendQ`, in the pacer
or on the wire. `StreamInv` also needs `CloseInv`, since two consumers would each hold a
cell. Proved: `TypeCorrect`, `OneConsumer`, `ErrorsReported`, `PrefixDelivered`
(`InOrder` when `Sticky`; TLC shows it false otherwise), `CloseFlushes` and
`ImplementsStream`, the refinement of `Stream`.

`DirectConnProofs`: `LockInv` ties the holder of `writeMu` to the one goroutine inside a
base write, `WriterInv` and `FrontInv` the counters to the places, `LoopInv` the loops to
Close, and `StreamInv` says `WireHolds(s)` where s counts the cells of all finished
Writes and of the running one so far. Proved: `TypeCorrect`, `LoopsStopped`,
`WritesInOrder`, `ImplementsStream`.

`CellReaderProofs`: `Reconstructs` says nothing of the bytes between the two ends, so it is
not inductive. The invariant describes the whole carrier by the cells that went into it:
* `CellsInv`: the cells lie one behind the other without a gap, each with room for its data
  and a size that its header can say, and so does the data in them;
* `WireInv`, `BufInv`: every byte on its way or in `buf` is the byte of the cell that lies
  there, up to where the carrier was cut;
* `ReaderInv`: the reader is inside the cell at `Start`, and the data in the cells before it
  is as long as what was returned and is pending; `body` is the length of that cell;
* `DataInv`: what was returned and is pending are the bytes 1, 2, ...

Below it are lemmas about the framings: a length below `Base`^2 is read back from its two
bytes (`LengthField`), and what a reader finds where in a cell (`FixedCellProps`,
`MorphCellProps`). Proved, for every byte base, cell size, set of sampled sizes and number of
bytes: `ReadReconstructs`, `ReadStaysAligned`, `CleanEndOnlyAtEdges`. They have two
hypotheses, both needed. `Deadlines = "idle"`: the run `read_deadline` shows what a deadline
inside a cell does. `Describable`: in fixed mode the header can say how much data a cell has,
which the code does not enforce (section 3). Nothing is assumed of the sampler.

`HandoverProofs` has the two components that implement `Handover`; the steps of `WebRTC` are
taken there as the instance `W`, the promises from `Tunnel`.

* `MultiListener`: `HeldInv` says that a connection on offer is held by the loop of
  its own address and that whatever is held is on offer somewhere; `PhaseInv` ties the base
  listeners to the constructor and to Close; `CloseInv` says that the bound listeners are the
  first of the list, that those a Close has passed are closed, and that a backlog is one of an
  open listener; `DialInv` says that every connection was made to
  an address. Without `HeldInv` a step could make a connection "lost", without `CloseInv` the
  end of the loop would say nothing about the listeners before it. Proved:
  `CloseUnbinds`, `DialsLand` (with what Go's `%` returns for negative numbers, lemmas
  `GoModRange` and `HopIndexRange`) and `ListenerImplementsHandover`, step by step: every
  action moves the mapped state as `Handover` allows or leaves it.
* `WebRTC`: `ClientInv`, `OfferInv` and `ServerInv` (together `TunnelsInv`) say for every
  place of `Dial`, `answer` and the two callbacks which peer connections are open; the heart
  is that a callback that is running, or whose connection lies in the channel, has an open
  peer connection unless its goroutine has given up and closed it. Proved:
  `DialLeaksNothing` and `TransportImplementsHandover`.

`ProbeDefenceProofs` covers both packages at once. `ReadInv`: what was read and what is to
be replayed are the units 1, 2, ... taken from the connection. `SpliceInv`: what the
upstream got starts at the right unit, and continues where the handler's reads stopped.
`StageInv`: what a handler knows of its client at each stage. The delicate part is reality's
TLS stage, which a hello that names somebody else does reach when the peek failed: such a
connection never yields another unit, so the handshake fails (`RawFails` is part of the
invariant for that). Proved, for any number of connections: `PeekLosesNothing`,
`SpliceIsTransparent`, `DeadlineCleared`, `HandlerLeaksNothing`, `OnlyAuthedDelivered`.

`XHandshakeProofs`: the type of the two queues is the core of the argument: a proof of the
server can be on its way only once `handle` has written it, under the key `handle` works
with, and one of the client only after `Client` has returned. `PeekInv` orders the two
sides while the hello is read, `ReturnedInv` and `AcceptedInv` are the two halves of
agreement, and `JudgedInv` and `FitInv` say that there is a key exactly if the verdict on
the client's hello was good at the time it was given. Proved: `BothAgree`, `NobodyElse`, and
`TimeWindow`, for every `TimeSkew` and fraction of a second. That an entitled client in time
is let in needs what the parser returns, so `TimeWindow` assumes `[]ParsedRight`, which TLC
checks; `BothAgree` and `NobodyElse` assume nothing of the parsers.

`PacketProofs`: `DatagramInv` says that a datagram of `WriteTo` carries salt, length and
payload at their places (`Carries`), `Exclusive` that a buffer lies in the pool
once or is with one reader,
`ReaderInv` that a reader about to parse has its datagram in its buffer and one about to
return has the right result. Lemmas say what the framing and XOR do (`WriteMakes`,
`XORProps`), that the two bytes of the length give the length back (`LengthField`, with
`Base` arbitrary), and that decoding a cut datagram of ours still finds its whole payload
(`OwnDecoded`). Proved: `ReadIsFaithful`, for every byte base, salt, padding and buffer.

Only model-checked:
* all liveness properties, `Handover!Settled` among them: fairness and ENABLED are out of the
  prover's reach;
* what the parsers return (`ParsedRight`): what the recursive function `Entries` computes
  needs induction over data.

The cell reader avoids that induction: a Write is framed one cell per step, so the induction
is over the steps of a behaviour.

## 5. Not modelled

* Float and random arithmetic: `currentInterval`, `withDefaults`, the samplers,
  `frontLoop`'s send times. Timers fire at any time, samplers return any value of a set.
* Cryptography and TLS, except for what they guarantee: a seal opens only under its key, an
  HMAC is equal only for equal inputs, TLS gives both ends the same channel secret.
* `reality.Dialer`, `obfs.Wrap`, `Dialer` and `Listener`: straight sequences of calls.
* `tlscamo`, `xrayreality`, the examples: sequential adapters without state of their own;
  the handshakes they start belong to external libraries.
* Local and remote addresses, logging callbacks, deadlines on a WebRTC tunnel (passed on).
* An oversized datagram that the carrier refuses is a failed base write like any other.

## 6. Plan

Done, in this order: shaped connection (paced, then direct, with the abstract stream and
proofs), framing and reader, port hopping, reality and xreality listeners, the abstract
hand-over, WebRTC, the ClientHello parsers and the xreality handshake, datagrams.

Then proofs for all instances: the paced and direct connection, `Handover` for hopping and
WebRTC, the probe-defending listeners, the xreality handshake, datagrams, the cell reader.
Every invariant and every refinement that a run checks is proved, except `ParsedRight`.

Left: a cell reader with deadlines inside a cell has no property worth proving until the code
keeps what it has read; the same goes for acknowledged Writes that race Close.

## 7. Running

    tlc -workers 2 -config PacedSafety.cfg MCPacedConn
    tlapm PacedConnProofs.tla

The other runs and proof modules alike; `PROJECT.json` lists them.
