----------------------------- MODULE CellReader -----------------------------
(***************************************************************************)
(* The read side of a shapedConn: Read and readMorph (conn.go, morph.go)   *)
(* against a peer that writes data and cover cells and a carrier that      *)
(* hands over any number of bytes at a time, may be cut off, and may let a *)
(* read deadline pass.                                                     *)
(***************************************************************************)
EXTENDS Framing

CONSTANTS
  Modes,      \* whether the two ends may have a SizeSampler (morpher mode)
  Samples,    \* sizes the peer's SizeSampler returns
  Deadlines,  \* a read deadline may pass "idle" between two cells, or "any" time
  Cuts,       \* the carrier may end in the middle of a cell
  MaxWrite,   \* bound: bytes of one Write
  MaxBytes,   \* bound: bytes written in a behaviour
  MaxCovers,  \* bound: cover cells in a behaviour
  MaxRead     \* bound: size of the buffer given to Read

ASSUME ReaderAssumption ==
  /\ Modes \subseteq BOOLEAN
  /\ Samples \subseteq Int
  /\ Deadlines \in {"idle", "any"}
  /\ Cuts \in BOOLEAN
  /\ {MaxWrite, MaxBytes, MaxCovers, MaxRead} \subseteq Nat

VARIABLES
  morph,    \* morpher mode; never changes
  src,      \* number of bytes of the peer's running Write that are not yet framed
  sent,     \* number of bytes framed; byte i of the stream is the integer i
  covers,   \* number of cover cells written (for the bound)
  wire,     \* bytes on their way
  closed,   \* the peer has closed, or the carrier was cut
  cut,      \* the carrier lost bytes (history)
  written,  \* number of bytes given to the carrier (history)
  cells,    \* cells[e]: the cell that begins behind byte e of the carrier (history)
  taken,    \* number of bytes taken from the base (history)
  buf,      \* bytes io.ReadFull has got so far
  body,     \* morpher mode: length of the cell body being read; 0: its header
  pending,  \* bytes decoded and not yet returned
  out,      \* the bytes Read has returned
  rerr      \* the error of the last Read, "none" if it had none

peerVars == <<morph, src, sent, covers, closed, cut, written, cells>>
vars == <<peerVars, wire, taken, buf, body, pending, out, rerr>>

\* The length of the buffer io.ReadFull is to fill.
Need == IF ~morph THEN CellSize ELSE IF body = 0 THEN 2 ELSE body

Init ==
  /\ morph \in Modes
  /\ wire = <<>> /\ out = <<>> /\ buf = <<>> /\ pending = <<>>
  /\ src = 0 /\ sent = 0 /\ covers = 0 /\ written = 0 /\ taken = 0 /\ body = 0
  /\ closed = FALSE /\ cut = FALSE
  /\ cells = <<>>
  /\ rerr = "none"
-----------------------------------------------------------------------------
(* The peer and the carrier.                                                 *)

\* The data of a cell that carries c.len bytes behind byte c.first, and the bytes of
\* the cell, which has c.size of them; m says whether the mode is morpher mode.
Data(c)       == [i \in 1..c.len |-> c.first + i]
Encoded(m, c) == IF m THEN MorphCell(c.size, Data(c)) ELSE FixedCell(Data(c))

\* One cell is handed to the carrier.
Put(c) ==
  LET bytes == Encoded(morph, c) IN
  /\ wire' = wire \o bytes
  /\ written' = written + Len(bytes)
  /\ cells' = [e \in DOMAIN cells \cup {written} |-> IF e = written THEN c ELSE cells[e]]

\* The sizes a cell with data or a cover cell may have.
DataSizes  == IF morph THEN {MorphSize(s) : s \in Samples} ELSE {CellSize}
CoverSizes == IF morph THEN {MorphCoverSize(s) : s \in Samples} ELSE {CellSize}

Overhead == IF morph THEN morphOverhead ELSE hdrSize

\* The peer's Write of n bytes.
PeerWrites(n) ==
  /\ ~closed
  /\ src = 0
  /\ sent + n <= MaxBytes
  /\ src' = n
  /\ UNCHANGED <<morph, sent, covers, wire, closed, cut, written, cells, taken, buf, body, pending,
                 out, rerr>>

\* The loop of fixedCells and of morphCells: the next cell takes as many of the
\* remaining bytes as it has room for.
PeerFrames(size) ==
  LET m == Smaller(size - Overhead, src) IN
  /\ ~closed
  /\ src > 0
  /\ Put([size |-> size, first |-> sent, len |-> m])
  /\ src' = src - m
  /\ sent' = sent + m
  /\ UNCHANGED <<morph, covers, closed, cut, taken, buf, body, pending, out, rerr>>

\* The peer writes a cover cell.
PeerCovers(size) ==
  /\ ~closed
  /\ covers < MaxCovers
  /\ covers' = covers + 1
  /\ Put([size |-> size, first |-> sent, len |-> 0])
  /\ UNCHANGED <<morph, src, sent, closed, cut, taken, buf, body, pending, out, rerr>>

PeerCloses ==
  /\ ~closed
  /\ closed' = TRUE
  /\ UNCHANGED <<morph, src, sent, covers, cut, written, cells, wire, taken, buf, body, pending,
                 out, rerr>>

\* The carrier ends after k of the bytes on their way.
CarrierCut(k) ==
  /\ Cuts
  /\ ~closed
  /\ closed' = TRUE
  /\ cut' = TRUE
  /\ wire' = SubSeq(wire, 1, k)
  /\ UNCHANGED <<morph, src, sent, covers, written, cells, taken, buf, body, pending, out, rerr>>
-----------------------------------------------------------------------------
(* Read and readMorph.  The loop runs while nothing is pending.              *)

\* base.Read returns k bytes.
BaseRead(k) ==
  /\ pending = <<>>
  /\ Len(buf) + k <= Need
  /\ k <= Len(wire)
  /\ buf' = buf \o SubSeq(wire, 1, k)
  /\ wire' = SubSeq(wire, k + 1, Len(wire))
  /\ taken' = taken + k
  /\ UNCHANGED <<peerVars, body, pending, out, rerr>>

\* The cell just read is dropped or unpacked; the next one begins behind it.
CellDone(data, err) ==
  /\ buf' = <<>>
  /\ body' = 0
  /\ pending' = data
  /\ rerr' = err
  /\ UNCHANGED <<peerVars, wire, taken, out>>

\* Read unpacks a fixed-size cell; an empty one is cover.
ParseFixed ==
  /\ ~morph
  /\ Len(buf) = CellSize
  /\ IF Uint16(buf) > maxData
     THEN CellDone(<<>>, "corrupt")
     ELSE CellDone(SubSeq(buf, hdrSize + 1, hdrSize + Uint16(buf)), "none")

\* Mutant: a cell body shorter than the overhead of a cell is called corrupt.
MinBodyStrict == morphOverhead

\* The least a total-length field may say: the body begins with a length.
MinBody == 2

\* readMorph has the total length of the cell that follows.
ParseMorphHeader ==
  /\ morph
  /\ body = 0
  /\ Len(buf) = 2
  /\ IF Uint16(buf) < MinBody
     THEN CellDone(<<>>, "corrupt")
     ELSE /\ body' = Uint16(buf)
          /\ buf' = <<>>
          /\ UNCHANGED <<peerVars, wire, taken, pending, out, rerr>>

\* readMorph unpacks the body of a cell.
ParseMorphBody ==
  /\ morph
  /\ body > 0
  /\ Len(buf) = body
  /\ IF Uint16(buf) > body - 2
     THEN CellDone(<<>>, "corrupt")
     ELSE CellDone(SubSeq(buf, 3, 2 + Uint16(buf)), "none")

\* Read fills the k bytes of its caller's buffer from what is pending.
Copy(k) ==
  /\ pending # <<>>
  /\ out' = out \o SubSeq(pending, 1, Smaller(k, Len(pending)))
  /\ pending' = SubSeq(pending, k + 1, Len(pending))
  /\ rerr' = "none"
  /\ UNCHANGED <<peerVars, wire, taken, buf, body>>

\* The application stops calling Read at the end of the file.
Ended == rerr \in {"EOF", "ErrUnexpectedEOF"}

\* The read deadline passes inside io.ReadFull: Read returns the error and what
\* ReadFull had got is forgotten.
ReadTimesOut ==
  /\ ~Ended
  /\ Deadlines = "idle" => buf = <<>> /\ body = 0
  /\ pending = <<>>
  /\ Len(buf) < Need
  /\ CellDone(<<>>, "timeout")

\* Mutant: Read reports io.EOF wherever the base ends.
EndErrorClean == "EOF"

\* io.ReadFull returns io.EOF if it has got no byte of its buffer.
EndError == IF buf = <<>> THEN "EOF" ELSE "ErrUnexpectedEOF"

\* The base is at its end.
ReadEnds ==
  /\ closed
  /\ wire = <<>>
  /\ pending = <<>>
  /\ Len(buf) < Need
  /\ ~Ended
  /\ CellDone(<<>>, EndError)
-----------------------------------------------------------------------------
Parse == ParseFixed \/ ParseMorphHeader \/ ParseMorphBody

Read ==
  \/ \E k \in 1..Need : BaseRead(k)
  \/ Parse
  \/ \E k \in 1..MaxRead : Copy(k)

Next ==
  \/ \E n \in 1..MaxWrite : PeerWrites(n)
  \/ \E size \in DataSizes : PeerFrames(size)
  \/ \E size \in CoverSizes : PeerCovers(size)
  \/ PeerCloses
  \/ \E k \in 0..Len(wire) : CarrierCut(k)
  \/ Read
  \/ ReadTimesOut
  \/ ReadEnds

Spec == Init /\ [][Next]_vars

\* The application keeps calling Read and the carrier keeps delivering.
FairSpec == Spec /\ WF_vars(Read)
-----------------------------------------------------------------------------
(* Properties.                                                               *)

\* What Read has returned and is about to return is a prefix of what the peer
\* wrote, however the bytes were split into cells, mixed with cover, cut into
\* base reads and copied into small buffers (doc comment of Read).
Reconstructs ==
  LET got == out \o pending IN
  Len(got) <= sent /\ \A i \in 1..Len(got) : got[i] = i

\* Where the writer's cells begin and end.
Edges == DOMAIN cells \cup {written}

\* Between two cells the reader stands where a cell of the writer ends, and
\* inside a cell it has consumed no more than that cell; it never takes a cell of
\* the writer for corrupt.
Aligned ==
  /\ buf = <<>> /\ body = 0 /\ ~Ended => taken \in Edges
  /\ ~(\E e \in Edges : taken - Len(buf) < e /\ e < taken)
  /\ rerr # "corrupt"

\* A Read that reports a clean end of file does so at the end of a cell, or in
\* morpher mode right behind a length field: a carrier cut at any other byte is
\* reported as unexpected.
CleanEOF == rerr = "EOF" => taken \in Edges \/ (morph /\ taken - 2 \in Edges)

\* Everything written is read in the end unless the carrier was cut.
AllRead ==
  \A n \in 1..MaxBytes : sent >= n ~> Len(out) >= n \/ cut
=============================================================================
