------------------------------ MODULE Framing -------------------------------
(***************************************************************************)
(* The two wire framings of a shapedConn (conn.go, morph.go) over bytes.   *)
(* A byte is an integer: its value on the wire is the integer modulo Base  *)
(* (256 in the code), so that a data byte can be its position in the       *)
(* stream and still be misread as a header byte when a reader is out of    *)
(* step.                                                                   *)
(***************************************************************************)
EXTENDS Integers, Sequences

CONSTANTS
  Base,      \* values of a byte; a two-byte length is taken modulo Base^2
  CellSize   \* Policy.CellSize (fixed mode)

ASSUME FramingAssumption ==
  /\ Base \in Nat /\ Base * Base > 5
  /\ CellSize \in Nat /\ CellSize > 2

hdrSize       == 2
morphOverhead == 4
maxMorphCell  == Base * Base - 1
maxData       == CellSize - hdrSize

Smaller(a, b) == IF a < b THEN a ELSE b
Larger(a, b)  == IF a < b THEN b ELSE a

\* binary.BigEndian.PutUint16(b, uint16(n)) and its inverse.
PutUint16(n) == <<(n \div Base) % Base, n % Base>>
Uint16(b)    == (b[1] % Base) * Base + (b[2] % Base)

\* A reader in step never looks at padding; 0 is the place of no data byte.
Padding(k) == [i \in 1..k |-> 0]

\* Mutant: the last, short cell is not padded to the cell size.
FixedCellShort(d) == PutUint16(Len(d)) \o d

\* One cell of fixedCells, and coverCell for d = <<>>.
FixedCell(d) == PutUint16(Len(d)) \o d \o Padding(maxData - Len(d))

\* Mutant: the size sampler's value is not capped to what a header can say.
MorphSizeUncapped(s) == Larger(s, morphOverhead + 1)

\* The size morphCells makes of a sampled size: room for one byte of data, and
\* no more than the total-length field can say.
MorphSize(s) == Smaller(Larger(s, morphOverhead + 1), maxMorphCell)

\* A cell of size s that carries d.
MorphCell(s, d) ==
  PutUint16(s - 2) \o PutUint16(Len(d)) \o d \o Padding(s - morphOverhead - Len(d))

\* The size of morphCoverCell: it may be four bytes short, with room for no data.
MorphCoverSize(s) == Smaller(Larger(s, morphOverhead), maxMorphCell)
=============================================================================
