-------------------------- MODULE CellReaderProofs --------------------------
(***************************************************************************)
(* Proofs about CellReader, for every cell size, byte base and set of      *)
(* sampled sizes, every mix of data and cover, every splitting by the      *)
(* carrier and every size of the caller's buffer.                          *)
(***************************************************************************)
EXTENDS CellReader, SequenceTheorems, TLAPS

\* The header of a fixed-size cell can say how much data the cell has.
Describable == FALSE \in Modes => maxData < Base * Base

Cell == [size : Nat, first : Nat, len : Nat]

TypeOK ==
  /\ morph \in BOOLEAN /\ morph \in Modes
  /\ src \in Nat /\ sent \in Nat /\ written \in Nat /\ taken \in Nat /\ body \in Nat
  /\ wire \in Seq(Nat) /\ buf \in Seq(Nat) /\ pending \in Seq(Nat) /\ out \in Seq(Nat)
  /\ closed \in BOOLEAN /\ cut \in BOOLEAN
  /\ rerr \in {"none", "timeout", "EOF", "ErrUnexpectedEOF"}
  /\ DOMAIN cells \subseteq Nat /\ cells \in [DOMAIN cells -> Cell]

\* In mode m cell c has room for its data and a size that its header can say.
GoodCell(m, c) ==
  IF m THEN 4 + c.len <= c.size /\ c.size < Base * Base
       ELSE 2 + c.len <= c.size /\ c.size = CellSize

\* Number of data bytes in the cells before edge e, when the cells are cs and carry n.
Before(cs, n, e) == IF e \in DOMAIN cs THEN cs[e].first ELSE n

\* The cells lie one behind the other from the first byte of the carrier to the
\* last, and so does the data in them.
CellsInv ==
  /\ 0 \in Edges /\ Before(cells, sent, 0) = 0
  /\ \A e \in DOMAIN cells :
       /\ e < written
       /\ GoodCell(morph, cells[e])
       /\ e + cells[e].size \in Edges
       /\ Before(cells, sent, e + cells[e].size) = cells[e].first + cells[e].len
       /\ cells[e].first + cells[e].len <= sent
       /\ \A f \in DOMAIN cells : f > e => f >= e + cells[e].size

\* Behind the bytes taken the wire holds those of the cells, to the end unless the
\* carrier was cut.
WireInv ==
  /\ taken + Len(wire) <= written
  /\ cut => closed
  /\ ~cut => taken + Len(wire) = written
  /\ \A e \in DOMAIN cells : \A j \in 1..cells[e].size :
       taken < e + j /\ e + j <= taken + Len(wire) =>
         wire[e + j - taken] = Encoded(morph, cells[e])[j]

\* buf holds the last bytes taken.
BufInv ==
  /\ Len(buf) <= taken
  /\ \A e \in DOMAIN cells : \A j \in 1..cells[e].size :
       taken - Len(buf) < e + j /\ e + j <= taken =>
         buf[e + j - (taken - Len(buf))] = Encoded(morph, cells[e])[j]

\* Where the cell that is being read begins.
Start == taken - Len(buf) - (IF body > 0 THEN 2 ELSE 0)

\* The reader is inside the cell at Start, has unpacked all cells before it, and
\* stands still once it has met the end.
ReaderInv ==
  /\ ~Ended => Start \in Edges /\ Before(cells, sent, Start) = Len(out) + Len(pending)
  /\ body > 0 => morph /\ Start \in DOMAIN cells /\ body = cells[Start].size - 2
  /\ Len(buf) <= Need
  /\ pending # <<>> => buf = <<>> /\ body = 0 /\ ~Ended
  /\ Ended => closed /\ wire = <<>> /\ buf = <<>> /\ body = 0 /\ pending = <<>>
  /\ CleanEOF

\* The bytes unpacked are the first ones of the stream.
DataInv ==
  /\ Len(out) + Len(pending) <= sent
  /\ \A i \in 1..Len(out) : out[i] = i
  /\ \A i \in 1..Len(pending) : pending[i] = Len(out) + i

IInv == TypeOK /\ CellsInv /\ WireInv /\ BufInv /\ ReaderInv /\ DataInv
-----------------------------------------------------------------------------
(* Cells.                                                                    *)

\* The numbers a byte base and a cell size stand for.
LEMMA Sizes ==
  /\ Base \in Nat /\ Base > 0 /\ Base * Base \in Nat /\ Base * Base > 5
  /\ CellSize \in Nat /\ CellSize > 2 /\ maxData = CellSize - 2
  /\ maxMorphCell = Base * Base - 1
<1>1. Base \in Nat /\ Base * Base > 5 /\ CellSize \in Nat /\ CellSize > 2
  BY FramingAssumption
<1>2. Base > 0
  <2>1. CASE Base = 0
    <3>1. Base * Base = 0
      BY <2>1
    <3>. QED
      BY <1>1, <3>1
  <2>. QED
    BY <1>1, <2>1
<1>3. Base * Base \in Nat
  BY <1>1
<1>. QED
  BY <1>1, <1>2, <1>3 DEF maxData, hdrSize, maxMorphCell

\* A number that fits is written in two bytes from which Uint16 reads it.
LEMMA LengthField ==
  ASSUME NEW k \in Nat, k < Base * Base
  PROVE  /\ PutUint16(k) \in Seq(Nat) /\ Len(PutUint16(k)) = 2
         /\ \A b : b[1] = PutUint16(k)[1] /\ b[2] = PutUint16(k)[2] => Uint16(b) = k
<1>. DEFINE q == k \div Base
            r == k % Base
            w == Base * q
<1>1. Base \in Nat /\ Base > 0 /\ Base * Base \in Nat
  BY Sizes
<1>2. q \in Nat /\ r \in 0..Base - 1 /\ k = w + r
  BY <1>1
<1>3. q < Base
  <2>. SUFFICES ASSUME q >= Base PROVE FALSE
    BY <1>1, <1>2
  <2>. HIDE DEF q, r
  <2>1. w >= Base * Base /\ w \in Nat
    BY <1>1, <1>2
  <2>. HIDE DEF w
  <2>. QED
    BY <1>1, <1>2, <2>1
<1>. HIDE DEF q, r
<1>4. q % Base = q /\ r % Base = r /\ q * Base = w
  BY <1>1, <1>2, <1>3
<1>5. PutUint16(k) = <<q % Base, r>>
  BY DEF PutUint16, q, r
<1>6. PutUint16(k) \in Seq(Nat) /\ Len(PutUint16(k)) = 2
  <2>1. q % Base \in Nat /\ r \in Nat
    BY <1>1, <1>2, <1>4
  <2>. HIDE DEF w
  <2>. QED
    BY <1>5, <2>1
<1>7. PutUint16(k)[1] = q /\ PutUint16(k)[2] = r
  BY <1>4, <1>5
<1>. HIDE DEF w
<1>8. ASSUME NEW b, b[1] = q, b[2] = r PROVE Uint16(b) = k
  <2>1. Uint16(b) = (q % Base) * Base + (r % Base)
    BY <1>8 DEF Uint16
  <2>2. (q % Base) * Base = w
    BY <1>4
  <2>. QED
    BY <1>2, <1>4, <2>1, <2>2
<1>. QED
  BY <1>6, <1>7, <1>8

\* Data of a cell.
LEMMA DataProps ==
  ASSUME NEW c \in Cell
  PROVE  /\ Data(c) \in Seq(Nat) /\ Len(Data(c)) = c.len
         /\ \A i \in 1..c.len : Data(c)[i] = c.first + i
<1>1. c.len \in Nat /\ c.first \in Nat
  BY DEF Cell
<1>2. \A i \in 1..c.len : c.first + i \in Nat
  BY <1>1
<1>3. Data(c) \in [1..c.len -> Nat]
  BY <1>2 DEF Data
<1>4. \A i \in 1..c.len : Data(c)[i] = c.first + i
  BY DEF Data
<1>. QED
  BY <1>1, <1>3, <1>4

\* Padding, in any amount.
LEMMA PaddingProps ==
  ASSUME NEW k \in Nat
  PROVE  Padding(k) \in Seq(Nat) /\ Len(Padding(k)) = k
BY DEF Padding

\* A header, data and padding put one behind the other.
LEMMA Layout ==
  ASSUME NEW a \in Seq(Nat), NEW b \in Seq(Nat), NEW c \in Seq(Nat), NEW E, E = a \o b \o c
  PROVE  /\ E \in Seq(Nat)
         /\ Len(E) = Len(a) + Len(b) + Len(c)
         /\ \A i \in 1..Len(a) : E[i] = a[i]
         /\ \A i \in 1..Len(b) : E[Len(a) + i] = b[i]
<1>1. E \in Seq(Nat) /\ Len(E) = Len(a) + Len(b) + Len(c)
  OBVIOUS
<1>2. ASSUME NEW i \in 1..Len(a) PROVE E[i] = a[i]
  OBVIOUS
<1>3. ASSUME NEW i \in 1..Len(b) PROVE E[Len(a) + i] = b[i]
  OBVIOUS
<1>. QED
  BY <1>1, <1>2, <1>3

\* The two length fields of a cell of morpher mode.
LEMMA TwoFields ==
  ASSUME NEW g \in Seq(Nat), NEW h \in Seq(Nat), Len(g) = 2, Len(h) = 2
  PROVE  /\ g \o h \in Seq(Nat) /\ Len(g \o h) = 4
         /\ (g \o h)[1] = g[1] /\ (g \o h)[2] = g[2]
         /\ (g \o h)[3] = h[1] /\ (g \o h)[4] = h[2]
<1>1. ASSUME NEW a \in Seq(Nat), NEW b \in Seq(Nat)
      PROVE  /\ a \o b \in Seq(Nat) /\ Len(a \o b) = Len(a) + Len(b)
             /\ \A i \in 1..Len(a) : (a \o b)[i] = a[i]
             /\ \A i \in 1..Len(b) : (a \o b)[Len(a) + i] = b[i]
  OBVIOUS
<1>2. /\ g \o h \in Seq(Nat) /\ Len(g \o h) = Len(g) + Len(h)
      /\ \A i \in 1..Len(g) : (g \o h)[i] = g[i]
      /\ \A i \in 1..Len(h) : (g \o h)[Len(g) + i] = h[i]
  BY <1>1
<1>. DEFINE E == g \o h
<1>. HIDE DEF E
<1>3. E \in Seq(Nat) /\ Len(E) = 4
  BY <1>2 DEF E
<1>4. E[1] = g[1] /\ E[2] = g[2] /\ E[3] = h[1] /\ E[4] = h[2]
  BY <1>2 DEF E
<1>. QED
  BY <1>3, <1>4 DEF E

\* A fixed-size cell: its header says how much data it has, and the data follows.
LEMMA FixedCellProps ==
  ASSUME NEW c \in Cell, c.len <= maxData, maxData < Base * Base, NEW E, E = FixedCell(Data(c))
  PROVE  /\ E \in Seq(Nat) /\ Len(E) = CellSize
         /\ \A b : b[1] = E[1] /\ b[2] = E[2] => Uint16(b) = c.len
         /\ \A i \in 1..c.len : E[2 + i] = c.first + i
<1>. DEFINE k == c.len
            d == Data(c)
            h == PutUint16(k)
            p == Padding(maxData - k)
<1>1. k \in Nat
  BY DEF Cell
<1>2. maxData \in Nat /\ maxData - k \in Nat /\ CellSize = 2 + k + (maxData - k) /\ k < Base * Base
  BY <1>1, Sizes
<1>3. h \in Seq(Nat) /\ Len(h) = 2
  BY <1>1, <1>2, LengthField
<1>4. \A b : b[1] = h[1] /\ b[2] = h[2] => Uint16(b) = k
  BY <1>1, <1>2, LengthField
<1>5. d \in Seq(Nat) /\ Len(d) = k
  BY DataProps
<1>6. \A i \in 1..k : d[i] = c.first + i
  BY DataProps
<1>7. p \in Seq(Nat) /\ Len(p) = maxData - k
  BY <1>2, PaddingProps
<1>8. E = h \o d \o p
  BY <1>5 DEF FixedCell
<1>. HIDE DEF h, d, p, k
<1>9. /\ E \in Seq(Nat) /\ Len(E) = Len(h) + Len(d) + Len(p)
      /\ \A i \in 1..Len(h) : E[i] = h[i]
      /\ \A i \in 1..Len(d) : E[Len(h) + i] = d[i]
  <2>1. h \in Seq(Nat) /\ d \in Seq(Nat) /\ p \in Seq(Nat)
    BY <1>3, <1>5, <1>7
  <2>. QED
    BY <1>8, <2>1, Layout
<1>10. Len(E) = CellSize
  BY <1>2, <1>3, <1>5, <1>7, <1>9
<1>11. E[1] = h[1] /\ E[2] = h[2]
  BY <1>3, <1>9
<1>12. ASSUME NEW i \in 1..k PROVE E[2 + i] = c.first + i
  <2>1. E[2 + i] = d[i]
    BY <1>1, <1>3, <1>5, <1>9
  <2>. QED
    BY <1>6, <2>1
<1>13. \A b : b[1] = E[1] /\ b[2] = E[2] => Uint16(b) = k
  BY <1>4, <1>11
<1>. QED
  BY <1>9, <1>10, <1>12, <1>13 DEF k

\* A cell of morpher mode: its first field says how long its body is, its second
\* how much data it has, and the data follows.
LEMMA MorphCellProps ==
  ASSUME NEW c \in Cell, 4 + c.len <= c.size, c.size < Base * Base,
         NEW E, E = MorphCell(c.size, Data(c))
  PROVE  /\ E \in Seq(Nat) /\ Len(E) = c.size
         /\ \A b : b[1] = E[1] /\ b[2] = E[2] => Uint16(b) = c.size - 2
         /\ \A b : b[1] = E[3] /\ b[2] = E[4] => Uint16(b) = c.len
         /\ \A i \in 1..c.len : E[4 + i] = c.first + i
<1>. DEFINE k == c.len
            s == c.size
            d == Data(c)
            g == PutUint16(s - 2)
            h == PutUint16(k)
            gh == g \o h
            p == Padding(s - 4 - k)
<1>1. k \in Nat /\ s \in Nat
  BY DEF Cell
<1>2. /\ s - 2 \in Nat /\ s - 2 < Base * Base /\ k < Base * Base
      /\ s - 4 - k \in Nat /\ s = 4 + k + (s - 4 - k)
  BY <1>1, Sizes
<1>3. g \in Seq(Nat) /\ Len(g) = 2 /\ h \in Seq(Nat) /\ Len(h) = 2
  BY <1>1, <1>2, LengthField
<1>4. \A b : b[1] = g[1] /\ b[2] = g[2] => Uint16(b) = s - 2
  BY <1>1, <1>2, LengthField
<1>5. \A b : b[1] = h[1] /\ b[2] = h[2] => Uint16(b) = k
  BY <1>1, <1>2, LengthField
<1>6. d \in Seq(Nat) /\ Len(d) = k
  BY DataProps
<1>7. \A i \in 1..k : d[i] = c.first + i
  BY DataProps
<1>8. p \in Seq(Nat) /\ Len(p) = s - 4 - k
  BY <1>2, PaddingProps
<1>9. E = gh \o d \o p
  BY <1>6 DEF MorphCell, morphOverhead
<1>. HIDE DEF g, h, d, p, k, s
<1>10. /\ gh \in Seq(Nat) /\ Len(gh) = 4
       /\ gh[1] = g[1] /\ gh[2] = g[2] /\ gh[3] = h[1] /\ gh[4] = h[2]
  BY <1>3, TwoFields
<1>. HIDE DEF gh
<1>11. /\ E \in Seq(Nat) /\ Len(E) = Len(gh) + Len(d) + Len(p)
       /\ \A i \in 1..Len(gh) : E[i] = gh[i]
       /\ \A i \in 1..Len(d) : E[Len(gh) + i] = d[i]
  <2>1. gh \in Seq(Nat) /\ d \in Seq(Nat) /\ p \in Seq(Nat)
    BY <1>6, <1>8, <1>10
  <2>. QED
    BY <1>9, <2>1, Layout
<1>12. Len(E) = s
  BY <1>1, <1>2, <1>6, <1>8, <1>10, <1>11
<1>13. E[1] = g[1] /\ E[2] = g[2] /\ E[3] = h[1] /\ E[4] = h[2]
  <2>1. Len(gh) = 4 /\ \A i \in 1..Len(gh) : E[i] = gh[i]
    BY <1>10, <1>11
  <2>2. \A i \in 1..4 : E[i] = gh[i]
    BY <2>1
  <2>3. E[1] = gh[1] /\ E[2] = gh[2] /\ E[3] = gh[3] /\ E[4] = gh[4]
    BY <2>2
  <2>. QED
    BY <1>10, <2>3
<1>14. ASSUME NEW i \in 1..k PROVE E[4 + i] = c.first + i
  <2>1. E[4 + i] = d[i]
    BY <1>1, <1>6, <1>10, <1>11
  <2>. QED
    BY <1>7, <2>1
<1>15. \A b : b[1] = E[1] /\ b[2] = E[2] => Uint16(b) = s - 2
  BY <1>4, <1>13
<1>16. \A b : b[1] = E[3] /\ b[2] = E[4] => Uint16(b) = k
  BY <1>5, <1>13
<1>. QED
  BY <1>11, <1>12, <1>14, <1>15, <1>16 DEF k, s

\* A cell has as many bytes as its size says, in both modes.
LEMMA EncodedLength ==
  ASSUME Describable, NEW m \in Modes, m \in BOOLEAN, NEW c \in Cell, GoodCell(m, c),
         NEW E, E = Encoded(m, c)
  PROVE  E \in Seq(Nat) /\ Len(E) = c.size
<1>1. c.size \in Nat /\ c.len \in Nat
  BY DEF Cell
<1>2. CASE m = TRUE
  <2>1. E = MorphCell(c.size, Data(c)) /\ 4 + c.len <= c.size /\ c.size < Base * Base
    BY <1>2 DEF Encoded, GoodCell
  <2>. QED
    BY <2>1, MorphCellProps
<1>3. CASE m = FALSE
  <2>1. E = FixedCell(Data(c)) /\ 2 + c.len <= c.size /\ c.size = CellSize
    BY <1>3 DEF Encoded, GoodCell
  <2>2. maxData < Base * Base
    BY <1>3 DEF Describable
  <2>3. c.len <= maxData
    BY <1>1, <2>1, Sizes
  <2>. QED
    BY <2>1, <2>2, <2>3, FixedCellProps
<1>. QED
  BY <1>2, <1>3
-----------------------------------------------------------------------------
(* Sequences.                                                                *)

\* The data behind a length field.
LEMMA Payload ==
  ASSUME NEW s \in Seq(Nat), NEW n \in Nat, 2 + n <= Len(s)
  PROVE  /\ SubSeq(s, 3, 2 + n) \in Seq(Nat) /\ Len(SubSeq(s, 3, 2 + n)) = n
         /\ \A i \in 1..n : SubSeq(s, 3, 2 + n)[i] = s[2 + i]
<1>. DEFINE t == SubSeq(s, 3, 2 + n)
<1>1. \A i \in 3..2 + n : s[i] \in Nat
  OBVIOUS
<1>2. t \in Seq(Nat) /\ Len(t) = n
  OBVIOUS
<1>3. \A i \in 1..(2 + n) - 3 + 1 : t[i] = s[3 + i - 1]
  BY <1>1, SubSeqProperties
<1>. HIDE DEF t
<1>4. ASSUME NEW i \in 1..n PROVE t[i] = s[2 + i]
  <2>1. i \in 1..(2 + n) - 3 + 1 /\ 3 + i - 1 = 2 + i
    OBVIOUS
  <2>. QED
    BY <1>3, <2>1
<1>. QED
  BY <1>2, <1>4 DEF t

\* The first k elements of a sequence, and those behind them.
LEMMA Split ==
  ASSUME NEW s \in Seq(Nat), NEW k \in Nat, k <= Len(s)
  PROVE  /\ SubSeq(s, 1, k) \in Seq(Nat) /\ Len(SubSeq(s, 1, k)) = k
         /\ \A i \in 1..k : SubSeq(s, 1, k)[i] = s[i]
         /\ SubSeq(s, k + 1, Len(s)) \in Seq(Nat) /\ Len(SubSeq(s, k + 1, Len(s))) = Len(s) - k
         /\ \A i \in 1..(Len(s) - k) : SubSeq(s, k + 1, Len(s))[i] = s[k + i]
<1>1. /\ SubSeq(s, 1, k) \in Seq(Nat) /\ Len(SubSeq(s, 1, k)) = k
      /\ \A i \in 1..k : SubSeq(s, 1, k)[i] = s[i]
  OBVIOUS
<1>2. SubSeq(s, k + 1, Len(s)) \in Seq(Nat)
  OBVIOUS
<1>3. Len(SubSeq(s, k + 1, Len(s))) = Len(s) - k
  OBVIOUS
<1>4. ASSUME NEW i \in 1..(Len(s) - k) PROVE SubSeq(s, k + 1, Len(s))[i] = s[k + i]
  OBVIOUS
<1>. QED
  BY <1>1, <1>2, <1>3, <1>4

\* Two sequences put one behind the other.
LEMMA Joined ==
  ASSUME NEW a \in Seq(Nat), NEW b \in Seq(Nat)
  PROVE  /\ a \o b \in Seq(Nat) /\ Len(a \o b) = Len(a) + Len(b)
         /\ \A i \in 1..Len(a) : (a \o b)[i] = a[i]
         /\ \A i \in 1..Len(b) : (a \o b)[Len(a) + i] = b[i]
OBVIOUS
-----------------------------------------------------------------------------
(* The initial state, and what the invariant says of the cells.              *)

\* The initial state satisfies the inductive invariant.
LEMMA InitIInv == Init => IInv
<1>. SUFFICES ASSUME Init PROVE IInv
  OBVIOUS
<1>1. TypeOK
  <2>1. morph \in BOOLEAN /\ morph \in Modes
    BY ReaderAssumption DEF Init
  <2>2. DOMAIN cells \subseteq Nat /\ cells \in [DOMAIN cells -> Cell]
    <3>1. cells = <<>>
      BY DEF Init
    <3>. QED
      BY <3>1
  <2>3. wire \in Seq(Nat) /\ buf \in Seq(Nat) /\ pending \in Seq(Nat) /\ out \in Seq(Nat)
    BY DEF Init
  <2>. QED
    BY <2>1, <2>2, <2>3 DEF Init, TypeOK
<1>2. DOMAIN cells = {}
  BY DEF Init
<1>3. CellsInv
  BY <1>2 DEF Init, CellsInv, Edges, Before
<1>4. WireInv /\ BufInv
  BY <1>2 DEF Init, WireInv, BufInv
<1>5. ReaderInv
  <2>1. Start = 0 /\ Len(buf) = 0 /\ Len(out) = 0 /\ Len(pending) = 0
    <3>1. Len(buf) = 0 /\ Len(out) = 0 /\ Len(pending) = 0
      BY DEF Init
    <3>2. taken = 0 /\ body = 0
      BY DEF Init
    <3>. QED
      BY <3>1, <3>2 DEF Start
  <2>2. Need \in Nat
    BY FramingAssumption DEF Init, Need
  <2>. QED
    BY <1>3, <2>1, <2>2 DEF Init, ReaderInv, CellsInv, Ended, CleanEOF
<1>6. DataInv
  BY DEF Init, DataInv
<1>. QED
  BY <1>1, <1>3, <1>4, <1>5, <1>6 DEF IInv

\* Where edges are, and what the cells at them look like.
LEMMA EdgeProps ==
  ASSUME TypeOK, CellsInv
  PROVE  /\ \A e \in Edges : e \in Nat /\ e <= written
         /\ written \notin DOMAIN cells /\ Before(cells, sent, written) = sent
         /\ \A e \in DOMAIN cells :
              /\ e \in Nat /\ e < written
              /\ cells[e] \in Cell /\ GoodCell(morph, cells[e])
              /\ cells[e].size \in Nat /\ cells[e].first \in Nat /\ cells[e].len \in Nat
              /\ cells[e].size >= 2 /\ e + cells[e].size <= written
<1>1. \A e \in Edges : e \in Nat /\ e <= written
  BY DEF TypeOK, CellsInv, Edges
<1>2. written \notin DOMAIN cells
  BY DEF TypeOK, CellsInv
<1>3. ASSUME NEW e \in DOMAIN cells
      PROVE  /\ e \in Nat /\ e < written
             /\ cells[e] \in Cell /\ GoodCell(morph, cells[e])
             /\ cells[e].size \in Nat /\ cells[e].first \in Nat /\ cells[e].len \in Nat
             /\ cells[e].size >= 2 /\ e + cells[e].size <= written
  <2>1. e \in Nat /\ e < written /\ cells[e] \in Cell /\ GoodCell(morph, cells[e])
    BY DEF TypeOK, CellsInv
  <2>2. cells[e].size \in Nat /\ cells[e].first \in Nat /\ cells[e].len \in Nat
    BY <2>1 DEF Cell
  <2>3. cells[e].size >= 2
    BY <2>1, <2>2, Sizes DEF GoodCell
  <2>4. e + cells[e].size <= written
    BY <1>1 DEF CellsInv
  <2>. QED
    BY <2>1, <2>2, <2>3, <2>4
<1>. QED
  BY <1>1, <1>2, <1>3 DEF Before

\* A reader that has begun a cell stands inside it and has read nothing beyond it.
LEMMA InsideCell ==
  ASSUME IInv, buf # <<>> \/ body > 0
  PROVE  /\ ~Ended /\ pending = <<>>
         /\ Start \in DOMAIN cells
         /\ taken <= Start + cells[Start].size
         /\ cells[Start].first = Len(out)
<1>1. ~Ended /\ pending = <<>>
  BY DEF IInv, ReaderInv
<1>2. Start \in Edges /\ Before(cells, sent, Start) = Len(out) + Len(pending)
  BY <1>1 DEF IInv, ReaderInv
<1>3. Len(buf) \in Nat /\ (buf # <<>> => Len(buf) > 0)
  BY DEF IInv, TypeOK
<1>4. taken \in Nat /\ body \in Nat /\ written \in Nat /\ taken <= written
  BY DEF IInv, TypeOK, WireInv
<1>5. Start < taken
  BY <1>3, <1>4 DEF Start
<1>6. Start \in DOMAIN cells
  BY <1>2, <1>4, <1>5 DEF Edges
<1>7. Len(pending) = 0 /\ Len(out) \in Nat
  BY <1>1 DEF IInv, TypeOK
<1>8. cells[Start].first = Len(out)
  BY <1>2, <1>6, <1>7 DEF Before
<1>9. taken <= Start + cells[Start].size
  <2>1. cells[Start].size \in Nat /\ cells[Start].size >= 2 /\ GoodCell(morph, cells[Start])
    BY <1>6, EdgeProps DEF IInv
  <2>2. Len(buf) <= Need
    BY DEF IInv, ReaderInv
  <2>3. CASE body > 0
    <3>1. body = cells[Start].size - 2 /\ morph
      BY <2>3 DEF IInv, ReaderInv
    <3>. QED
      BY <1>3, <1>4, <2>1, <2>2, <2>3, <3>1 DEF Start, Need
  <2>4. CASE body = 0
    <3>1. Len(buf) <= cells[Start].size
      BY <2>1, <2>2, <2>4 DEF Need, GoodCell
    <3>. QED
      BY <1>3, <1>4, <2>1, <2>4, <3>1 DEF Start
  <2>. QED
    BY <1>4, <2>3, <2>4
<1>. QED
  BY <1>1, <1>6, <1>8, <1>9
-----------------------------------------------------------------------------
(* The steps of the peer.                                                    *)

\* A cell that is handed to the carrier becomes the last one; the reader does not
\* see it yet.
LEMMA PutStep ==
  ASSUME IInv, Describable, ~closed, NEW c \in Cell, GoodCell(morph, c), c.first = sent, Put(c),
         sent' = sent + c.len, src' \in Nat,
         UNCHANGED <<morph, closed, cut, taken, buf, body, pending, out, rerr>>
  PROVE  IInv'
<1>. DEFINE E == Encoded(morph, c)
<1>1. TypeOK /\ CellsInv
  BY DEF IInv
<1>2. c.size \in Nat /\ c.first \in Nat /\ c.len \in Nat /\ c.size >= 2
  BY Sizes DEF Cell, GoodCell
<1>3. E \in Seq(Nat) /\ Len(E) = c.size
  BY <1>1, EncodedLength DEF TypeOK
<1>4. /\ wire' = wire \o E
      /\ cells' = [e \in DOMAIN cells \cup {written} |-> IF e = written THEN c ELSE cells[e]]
  BY DEF Put
<1>5. /\ written \in Nat /\ sent \in Nat /\ taken \in Nat /\ wire \in Seq(Nat) /\ Len(wire) \in Nat
      /\ written' = written + c.size
  BY <1>1, <1>3 DEF TypeOK, Put
<1>6. /\ DOMAIN cells' = Edges
      /\ cells'[written] = c
      /\ \A e \in DOMAIN cells : cells'[e] = cells[e]
  <2>1. DOMAIN cells' = Edges /\ cells'[written] = c
    BY <1>4 DEF Edges
  <2>2. ASSUME NEW e \in DOMAIN cells PROVE cells'[e] = cells[e]
    <3>1. e # written
      BY <1>1, EdgeProps
    <3>. QED
      BY <1>4, <3>1
  <2>. QED
    BY <2>1, <2>2
<1>7. \A e \in Edges : cells'[e].first = Before(cells, sent, e)
  BY <1>1, <1>6, EdgeProps DEF Edges, Before
<1>8. Edges' = Edges \cup {written'} /\ written' \notin Edges
  <2>1. Edges' = Edges \cup {written'}
    BY <1>6 DEF Edges
  <2>2. written' \notin Edges
    BY <1>1, <1>2, <1>5, EdgeProps
  <2>. QED
    BY <2>1, <2>2
<1>. HIDE DEF E
<1>9. /\ wire' \in Seq(Nat) /\ Len(wire') = Len(wire) + c.size
      /\ \A i \in 1..Len(wire) : wire'[i] = wire[i]
      /\ \A i \in 1..c.size : wire'[Len(wire) + i] = E[i]
  <2>1. /\ wire \o E \in Seq(Nat) /\ Len(wire \o E) = Len(wire) + Len(E)
        /\ \A i \in 1..Len(wire) : (wire \o E)[i] = wire[i]
        /\ \A i \in 1..Len(E) : (wire \o E)[Len(wire) + i] = E[i]
    BY <1>3, <1>5, Joined
  <2>. QED
    BY <1>3, <1>4, <2>1
<1>10. taken + Len(wire) = written
  BY DEF IInv, WireInv
<1>11. TypeOK'
  <2>1. DOMAIN cells' \subseteq Nat
    BY <1>1, <1>6, EdgeProps
  <2>2. cells' \in [DOMAIN cells' -> Cell]
    BY <1>1, <1>4 DEF TypeOK
  <2>3. sent' \in Nat
    BY <1>2, <1>5
  <2>4. written' \in Nat
    BY <1>2, <1>5
  <2>. QED
    BY <1>1, <1>9, <2>1, <2>2, <2>3, <2>4 DEF TypeOK
<1>12. CellsInv'
  <2>1. 0 \in Edges /\ Before(cells, sent, 0) = 0
    BY <1>1 DEF CellsInv
  <2>2. 0 \in Edges' /\ Before(cells', sent', 0) = 0
    BY <1>6, <1>7, <1>8, <2>1 DEF Before
  <2>3. ASSUME NEW e \in DOMAIN cells', e # written
        PROVE  /\ e < written'
               /\ GoodCell(morph', cells'[e])
               /\ e + cells'[e].size \in Edges'
               /\ Before(cells', sent', e + cells'[e].size) = cells'[e].first + cells'[e].len
               /\ cells'[e].first + cells'[e].len <= sent'
               /\ \A f \in DOMAIN cells' : f > e => f >= e + cells'[e].size
    <3>1. e \in DOMAIN cells /\ cells'[e] = cells[e]
      BY <1>6, <2>3 DEF Edges
    <3>2. /\ e \in Nat /\ e < written /\ GoodCell(morph, cells[e])
          /\ cells[e].size \in Nat /\ cells[e].first \in Nat /\ cells[e].len \in Nat
          /\ e + cells[e].size <= written
      BY <1>1, <3>1, EdgeProps
    <3>3. /\ e + cells[e].size \in Edges
          /\ Before(cells, sent, e + cells[e].size) = cells[e].first + cells[e].len
          /\ cells[e].first + cells[e].len <= sent
          /\ \A f \in DOMAIN cells : f > e => f >= e + cells[e].size
      BY <1>1, <3>1 DEF CellsInv
    <3>4. Before(cells', sent', e + cells'[e].size) = cells[e].first + cells[e].len
      BY <1>6, <1>7, <3>1, <3>3 DEF Before
    <3>5. \A f \in DOMAIN cells' : f > e => f >= e + cells[e].size
      BY <1>6, <3>2, <3>3 DEF Edges
    <3>6. e < written' /\ cells[e].first + cells[e].len <= sent'
      <4>1. e < written'
        BY <1>2, <1>5, <3>2
      <4>2. cells[e].first + cells[e].len <= sent /\ sent <= sent'
        BY <1>2, <1>5, <3>3
      <4>3. cells[e].first + cells[e].len \in Nat
        BY <3>2
      <4>4. sent' \in Nat
        BY <1>2, <1>5
      <4>. QED
        BY <1>5, <4>1, <4>2, <4>3, <4>4
    <3>. QED
      BY <1>8, <3>1, <3>2, <3>3, <3>4, <3>5, <3>6
  <2>4. /\ written < written'
        /\ GoodCell(morph', c)
        /\ written + c.size \in Edges'
        /\ Before(cells', sent', written + c.size) = c.first + c.len
        /\ c.first + c.len <= sent'
        /\ \A f \in DOMAIN cells' : f > written => f >= written + c.size
    <3>1. Before(cells', sent', written') = sent'
      BY <1>6, <1>8 DEF Before
    <3>2. \A f \in DOMAIN cells' : f <= written
      BY <1>1, <1>6, EdgeProps
    <3>. QED
      BY <1>1, <1>2, <1>5, <1>6, <1>8, <3>1, <3>2, EdgeProps
  <2>. QED
    BY <1>6, <2>2, <2>3, <2>4 DEF CellsInv
<1>13. WireInv'
  <2>1. taken' + Len(wire') = written'
    BY <1>2, <1>5, <1>9, <1>10
  <2>2. ASSUME NEW e \in DOMAIN cells', NEW j \in 1..cells'[e].size,
               taken' < e + j, e + j <= taken' + Len(wire')
        PROVE  wire'[e + j - taken'] = Encoded(morph', cells'[e])[j]
    <3>1. CASE e = written
      <4>1. cells'[e] = c /\ j \in 1..c.size
        BY <1>6, <3>1
      <4>2. e + j - taken' = Len(wire) + j
        <5>1. j \in Nat /\ taken' = taken
          BY <1>2, <4>1
        <5>. QED
          BY <1>5, <1>10, <3>1, <5>1
      <4>. QED
        BY <1>9, <4>1, <4>2 DEF E
    <3>2. CASE e # written
      <4>1. e \in DOMAIN cells /\ cells'[e] = cells[e] /\ j \in 1..cells[e].size
        BY <1>6, <3>2 DEF Edges
      <4>2. e \in Nat /\ cells[e].size \in Nat /\ e + cells[e].size <= written
        BY <1>1, <4>1, EdgeProps
      <4>3. e + j <= taken + Len(wire) /\ taken < e + j /\ e + j - taken \in 1..Len(wire)
        <5>1. j \in Nat /\ j <= cells[e].size /\ taken' = taken
          BY <4>1, <4>2
        <5>2. taken < e + j
          BY <2>2, <5>1
        <5>3. e + j <= written
          BY <1>5, <4>2, <5>1
        <5>4. e + j - taken \in Nat /\ e + j - taken >= 1
          BY <1>5, <4>2, <5>1, <5>2
        <5>5. e + j - taken <= Len(wire)
          BY <1>5, <1>10, <4>2, <5>1, <5>3
        <5>. QED
          BY <1>5, <1>10, <5>2, <5>3, <5>4, <5>5
      <4>4. wire[e + j - taken] = Encoded(morph, cells[e])[j]
        BY <4>1, <4>3 DEF IInv, WireInv
      <4>. QED
        BY <1>9, <4>1, <4>3, <4>4
    <3>. QED
      BY <3>1, <3>2
  <2>3. cut' => closed'
    BY DEF IInv, WireInv
  <2>4. taken' + Len(wire') <= written'
    BY <1>2, <1>5, <2>1
  <2>. QED
    BY <2>1, <2>2, <2>3, <2>4 DEF WireInv
<1>14. BufInv'
  <2>1. Len(buf') <= taken'
    BY DEF IInv, BufInv
  <2>2. ASSUME NEW e \in DOMAIN cells', NEW j \in 1..cells'[e].size,
               taken' - Len(buf') < e + j, e + j <= taken'
        PROVE  buf'[e + j - (taken' - Len(buf'))] = Encoded(morph', cells'[e])[j]
    <3>1. e # written
      <4>. SUFFICES ASSUME e = written PROVE FALSE
        OBVIOUS
      <4>1. j \in 1..c.size
        BY <1>6
      <4>. QED
        BY <1>2, <1>5, <1>10, <2>2, <4>1
    <3>2. e \in DOMAIN cells /\ cells'[e] = cells[e] /\ j \in 1..cells[e].size
      BY <1>6, <3>1 DEF Edges
    <3>3. buf[e + j - (taken - Len(buf))] = Encoded(morph, cells[e])[j]
      BY <2>2, <3>2 DEF IInv, BufInv
    <3>. QED
      BY <3>2, <3>3
  <2>. QED
    BY <2>1, <2>2 DEF BufInv
<1>15. ReaderInv'
  <2>1. ~Ended /\ ~Ended' /\ Start' = Start /\ Need' = Need
    BY DEF IInv, ReaderInv, Ended, Start, Need
  <2>2. Start \in Edges /\ Before(cells, sent, Start) = Len(out) + Len(pending)
    BY <2>1 DEF IInv, ReaderInv
  <2>3. Start' \in Edges' /\ Before(cells', sent', Start') = Len(out') + Len(pending')
    BY <1>6, <1>7, <1>8, <2>1, <2>2 DEF Before
  <2>4. body' > 0 => morph' /\ Start' \in DOMAIN cells' /\ body' = cells'[Start'].size - 2
    <3>1. body > 0 => morph /\ Start \in DOMAIN cells /\ body = cells[Start].size - 2
      BY DEF IInv, ReaderInv
    <3>. QED
      BY <1>6, <2>1, <3>1 DEF Edges
  <2>5. /\ Len(buf') <= Need'
        /\ pending' # <<>> => buf' = <<>> /\ body' = 0
    BY <2>1 DEF IInv, ReaderInv
  <2>6. CleanEOF'
    BY <2>1 DEF Ended, CleanEOF
  <2>. QED
    BY <2>1, <2>3, <2>4, <2>5, <2>6 DEF ReaderInv
<1>16. DataInv'
  <2>1. Len(out') + Len(pending') <= sent'
    BY <1>1, <1>2, <1>5 DEF IInv, TypeOK, DataInv
  <2>. QED
    BY <2>1 DEF IInv, DataInv
<1>. QED
  BY <1>11, <1>12, <1>13, <1>14, <1>15, <1>16 DEF IInv

\* A cell with data has room for a byte of it, and its header can say its size,
\* whatever the sampler returns.
LEMMA DataSize ==
  ASSUME morph \in BOOLEAN, NEW z \in DataSizes
  PROVE  /\ z \in Nat /\ z - Overhead \in Nat /\ z > Overhead
         /\ IF morph THEN Overhead = 4 /\ z < Base * Base ELSE Overhead = 2 /\ z = CellSize
<1>. DEFINE sq == Base * Base
<1>1. sq \in Nat /\ sq > 5 /\ CellSize \in Nat /\ CellSize > 2 /\ maxMorphCell = sq - 1
  BY Sizes
<1>. HIDE DEF sq
<1>2. CASE morph = TRUE
  <2>1. PICK s \in Samples : z = MorphSize(s)
    BY <1>2 DEF DataSizes
  <2>2. s \in Int
    BY ReaderAssumption
  <2>3. z \in Nat /\ z > 4 /\ z < sq
    BY <1>1, <2>1, <2>2 DEF MorphSize, Smaller, Larger, morphOverhead
  <2>. QED
    BY <1>2, <2>3 DEF Overhead, morphOverhead, sq
<1>3. CASE morph = FALSE
  <2>1. z = CellSize
    BY <1>3 DEF DataSizes
  <2>. QED
    BY <1>1, <1>3, <2>1 DEF Overhead, hdrSize
<1>. QED
  BY <1>2, <1>3

\* A cover cell has room for its header, which can say its size.
LEMMA CoverSize ==
  ASSUME morph \in BOOLEAN, NEW z \in CoverSizes
  PROVE  /\ z \in Nat
         /\ IF morph THEN 4 <= z /\ z < Base * Base ELSE 2 <= z /\ z = CellSize
<1>. DEFINE sq == Base * Base
<1>1. sq \in Nat /\ sq > 5 /\ CellSize \in Nat /\ CellSize > 2 /\ maxMorphCell = sq - 1
  BY Sizes
<1>. HIDE DEF sq
<1>2. CASE morph = TRUE
  <2>1. PICK s \in Samples : z = MorphCoverSize(s)
    BY <1>2 DEF CoverSizes
  <2>2. s \in Int
    BY ReaderAssumption
  <2>3. z \in Nat /\ z >= 4 /\ z < sq
    BY <1>1, <2>1, <2>2 DEF MorphCoverSize, Smaller, Larger, morphOverhead
  <2>. QED
    BY <1>2, <2>3 DEF sq
<1>3. CASE morph = FALSE
  <2>1. z = CellSize
    BY <1>3 DEF CoverSizes
  <2>. QED
    BY <1>1, <1>3, <2>1
<1>. QED
  BY <1>2, <1>3

\* The peer frames some of the bytes of its Write.
LEMMA FramesStep ==
  ASSUME IInv, Describable, NEW size \in DataSizes, PeerFrames(size)
  PROVE  IInv'
<1>. DEFINE m == Smaller(size - Overhead, src)
            c == [size |-> size, first |-> sent, len |-> m]
<1>1. src \in Nat /\ src > 0 /\ sent \in Nat /\ morph \in BOOLEAN
  BY DEF IInv, TypeOK, PeerFrames
<1>2. /\ size \in Nat /\ size - Overhead \in Nat
      /\ IF morph THEN Overhead = 4 /\ size < Base * Base ELSE Overhead = 2 /\ size = CellSize
  BY <1>1, DataSize
<1>3. m \in Nat /\ m <= size - Overhead /\ m <= src
  BY <1>1, <1>2 DEF Smaller
<1>. HIDE DEF m
<1>4. c \in Cell /\ c.first = sent /\ c.len = m
  BY <1>1, <1>2, <1>3 DEF Cell
<1>5. GoodCell(morph, c)
  BY <1>1, <1>2, <1>3 DEF GoodCell
<1>6. /\ ~closed /\ Put(c) /\ src' = src - m /\ sent' = sent + m
      /\ UNCHANGED <<morph, closed, cut, taken, buf, body, pending, out, rerr>>
  BY DEF PeerFrames, m
<1>7. src' \in Nat
  BY <1>1, <1>3, <1>6
<1>. HIDE DEF c
<1>. QED
  BY <1>4, <1>5, <1>6, <1>7, PutStep

\* The peer writes a cover cell.
LEMMA CoversStep ==
  ASSUME IInv, Describable, NEW size \in CoverSizes, PeerCovers(size)
  PROVE  IInv'
<1>. DEFINE c == [size |-> size, first |-> sent, len |-> 0]
<1>1. src \in Nat /\ sent \in Nat /\ morph \in BOOLEAN
  BY DEF IInv, TypeOK
<1>2. /\ size \in Nat
      /\ IF morph THEN 4 <= size /\ size < Base * Base ELSE 2 <= size /\ size = CellSize
  BY <1>1, CoverSize
<1>3. c \in Cell /\ c.first = sent /\ c.len = 0
  BY <1>1, <1>2 DEF Cell
<1>4. GoodCell(morph, c)
  BY <1>1, <1>2 DEF GoodCell
<1>5. /\ ~closed /\ Put(c) /\ src' = src /\ sent' = sent
      /\ UNCHANGED <<morph, closed, cut, taken, buf, body, pending, out, rerr>>
  BY DEF PeerCovers
<1>6. sent' = sent + c.len
  BY <1>1, <1>3, <1>5
<1>. HIDE DEF c
<1>. QED
  BY <1>1, <1>3, <1>4, <1>5, <1>6, PutStep

\* The steps of the peer that frame nothing.
LEMMA QuietStep ==
  ASSUME IInv,
         \/ \E n \in 1..MaxWrite : PeerWrites(n)
         \/ PeerCloses
         \/ UNCHANGED vars
  PROVE  IInv'
<1>1. /\ UNCHANGED <<morph, sent, wire, cut, written, cells, taken, buf, body, pending, out, rerr>>
      /\ closed' = closed \/ closed' = TRUE
      /\ src' \in Nat
  BY DEF IInv, TypeOK, PeerWrites, PeerCloses, vars, peerVars
<1>2. Edges' = Edges /\ Start' = Start /\ Need' = Need /\ Ended' = Ended /\ CleanEOF' = CleanEOF
  BY <1>1 DEF Edges, Start, Need, Ended, CleanEOF
<1>3. TypeOK' /\ CellsInv' /\ DataInv'
  BY <1>1, <1>2 DEF IInv, TypeOK, CellsInv, DataInv
<1>4. WireInv' /\ BufInv'
  BY <1>1 DEF IInv, WireInv, BufInv
<1>5. ReaderInv'
  BY <1>1, <1>2 DEF IInv, ReaderInv
<1>. QED
  BY <1>3, <1>4, <1>5 DEF IInv

\* The carrier loses the end of what is on its way.
LEMMA CutStep ==
  ASSUME IInv, NEW k \in 0..Len(wire), CarrierCut(k)
  PROVE  IInv'
<1>1. /\ UNCHANGED <<morph, src, sent, written, cells, taken, buf, body, pending, out, rerr>>
      /\ ~closed /\ closed' = TRUE /\ cut' = TRUE
      /\ wire' = SubSeq(wire, 1, k)
  BY DEF CarrierCut
<1>2. wire \in Seq(Nat) /\ Len(wire) \in Nat /\ k \in Nat /\ k <= Len(wire)
      /\ taken \in Nat /\ written \in Nat
  BY DEF IInv, TypeOK
<1>3. /\ wire' \in Seq(Nat) /\ Len(wire') = k
      /\ \A i \in 1..k : wire'[i] = wire[i]
  BY <1>1, <1>2, Split
<1>4. Edges' = Edges /\ Start' = Start /\ Need' = Need /\ Ended' = Ended /\ CleanEOF' = CleanEOF
  BY <1>1 DEF Edges, Start, Need, Ended, CleanEOF
<1>5. TypeOK' /\ CellsInv' /\ DataInv'
  BY <1>1, <1>3, <1>4 DEF IInv, TypeOK, CellsInv, DataInv
<1>6. WireInv'
  <2>1. taken + Len(wire) <= written
    BY DEF IInv, WireInv
  <2>2. taken' + Len(wire') <= written'
    BY <1>1, <1>2, <1>3, <2>1
  <2>3. ASSUME NEW e \in DOMAIN cells, NEW j \in 1..cells[e].size,
               taken < e + j, e + j <= taken + k
        PROVE  wire'[e + j - taken] = Encoded(morph, cells[e])[j]
    <3>1. e \in Nat /\ cells[e].size \in Nat
      BY EdgeProps DEF IInv
    <3>2. j \in Nat
      BY <3>1
    <3>3. e + j - taken \in 1..k /\ e + j <= taken + Len(wire)
      BY <1>2, <2>3, <3>1, <3>2
    <3>4. wire[e + j - taken] = Encoded(morph, cells[e])[j]
      BY <2>3, <3>3 DEF IInv, WireInv
    <3>. QED
      BY <1>3, <3>3, <3>4
  <2>. QED
    BY <1>1, <1>3, <2>2, <2>3 DEF WireInv
<1>7. BufInv'
  BY <1>1 DEF IInv, BufInv
<1>8. ReaderInv'
  BY <1>1, <1>4 DEF IInv, ReaderInv
<1>. QED
  BY <1>5, <1>6, <1>7, <1>8 DEF IInv
-----------------------------------------------------------------------------
(* The steps of Read.                                                        *)

\* The base hands over some of the bytes on their way.
LEMMA BaseReadStep ==
  ASSUME IInv, NEW k \in 1..Need, BaseRead(k)
  PROVE  IInv'
<1>1. /\ UNCHANGED <<morph, src, sent, closed, cut, written, cells, body, pending, out, rerr>>
      /\ taken' = taken + k
      /\ Len(buf) + k <= Need /\ k <= Len(wire)
  BY DEF BaseRead, peerVars
<1>2. /\ wire \in Seq(Nat) /\ Len(wire) \in Nat /\ buf \in Seq(Nat) /\ Len(buf) \in Nat
      /\ taken \in Nat /\ written \in Nat /\ body \in Nat
  BY DEF IInv, TypeOK
<1>3. k \in Nat /\ k > 0
  <2>1. Need \in Nat
    BY <1>2, Sizes DEF Need
  <2>. QED
    BY <2>1
<1>. DEFINE w == SubSeq(wire, 1, k)
<1>4. w \in Seq(Nat) /\ Len(w) = k /\ \A i \in 1..k : w[i] = wire[i]
  BY <1>1, <1>2, <1>3, Split
<1>5. /\ wire' \in Seq(Nat) /\ Len(wire') = Len(wire) - k
      /\ \A i \in 1..(Len(wire) - k) : wire'[i] = wire[k + i]
  BY <1>1, <1>2, <1>3, Split DEF BaseRead
<1>6. buf' = buf \o w /\ pending = <<>>
  BY DEF BaseRead
<1>. HIDE DEF w
<1>7. /\ buf' \in Seq(Nat) /\ Len(buf') = Len(buf) + k
      /\ \A i \in 1..Len(buf) : buf'[i] = buf[i]
      /\ \A i \in 1..k : buf'[Len(buf) + i] = wire[i]
  <2>1. /\ buf \o w \in Seq(Nat) /\ Len(buf \o w) = Len(buf) + Len(w)
        /\ \A i \in 1..Len(buf) : (buf \o w)[i] = buf[i]
        /\ \A i \in 1..Len(w) : (buf \o w)[Len(buf) + i] = w[i]
    BY <1>2, <1>4, Joined
  <2>. QED
    BY <1>4, <1>6, <2>1
<1>8. Edges' = Edges /\ Need' = Need /\ Ended' = Ended
  BY <1>1 DEF Edges, Need, Ended
<1>9. ~Ended
  <2>1. Len(wire) # 0
    BY <1>1, <1>2, <1>3
  <2>2. wire # <<>>
    BY <2>1
  <2>. QED
    BY <2>2 DEF IInv, ReaderInv
<1>10. Start' = Start
  BY <1>1, <1>2, <1>3, <1>7 DEF Start
<1>11. TypeOK' /\ CellsInv' /\ DataInv'
  <2>1. taken' \in Nat /\ wire' \in Seq(Nat) /\ buf' \in Seq(Nat)
    BY <1>1, <1>2, <1>3, <1>5, <1>7
  <2>. QED
    BY <1>1, <1>8, <2>1 DEF IInv, TypeOK, CellsInv, DataInv
<1>12. WireInv'
  <2>1. taken' + Len(wire') = taken + Len(wire)
    BY <1>1, <1>2, <1>3, <1>5
  <2>2. ASSUME NEW e \in DOMAIN cells, NEW j \in 1..cells[e].size,
               taken' < e + j, e + j <= taken' + Len(wire')
        PROVE  wire'[e + j - taken'] = Encoded(morph, cells[e])[j]
    <3>1. e \in Nat /\ cells[e].size \in Nat
      BY EdgeProps DEF IInv
    <3>2. j \in Nat /\ taken + k < e + j /\ e + j <= taken + Len(wire)
      BY <1>1, <2>1, <2>2, <3>1
    <3>3. taken < e + j
      BY <1>2, <1>3, <3>1, <3>2
    <3>4. wire[e + j - taken] = Encoded(morph, cells[e])[j]
      BY <3>2, <3>3 DEF IInv, WireInv
    <3>. DEFINE i == e + j - (taken + k)
    <3>5. i \in 1..(Len(wire) - k) /\ k + i = e + j - taken
      <4>1. i \in Int /\ i >= 1
        BY <1>2, <1>3, <3>1, <3>2
      <4>2. i <= Len(wire) - k
        BY <1>2, <1>3, <3>1, <3>2
      <4>3. k + i = e + j - taken
        BY <1>2, <1>3, <3>1, <3>2
      <4>. QED
        BY <1>2, <1>3, <4>1, <4>2, <4>3
    <3>. QED
      BY <1>1, <1>5, <3>4, <3>5
  <2>. QED
    BY <1>1, <2>1, <2>2 DEF IInv, WireInv
<1>13. BufInv'
  <2>1. Len(buf) <= taken
    BY DEF IInv, BufInv
  <2>2. Len(buf') <= taken' /\ taken' - Len(buf') = taken - Len(buf)
    BY <1>1, <1>2, <1>3, <1>7, <2>1
  <2>3. ASSUME NEW e \in DOMAIN cells, NEW j \in 1..cells[e].size,
               taken - Len(buf) < e + j, e + j <= taken'
        PROVE  buf'[e + j - (taken - Len(buf))] = Encoded(morph, cells[e])[j]
    <3>1. e \in Nat /\ cells[e].size \in Nat
      BY EdgeProps DEF IInv
    <3>2. j \in Nat
      BY <3>1
    <3>3. CASE e + j <= taken
      <4>1. buf[e + j - (taken - Len(buf))] = Encoded(morph, cells[e])[j]
        BY <2>3, <3>3 DEF IInv, BufInv
      <4>2. e + j - (taken - Len(buf)) \in 1..Len(buf)
        BY <1>2, <2>3, <3>1, <3>2, <3>3
      <4>. QED
        BY <1>7, <4>1, <4>2
    <3>4. CASE taken < e + j
      <4>1. e + j <= taken + k /\ k <= Len(wire)
        BY <1>1, <2>3
      <4>2. e + j <= taken + Len(wire)
        BY <1>2, <1>3, <3>1, <3>2, <4>1
      <4>3. wire[e + j - taken] = Encoded(morph, cells[e])[j]
        BY <3>4, <4>2 DEF IInv, WireInv
      <4>4. e + j - taken \in 1..k /\ e + j - (taken - Len(buf)) = Len(buf) + (e + j - taken)
        BY <1>2, <1>3, <3>1, <3>2, <3>4, <4>1
      <4>. QED
        BY <1>7, <4>3, <4>4
    <3>. QED
      BY <1>2, <3>1, <3>2, <3>3, <3>4
  <2>. QED
    <3>1. cells' = cells /\ morph' = morph
      BY <1>1
    <3>. QED
      BY <2>2, <2>3, <3>1 DEF BufInv
<1>14. ReaderInv'
  <2>1. Start \in Edges /\ Before(cells, sent, Start) = Len(out) + Len(pending)
    BY <1>9 DEF IInv, ReaderInv
  <2>2. body > 0 => morph /\ Start \in DOMAIN cells /\ body = cells[Start].size - 2
    BY DEF IInv, ReaderInv
  <2>3. CleanEOF'
    BY <1>8, <1>9 DEF Ended, CleanEOF
  <2>. QED
    BY <1>1, <1>6, <1>7, <1>8, <1>9, <1>10, <2>1, <2>2, <2>3 DEF ReaderInv
<1>. QED
  BY <1>11, <1>12, <1>13, <1>14 DEF IInv

\* A cell that has been read to its end is unpacked.
LEMMA UnpackStep ==
  ASSUME IInv, buf # <<>> \/ body > 0, taken = Start + cells[Start].size,
         NEW data \in Seq(Nat), Len(data) = cells[Start].len,
         \A i \in 1..Len(data) : data[i] = cells[Start].first + i,
         CellDone(data, "none")
  PROVE  IInv'
<1>1. /\ UNCHANGED <<morph, src, sent, closed, cut, written, cells, wire, taken, out>>
      /\ buf' = <<>> /\ body' = 0 /\ pending' = data /\ rerr' = "none"
  BY DEF CellDone, peerVars
<1>2. Start \in DOMAIN cells /\ cells[Start].first = Len(out) /\ pending = <<>>
  BY InsideCell
<1>3. /\ taken \in Edges
      /\ Before(cells, sent, taken) = cells[Start].first + cells[Start].len
      /\ cells[Start].first + cells[Start].len <= sent
  BY <1>2 DEF IInv, CellsInv
<1>4. Len(buf') = 0 /\ taken \in Nat
  BY <1>1 DEF IInv, TypeOK
<1>5. Edges' = Edges /\ Start' = taken /\ ~Ended'
  BY <1>1, <1>4 DEF Edges, Start, Ended
<1>6. TypeOK'
  BY <1>1 DEF IInv, TypeOK
<1>7. CellsInv' /\ WireInv'
  BY <1>1, <1>5 DEF IInv, CellsInv, WireInv
<1>8. BufInv'
  <2>1. ASSUME NEW e \in DOMAIN cells, NEW j \in 1..cells[e].size,
               taken - 0 < e + j, e + j <= taken
        PROVE  FALSE
    <3>1. e \in Nat /\ cells[e].size \in Nat
      BY EdgeProps DEF IInv
    <3>. QED
      BY <1>4, <2>1, <3>1
  <2>. QED
    BY <1>1, <1>4, <2>1 DEF BufInv
<1>9. ReaderInv'
  <2>1. Before(cells', sent', Start') = Len(out') + Len(pending')
    BY <1>1, <1>2, <1>3, <1>5
  <2>2. Need' \in Nat
    BY <1>1, Sizes DEF Need
  <2>3. CleanEOF'
    BY <1>1 DEF CleanEOF
  <2>. QED
    BY <1>1, <1>3, <1>4, <1>5, <2>1, <2>2, <2>3 DEF ReaderInv
<1>10. DataInv'
  <2>1. \A i \in 1..Len(out) : out[i] = i
    BY DEF IInv, DataInv
  <2>. QED
    BY <1>1, <1>2, <1>3, <2>1 DEF DataInv
<1>. QED
  BY <1>6, <1>7, <1>8, <1>9, <1>10 DEF IInv

\* buf holds the bytes of the cell at Start that lie behind its first ones, which
\* have been dropped: none, or the total length of a cell of morpher mode.
LEMMA BufCell ==
  ASSUME IInv, buf # <<>> \/ body > 0, NEW h \in {0, 2}, h = IF body > 0 THEN 2 ELSE 0
  PROVE  /\ Start + h + Len(buf) = taken /\ Start \in Nat
         /\ \A i \in 1..Len(buf) : buf[i] = Encoded(morph, cells[Start])[h + i]
<1>1. Start \in DOMAIN cells /\ taken <= Start + cells[Start].size
  BY InsideCell
<1>2. Start \in Nat /\ cells[Start].size \in Nat
  BY <1>1, EdgeProps DEF IInv
<1>3. taken \in Nat /\ Len(buf) \in Nat
  BY DEF IInv, TypeOK
<1>4. Start = taken - Len(buf) - h
  BY DEF Start
<1>. HIDE DEF Start
<1>5. Start + h + Len(buf) = taken
  BY <1>2, <1>3, <1>4
<1>6. ASSUME NEW i \in 1..Len(buf)
      PROVE  buf[i] = Encoded(morph, cells[Start])[h + i]
  <2>1. i \in Nat /\ h + i \in 1..cells[Start].size
    BY <1>1, <1>2, <1>3, <1>5
  <2>2. taken - Len(buf) < Start + (h + i) /\ Start + (h + i) <= taken
    BY <1>2, <1>3, <1>5, <2>1
  <2>3. Start + (h + i) - (taken - Len(buf)) = i
    BY <1>2, <1>3, <1>5, <2>1
  <2>4. buf[Start + (h + i) - (taken - Len(buf))] = Encoded(morph, cells[Start])[h + i]
    BY <1>1, <2>1, <2>2 DEF IInv, BufInv
  <2>. QED
    BY <2>3, <2>4
<1>. QED
  BY <1>2, <1>5, <1>6

\* Read unpacks a fixed-size cell.
LEMMA FixedStep ==
  ASSUME IInv, Describable, ParseFixed
  PROVE  IInv'
<1>. DEFINE c == cells[Start]
            E == Encoded(morph, c)
            data == SubSeq(buf, 3, 2 + c.len)
<1>1. ~morph /\ Len(buf) = CellSize /\ CellSize \in Nat /\ CellSize > 2 /\ maxData = CellSize - 2
  BY Sizes DEF ParseFixed
<1>2. buf \in Seq(Nat) /\ body \in Nat /\ morph \in BOOLEAN /\ morph \in Modes /\ TypeOK /\ CellsInv
  BY DEF IInv, TypeOK
<1>3. buf # <<>> /\ body = 0
  <2>1. buf # <<>>
    <3>1. Len(buf) # 0
      BY <1>1
    <3>. QED
      BY <3>1
  <2>2. body = 0
    BY <1>1, <1>2 DEF IInv, ReaderInv
  <2>. QED
    BY <2>1, <2>2
<1>4. /\ Start + 0 + Len(buf) = taken /\ Start \in Nat
      /\ \A i \in 1..Len(buf) : buf[i] = E[0 + i]
  BY <1>3, BufCell
<1>5. Start \in DOMAIN cells
  BY <1>3, InsideCell
<1>6. c \in Cell /\ GoodCell(morph, c) /\ c.size \in Nat /\ c.first \in Nat /\ c.len \in Nat
  BY <1>2, <1>5, EdgeProps
<1>7. c.size = CellSize /\ 2 + c.len <= CellSize
  BY <1>1, <1>6 DEF GoodCell
<1>. HIDE DEF c, E
<1>8. /\ \A b : b[1] = E[1] /\ b[2] = E[2] => Uint16(b) = c.len
      /\ \A i \in 1..c.len : E[2 + i] = c.first + i
  <2>1. E = FixedCell(Data(c)) /\ maxData < Base * Base
    BY <1>1, <1>2 DEF E, Encoded, Describable
  <2>2. c \in Cell /\ c.len <= maxData
    BY <1>1, <1>6, <1>7
  <2>. QED
    BY <2>1, <2>2, FixedCellProps
<1>9. Uint16(buf) = c.len
  <2>1. buf[1] = E[0 + 1] /\ buf[2] = E[0 + 2]
    BY <1>1, <1>4
  <2>. QED
    BY <1>8, <2>1
<1>10. CellDone(data, "none")
  <2>1. ~(c.len > maxData)
    BY <1>1, <1>6, <1>7
  <2>. QED
    BY <1>9, <2>1 DEF ParseFixed, hdrSize
<1>11. /\ data \in Seq(Nat) /\ Len(data) = c.len
       /\ \A i \in 1..c.len : data[i] = buf[2 + i]
  <2>1. 2 + c.len <= Len(buf)
    BY <1>1, <1>7
  <2>2. buf \in Seq(Nat) /\ c.len \in Nat
    BY <1>2, <1>6
  <2>. QED
    BY <2>1, <2>2, Payload
<1>. HIDE DEF data
<1>12. ASSUME NEW i \in 1..c.len PROVE data[i] = c.first + i
  <2>1. 2 + i \in 1..Len(buf) /\ 0 + (2 + i) = 2 + i
    BY <1>1, <1>6, <1>7
  <2>2. buf[2 + i] = E[2 + i]
    BY <1>4, <2>1
  <2>. QED
    BY <1>8, <1>11, <2>2
<1>13. taken = Start + c.size
  BY <1>1, <1>4, <1>7
<1>. QED
  BY <1>3, <1>10, <1>11, <1>12, <1>13, UnpackStep DEF c

\* readMorph learns how long the body of the cell is.
LEMMA HeaderStep ==
  ASSUME IInv, Describable, ParseMorphHeader
  PROVE  IInv'
<1>. DEFINE c == cells[Start]
            E == Encoded(morph, c)
<1>1. morph /\ body = 0 /\ Len(buf) = 2
  BY DEF ParseMorphHeader
<1>2. /\ buf \in Seq(Nat) /\ morph \in BOOLEAN /\ morph \in Modes /\ TypeOK /\ CellsInv
      /\ taken \in Nat
  BY DEF IInv, TypeOK
<1>3. buf # <<>> /\ body = 0
  BY <1>1
<1>4. /\ Start + 0 + Len(buf) = taken /\ Start \in Nat
      /\ \A i \in 1..Len(buf) : buf[i] = E[0 + i]
  BY <1>3, BufCell
<1>5. Start \in DOMAIN cells /\ ~Ended /\ pending = <<>>
  BY <1>3, InsideCell
<1>6. c \in Cell /\ GoodCell(morph, c) /\ c.size \in Nat /\ c.first \in Nat /\ c.len \in Nat
  BY <1>2, <1>5, EdgeProps
<1>7. 4 + c.len <= c.size
  BY <1>1, <1>6 DEF GoodCell
<1>. HIDE DEF c, E
<1>8. \A b : b[1] = E[1] /\ b[2] = E[2] => Uint16(b) = c.size - 2
  <2>1. E = MorphCell(c.size, Data(c)) /\ c.size < Base * Base
    BY <1>1, <1>6 DEF E, Encoded, GoodCell
  <2>2. c \in Cell
    BY <1>6
  <2>. QED
    BY <1>7, <2>1, <2>2, MorphCellProps
<1>9. Uint16(buf) = c.size - 2
  <2>1. buf[1] = E[0 + 1] /\ buf[2] = E[0 + 2]
    BY <1>1, <1>4
  <2>. QED
    BY <1>8, <2>1
<1>10. /\ body' = c.size - 2 /\ buf' = <<>>
       /\ UNCHANGED <<morph, src, sent, closed, cut, written, cells, wire, taken, pending, out,
                       rerr>>
  <2>1. ~(c.size - 2 < 2)
    BY <1>6, <1>7
  <2>. QED
    BY <1>9, <2>1 DEF ParseMorphHeader, MinBody, peerVars
<1>11. Len(buf') = 0 /\ body' \in Nat /\ body' > 0
  BY <1>6, <1>7, <1>10
<1>12. Edges' = Edges /\ Ended' = Ended
  BY <1>10 DEF Edges, Ended
<1>13. Start' = Start
  <2>1. Start' = taken - 0 - 2
    BY <1>10, <1>11 DEF Start
  <2>. QED
    BY <1>1, <1>2, <1>4, <2>1
<1>14. TypeOK'
  BY <1>10, <1>11 DEF IInv, TypeOK
<1>15. CellsInv' /\ WireInv' /\ DataInv'
  BY <1>10, <1>12 DEF IInv, CellsInv, WireInv, DataInv
<1>16. BufInv'
  <2>1. ASSUME NEW e \in DOMAIN cells, NEW j \in 1..cells[e].size,
               taken - 0 < e + j, e + j <= taken
        PROVE  FALSE
    <3>1. e \in Nat /\ cells[e].size \in Nat
      BY EdgeProps DEF IInv
    <3>. QED
      BY <1>2, <2>1, <3>1
  <2>. QED
    BY <1>2, <1>10, <1>11, <2>1 DEF BufInv
<1>17. ReaderInv'
  <2>1. Start \in Edges /\ Before(cells, sent, Start) = Len(out) + Len(pending)
    BY <1>5 DEF IInv, ReaderInv
  <2>2. Need' = body'
    BY <1>1, <1>10, <1>11 DEF Need
  <2>3. CleanEOF'
    BY <1>5, <1>12 DEF Ended, CleanEOF
  <2>4. body' > 0 => morph' /\ Start' \in DOMAIN cells' /\ body' = cells'[Start'].size - 2
    BY <1>1, <1>5, <1>10, <1>13 DEF c
  <2>. QED
    BY <1>5, <1>10, <1>11, <1>12, <1>13, <2>1, <2>2, <2>3, <2>4 DEF ReaderInv
<1>. QED
  BY <1>14, <1>15, <1>16, <1>17 DEF IInv

\* readMorph unpacks the body of a cell.
LEMMA BodyStep ==
  ASSUME IInv, Describable, ParseMorphBody
  PROVE  IInv'
<1>. DEFINE c == cells[Start]
            E == Encoded(morph, c)
            data == SubSeq(buf, 3, 2 + c.len)
<1>1. morph /\ body > 0 /\ Len(buf) = body
  BY DEF ParseMorphBody
<1>2. buf \in Seq(Nat) /\ body \in Nat /\ morph \in BOOLEAN /\ morph \in Modes /\ TypeOK /\ CellsInv
  BY DEF IInv, TypeOK
<1>3. /\ Start + 2 + Len(buf) = taken /\ Start \in Nat
      /\ \A i \in 1..Len(buf) : buf[i] = E[2 + i]
  BY <1>1, BufCell
<1>4. Start \in DOMAIN cells
  BY <1>1, InsideCell
<1>5. c \in Cell /\ GoodCell(morph, c) /\ c.size \in Nat /\ c.first \in Nat /\ c.len \in Nat
  BY <1>2, <1>4, EdgeProps
<1>6. 4 + c.len <= c.size
  BY <1>1, <1>5 DEF GoodCell
<1>7. body = c.size - 2
  BY <1>1 DEF IInv, ReaderInv
<1>. HIDE DEF c, E
<1>8. /\ \A b : b[1] = E[3] /\ b[2] = E[4] => Uint16(b) = c.len
      /\ \A i \in 1..c.len : E[4 + i] = c.first + i
  <2>1. E = MorphCell(c.size, Data(c)) /\ c.size < Base * Base
    BY <1>1, <1>5 DEF E, Encoded, GoodCell
  <2>2. c \in Cell
    BY <1>5
  <2>. QED
    BY <1>6, <2>1, <2>2, MorphCellProps
<1>9. Uint16(buf) = c.len
  <2>1. buf[1] = E[2 + 1] /\ buf[2] = E[2 + 2]
    BY <1>1, <1>2, <1>3, <1>5, <1>6, <1>7
  <2>. QED
    BY <1>8, <2>1
<1>10. CellDone(data, "none")
  <2>1. ~(c.len > body - 2)
    BY <1>5, <1>6, <1>7
  <2>. QED
    BY <1>9, <2>1 DEF ParseMorphBody
<1>11. /\ data \in Seq(Nat) /\ Len(data) = c.len
       /\ \A i \in 1..c.len : data[i] = buf[2 + i]
  <2>1. 2 + c.len <= Len(buf)
    BY <1>1, <1>5, <1>6, <1>7
  <2>2. buf \in Seq(Nat) /\ c.len \in Nat
    BY <1>2, <1>5
  <2>. QED
    BY <2>1, <2>2, Payload
<1>. HIDE DEF data
<1>12. ASSUME NEW i \in 1..c.len PROVE data[i] = c.first + i
  <2>1. 2 + i \in 1..Len(buf) /\ 2 + (2 + i) = 4 + i
    BY <1>1, <1>5, <1>6, <1>7
  <2>2. buf[2 + i] = E[2 + (2 + i)]
    BY <1>3, <2>1
  <2>. QED
    BY <1>8, <1>11, <2>1, <2>2
<1>13. taken = Start + c.size
  <2>1. Start + 2 + Len(buf) = taken /\ Start \in Nat
    BY <1>3
  <2>2. Len(buf) = c.size - 2
    BY <1>1, <1>7
  <2>. QED
    BY <1>5, <2>1, <2>2
<1>. QED
  BY <1>1, <1>10, <1>11, <1>12, <1>13, UnpackStep DEF c

\* Read returns some of what is pending.
LEMMA CopyStep ==
  ASSUME IInv, NEW k \in 1..MaxRead, Copy(k)
  PROVE  IInv'
<1>. DEFINE n == Smaller(k, Len(pending))
            head == SubSeq(pending, 1, n)
<1>1. /\ UNCHANGED <<morph, src, sent, closed, cut, written, cells, wire, taken, buf, body>>
      /\ rerr' = "none"
  BY DEF Copy, peerVars
<1>2. /\ out' = out \o head /\ pending' = SubSeq(pending, k + 1, Len(pending))
      /\ pending # <<>>
  BY DEF Copy
<1>3. /\ pending \in Seq(Nat) /\ Len(pending) \in Nat /\ out \in Seq(Nat) /\ Len(out) \in Nat
      /\ sent \in Nat
  BY DEF IInv, TypeOK
<1>4. k \in Nat /\ k > 0
  BY ReaderAssumption
<1>5. n \in Nat /\ n <= Len(pending) /\ (n = k \/ (n = Len(pending) /\ n < k))
  BY <1>3, <1>4 DEF Smaller
<1>. HIDE DEF n
<1>6. head \in Seq(Nat) /\ Len(head) = n /\ \A i \in 1..n : head[i] = pending[i]
  BY <1>3, <1>5, Split
<1>7. /\ pending' \in Seq(Nat) /\ Len(pending') = Len(pending) - n
      /\ \A i \in 1..(Len(pending) - n) : pending'[i] = pending[n + i]
  <2>1. CASE n = k
    <3>1. pending' = SubSeq(pending, n + 1, Len(pending))
      BY <1>2, <2>1
    <3>. QED
      BY <1>3, <1>5, <3>1, Split
  <2>2. CASE n = Len(pending) /\ n < k
    <3>1. pending' = <<>>
      <4>1. Len(pending) < k + 1 /\ k + 1 \in Int /\ Len(pending) \in Int
        BY <1>3, <1>4, <2>2
      <4>. QED
        BY <1>2, <4>1, SubSeqEmpty
    <3>2. Len(pending') = 0 /\ pending' \in Seq(Nat)
      BY <3>1
    <3>3. Len(pending) - n = 0
      BY <1>3, <2>2
    <3>. QED
      BY <3>2, <3>3
  <2>. QED
    BY <1>5, <2>1, <2>2
<1>. HIDE DEF head
<1>8. /\ out' \in Seq(Nat) /\ Len(out') = Len(out) + n
      /\ \A i \in 1..Len(out) : out'[i] = out[i]
      /\ \A i \in 1..n : out'[Len(out) + i] = pending[i]
  <2>1. /\ out \o head \in Seq(Nat) /\ Len(out \o head) = Len(out) + Len(head)
        /\ \A i \in 1..Len(out) : (out \o head)[i] = out[i]
        /\ \A i \in 1..Len(head) : (out \o head)[Len(out) + i] = head[i]
    BY <1>3, <1>6, Joined
  <2>. QED
    BY <1>2, <1>6, <2>1
<1>9. buf = <<>> /\ body = 0 /\ ~Ended
  BY <1>2 DEF IInv, ReaderInv
<1>10. Edges' = Edges /\ Start' = Start /\ Need' = Need /\ ~Ended'
  BY <1>1 DEF Edges, Start, Need, Ended
<1>11. Len(out') + Len(pending') = Len(out) + Len(pending)
  BY <1>3, <1>5, <1>7, <1>8
<1>12. TypeOK'
  BY <1>1, <1>7, <1>8 DEF IInv, TypeOK
<1>13. CellsInv' /\ WireInv' /\ BufInv'
  BY <1>1, <1>10 DEF IInv, CellsInv, WireInv, BufInv
<1>14. ReaderInv'
  <2>1. Start \in Edges /\ Before(cells, sent, Start) = Len(out) + Len(pending) /\ Len(buf) <= Need
    BY <1>9 DEF IInv, ReaderInv
  <2>2. CleanEOF'
    BY <1>1 DEF CleanEOF
  <2>. QED
    BY <1>1, <1>9, <1>10, <1>11, <2>1, <2>2 DEF ReaderInv
<1>15. DataInv'
  <2>1. /\ Len(out) + Len(pending) <= sent
        /\ \A i \in 1..Len(out) : out[i] = i
        /\ \A i \in 1..Len(pending) : pending[i] = Len(out) + i
    BY DEF IInv, DataInv
  <2>2. ASSUME NEW i \in 1..Len(out') PROVE out'[i] = i
    <3>1. CASE i <= Len(out)
      <4>1. i \in 1..Len(out)
        BY <1>3, <3>1
      <4>. QED
        BY <1>8, <2>1, <4>1
    <3>2. CASE i > Len(out)
      <4>. DEFINE j == i - Len(out)
      <4>1. j \in 1..n /\ j \in 1..Len(pending) /\ Len(out) + j = i
        BY <1>3, <1>5, <1>8, <3>2
      <4>. HIDE DEF j
      <4>2. out'[Len(out) + j] = pending[j] /\ pending[j] = Len(out) + j
        BY <1>8, <2>1, <4>1
      <4>. QED
        BY <4>1, <4>2
    <3>. QED
      BY <1>3, <1>5, <1>8, <3>1, <3>2
  <2>3. ASSUME NEW i \in 1..Len(pending') PROVE pending'[i] = Len(out') + i
    <3>1. i \in 1..(Len(pending) - n) /\ n + i \in 1..Len(pending)
      BY <1>3, <1>5, <1>7
    <3>2. pending'[i] = pending[n + i] /\ pending[n + i] = Len(out) + (n + i)
      BY <1>7, <2>1, <3>1
    <3>3. Len(out) + (n + i) = Len(out') + i
      BY <1>3, <1>5, <1>8, <3>1
    <3>. QED
      BY <3>2, <3>3
  <2>4. Len(out') + Len(pending') <= sent'
    BY <1>1, <1>11, <2>1
  <2>. QED
    BY <2>2, <2>3, <2>4 DEF DataInv
<1>. QED
  BY <1>12, <1>13, <1>14, <1>15 DEF IInv

\* A Read that fails: between two cells when a deadline passes, anywhere when the
\* base is at its end.
LEMMA FailStep ==
  ASSUME IInv, Deadlines = "idle", ReadTimesOut \/ ReadEnds
  PROVE  IInv'
<1>1. /\ UNCHANGED <<morph, src, sent, closed, cut, written, cells, wire, taken, out>>
      /\ buf' = <<>> /\ body' = 0 /\ pending' = <<>> /\ pending = <<>> /\ ~Ended
      /\ rerr' \in {"timeout", "EOF", "ErrUnexpectedEOF"}
  BY DEF ReadTimesOut, ReadEnds, CellDone, EndError, peerVars
<1>2. /\ rerr' = "timeout" => buf = <<>> /\ body = 0
      /\ rerr' # "timeout" => closed /\ wire = <<>>
      /\ rerr' = "EOF" => buf = <<>>
  BY <1>1 DEF ReadTimesOut, ReadEnds, CellDone, EndError
<1>3. Start \in Edges /\ Before(cells, sent, Start) = Len(out) + Len(pending)
  BY <1>1 DEF IInv, ReaderInv
<1>4. taken \in Nat /\ body \in Nat /\ Len(buf') = 0 /\ (buf = <<>> => Len(buf) = 0)
  BY <1>1 DEF IInv, TypeOK
<1>5. Edges' = Edges
  BY <1>1 DEF Edges
<1>6. TypeOK'
  BY <1>1 DEF IInv, TypeOK
<1>7. CellsInv' /\ WireInv' /\ DataInv'
  <2>1. \A i \in 1..Len(<<>>) : FALSE
    OBVIOUS
  <2>. QED
    BY <1>1, <1>5, <2>1 DEF IInv, CellsInv, WireInv, DataInv
<1>8. BufInv'
  <2>1. ASSUME NEW e \in DOMAIN cells, NEW j \in 1..cells[e].size,
               taken - 0 < e + j, e + j <= taken
        PROVE  FALSE
    <3>1. e \in Nat /\ cells[e].size \in Nat
      BY EdgeProps DEF IInv
    <3>. QED
      BY <1>4, <2>1, <3>1
  <2>. QED
    BY <1>1, <1>4, <2>1 DEF BufInv
<1>9. Need' \in Nat
  BY <1>1, Sizes DEF Need
<1>10. CleanEOF'
  <2>1. ASSUME rerr' = "EOF" PROVE taken \in Edges \/ (morph /\ taken - 2 \in Edges)
    <3>1. Len(buf) = 0
      BY <1>2, <1>4, <2>1
    <3>2. CASE body > 0
      <4>1. Start = taken - 2 /\ morph
        BY <1>4, <3>1, <3>2 DEF Start, IInv, ReaderInv
      <4>. QED
        BY <1>3, <4>1
    <3>3. CASE body = 0
      <4>1. Start = taken
        BY <1>4, <3>1, <3>3 DEF Start
      <4>. QED
        BY <1>3, <4>1
    <3>. QED
      BY <1>4, <3>2, <3>3
  <2>. QED
    BY <1>1, <1>5, <2>1 DEF CleanEOF
<1>11. ReaderInv'
  <2>1. CASE rerr' = "timeout"
    <3>1. Start = taken
      BY <1>2, <1>4, <2>1 DEF Start
    <3>2. Start' = taken
      BY <1>1, <1>4 DEF Start
    <3>3. ~Ended'
      BY <2>1 DEF Ended
    <3>. QED
      BY <1>1, <1>3, <1>4, <1>5, <1>9, <1>10, <3>1, <3>2, <3>3 DEF ReaderInv
  <2>2. CASE rerr' # "timeout"
    <3>1. Ended'
      BY <1>1, <2>2 DEF Ended
    <3>. QED
      BY <1>1, <1>2, <1>4, <1>9, <1>10, <2>2, <3>1 DEF ReaderInv
  <2>. QED
    BY <2>1, <2>2
<1>. QED
  BY <1>6, <1>7, <1>8, <1>11 DEF IInv
-----------------------------------------------------------------------------
\* IInv is inductive when deadlines pass between cells only.
LEMMA NextIInv ==
  ASSUME Deadlines = "idle", Describable
  PROVE  IInv /\ [Next]_vars => IInv'
<1>. SUFFICES ASSUME IInv, [Next]_vars PROVE IInv'
  OBVIOUS
<1>1. CASE \E size \in DataSizes : PeerFrames(size)
  BY <1>1, FramesStep
<1>2. CASE \E size \in CoverSizes : PeerCovers(size)
  BY <1>2, CoversStep
<1>3. CASE (\E n \in 1..MaxWrite : PeerWrites(n)) \/ PeerCloses \/ UNCHANGED vars
  BY <1>3, QuietStep
<1>4. CASE \E k \in 0..Len(wire) : CarrierCut(k)
  BY <1>4, CutStep
<1>5. CASE \E k \in 1..Need : BaseRead(k)
  BY <1>5, BaseReadStep
<1>6. CASE Parse
  BY <1>6, FixedStep, HeaderStep, BodyStep DEF Parse
<1>7. CASE \E k \in 1..MaxRead : Copy(k)
  BY <1>7, CopyStep
<1>8. CASE ReadTimesOut \/ ReadEnds
  BY <1>8, FailStep
<1>. QED
  BY <1>1, <1>2, <1>3, <1>4, <1>5, <1>6, <1>7, <1>8 DEF Next, Read

\* IInv holds in every reachable state.
LEMMA Invariance ==
  ASSUME Deadlines = "idle", Describable
  PROVE  Spec => []IInv
<1>1. IInv /\ [Next]_vars => IInv'
  BY NextIInv
<1>. QED
  BY InitIInv, <1>1, PTL DEF Spec
-----------------------------------------------------------------------------
\* For every cell size, every sequence of sampled sizes, every splitting by the
\* carrier and every size of the caller's buffer: Read returns the bytes the peer
\* wrote, in order, none twice and none left out, as long as no deadline passes
\* inside a cell.
THEOREM ReadReconstructs ==
  ASSUME Deadlines = "idle", Describable
  PROVE  Spec => []Reconstructs
<1>1. IInv => Reconstructs
  <2>. SUFFICES ASSUME IInv PROVE Reconstructs
    OBVIOUS
  <2>. DEFINE got == out \o pending
  <2>1. out \in Seq(Nat) /\ Len(out) \in Nat /\ pending \in Seq(Nat) /\ Len(pending) \in Nat
    BY DEF IInv, TypeOK
  <2>2. /\ Len(got) = Len(out) + Len(pending)
        /\ \A i \in 1..Len(out) : got[i] = out[i]
        /\ \A i \in 1..Len(pending) : got[Len(out) + i] = pending[i]
    BY <2>1, Joined
  <2>. HIDE DEF got
  <2>3. /\ Len(out) + Len(pending) <= sent
        /\ \A i \in 1..Len(out) : out[i] = i
        /\ \A i \in 1..Len(pending) : pending[i] = Len(out) + i
    BY DEF IInv, DataInv
  <2>4. ASSUME NEW i \in 1..Len(got) PROVE got[i] = i
    <3>1. CASE i <= Len(out)
      BY <2>1, <2>2, <2>3, <3>1
    <3>2. CASE i > Len(out)
      <4>. DEFINE j == i - Len(out)
      <4>1. j \in 1..Len(pending) /\ Len(out) + j = i
        BY <2>1, <2>2, <3>2
      <4>. HIDE DEF j
      <4>2. got[Len(out) + j] = pending[j] /\ pending[j] = Len(out) + j
        BY <2>2, <2>3, <4>1
      <4>. QED
        BY <4>1, <4>2
    <3>. QED
      BY <2>1, <2>2, <3>1, <3>2
  <2>. QED
    BY <2>2, <2>3, <2>4 DEF Reconstructs, got
<1>. QED
  BY Invariance, <1>1, PTL

\* However cells are sized, mixed with cover and split: the reader stays in step
\* with the writer's cells and never calls one corrupt.
THEOREM ReadStaysAligned ==
  ASSUME Deadlines = "idle", Describable
  PROVE  Spec => []Aligned
<1>1. IInv => Aligned
  <2>. SUFFICES ASSUME IInv PROVE Aligned
    OBVIOUS
  <2>1. TypeOK /\ CellsInv /\ taken \in Nat /\ Len(buf) \in Nat /\ (buf = <<>> => Len(buf) = 0)
    BY DEF IInv, TypeOK
  <2>2. buf = <<>> /\ body = 0 /\ ~Ended => taken \in Edges
    BY <2>1 DEF IInv, ReaderInv, Start
  <2>3. ASSUME NEW e \in Edges, taken - Len(buf) < e, e < taken PROVE FALSE
    <3>1. e \in Nat /\ e <= written
      BY <2>1, EdgeProps
    <3>2. buf # <<>>
      BY <2>1, <2>3, <3>1
    <3>3. Start \in DOMAIN cells /\ taken <= Start + cells[Start].size
      BY <3>2, InsideCell
    <3>4. /\ Start \in Nat /\ cells[Start].size \in Nat
          /\ Start + cells[Start].size <= written /\ written \in Nat
      BY <2>1, <3>3, EdgeProps DEF TypeOK
    <3>5. Start < e
      <4>1. Start <= taken - Len(buf)
        BY <2>1 DEF Start
      <4>. QED
        BY <2>1, <2>3, <3>1, <3>4, <4>1
    <3>6. e >= Start + cells[Start].size
      <4>1. CASE e \in DOMAIN cells
        BY <2>1, <3>3, <3>5, <4>1 DEF CellsInv
      <4>2. CASE e = written
        BY <3>4, <4>2
      <4>. QED
        BY <4>1, <4>2 DEF Edges
    <3>. QED
      BY <2>1, <2>3, <3>1, <3>3, <3>4, <3>6
  <2>4. rerr # "corrupt"
    BY <2>1 DEF TypeOK
  <2>. QED
    BY <2>2, <2>3, <2>4 DEF Aligned
<1>. QED
  BY Invariance, <1>1, PTL

\* Wherever the carrier is cut: a clean end of file is reported at the end of a
\* cell only, or in morpher mode behind a length field.
THEOREM CleanEndOnlyAtEdges ==
  ASSUME Deadlines = "idle", Describable
  PROVE  Spec => []CleanEOF
<1>1. IInv => CleanEOF
  BY DEF IInv, ReaderInv
<1>. QED
  BY Invariance, <1>1, PTL
=============================================================================
