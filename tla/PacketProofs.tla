---------------------------- MODULE PacketProofs ----------------------------
(***************************************************************************)
(* Proofs about Packet, for every size of a byte and of the salt, every    *)
(* length of payloads, paddings and buffers and every number of readers.   *)
(***************************************************************************)
EXTENDS Packet, SequenceTheorems, TLAPS

\* Bytes that no key stream is applied to, and bytes in general: salts are plain.
Plain == [m : Nat, v : Nat, ks : {{}}]
Bytes == [m : Nat, v : Nat, ks : SUBSET (Seq(Plain) \X Nat)]

\* Byte i of a frame with value v, encrypted for datagram m.
Coded(m, i, v) == [m |-> m, v |-> v, ks |-> {<<Zeroes(m, SaltSize), i>>}]
-----------------------------------------------------------------------------
(* Sizes.                                                                    *)

\* Every datagram buffer has room for the overhead and at least one byte.
LEMMA Sizes ==
  /\ SaltSize \in Nat /\ Base \in Nat /\ Base > 0 /\ Base * Base \in Nat
  /\ maxDatagram \in Nat /\ maxDatagram = Base * Base - 1
  /\ maxDatagram >= SaltSize + 3
  /\ pktOverhead = SaltSize + 2 /\ maxPktData = maxDatagram - SaltSize - 2 /\ maxPktData \in Nat
<1>. DEFINE sq == Base * Base
<1>1. SaltSize \in Nat /\ Base \in Nat /\ sq > SaltSize + 3
  BY PacketAssumption
<1>2. sq \in Nat
  BY <1>1
<1>3. Base # 0
  <2>. SUFFICES ASSUME Base = 0 PROVE FALSE
    OBVIOUS
  <2>1. sq = 0
    OBVIOUS
  <2>. HIDE DEF sq
  <2>. QED
    BY <1>1, <2>1
<1>. HIDE DEF sq
<1>4. maxDatagram = sq - 1
  BY DEF maxDatagram, sq
<1>5. pktOverhead = SaltSize + 2 /\ maxPktData = maxDatagram - SaltSize - 2
  BY <1>1, <1>2, <1>4 DEF pktOverhead, pktHdrSize, maxPktData
<1>. QED
  BY <1>1, <1>2, <1>3, <1>4, <1>5 DEF sq

\* The length field is decoded to what was encoded: no payload is as long as
\* Base^2.
LEMMA LengthField ==
  ASSUME NEW k \in Nat, k < Base * Base
  PROVE  ((k \div Base) % Base) * Base + (k % Base) = k
<1>. DEFINE q == k \div Base
            r == k % Base
<1>1. Base \in Nat /\ Base > 0
  BY Sizes
<1>2. q \in Nat /\ r \in 0..Base - 1 /\ k = Base * q + r
  BY <1>1
<1>3. q < Base
  <2>. SUFFICES ASSUME q >= Base PROVE FALSE
    BY <1>1, <1>2
  <2>. HIDE DEF q, r
  <2>1. Base * q >= Base * Base
    BY <1>1, <1>2
  <2>2. Base * q \in Nat /\ Base * Base \in Nat
    BY <1>1, <1>2
  <2>. QED
    BY <1>2, <2>1, <2>2
<1>4. q % Base = q
  <2>. HIDE DEF q
  <2>. QED
    BY <1>1, <1>2, <1>3
<1>5. q * Base = Base * q
  BY <1>1, <1>2
<1>6. (q % Base) * Base + r = k
  <2>. DEFINE w == q * Base
  <2>1. w \in Nat /\ k = w + r
    BY <1>1, <1>2, <1>5
  <2>2. (q % Base) * Base = w
    BY <1>4
  <2>. HIDE DEF q, r, w
  <2>. QED
    BY <2>1, <2>2
<1>. QED
  BY <1>6
-----------------------------------------------------------------------------
(* Bytes and the key stream.                                                 *)

\* A plain byte is a byte.
LEMMA PlainIsByte == Plain \subseteq Bytes
BY DEF Plain, Bytes

\* Byte makes plain bytes.
LEMMA ByteIsPlain ==
  ASSUME NEW m \in Nat, NEW v \in Nat
  PROVE  /\ Byte(m, v) \in Plain /\ Byte(m, v) \in Bytes
         /\ Byte(m, v).m = m /\ Byte(m, v).v = v /\ Byte(m, v).ks = {}
BY PlainIsByte DEF Byte, Plain

\* A run of zero bytes.
LEMMA ZeroesProps ==
  ASSUME NEW m \in Nat, NEW k \in Nat
  PROVE  /\ Zeroes(m, k) \in Seq(Plain) /\ Zeroes(m, k) \in Seq(Bytes)
         /\ Len(Zeroes(m, k)) = k
         /\ \A i \in 1..k : Zeroes(m, k)[i] = Byte(m, 0)
<1>1. Byte(m, 0) \in Plain /\ Byte(m, 0) \in Bytes
  BY ByteIsPlain
<1>2. /\ [i \in 1..k |-> Byte(m, 0)] \in Seq(Plain)
      /\ [i \in 1..k |-> Byte(m, 0)] \in Seq(Bytes)
  BY <1>1
<1>. QED
  BY <1>2 DEF Zeroes

\* A byte is determined by its three fields.
LEMMA SameByte ==
  ASSUME NEW x \in Bytes, NEW y \in Bytes, x.m = y.m, x.v = y.v, x.ks = y.ks
  PROVE  x = y
BY DEF Bytes

\* What one application of a key stream does to a set of applied ones.
Flipped(S, x) == IF x \in S THEN S \ {x} ELSE S \cup {x}

\* The key stream changes no byte but for the mark that it was applied.
LEMMA XORProps ==
  ASSUME NEW salt \in Seq(Plain), NEW f \in Seq(Bytes)
  PROVE  /\ XORKeyStream(salt, f) \in Seq(Bytes)
         /\ Len(XORKeyStream(salt, f)) = Len(f)
         /\ \A i \in 1..Len(f) :
              /\ XORKeyStream(salt, f)[i].m = f[i].m
              /\ XORKeyStream(salt, f)[i].v = f[i].v
              /\ XORKeyStream(salt, f)[i].ks = Flipped(f[i].ks, <<salt, i>>)
<1>. DEFINE e(i) == [f[i] EXCEPT !.ks = Flipped(f[i].ks, <<salt, i>>)]
            x == [i \in 1..Len(f) |-> e(i)]
<1>1. DOMAIN f = 1..Len(f) /\ Len(f) \in Nat
  BY LenProperties
<1>2. XORKeyStream(salt, f) = x
  BY <1>1 DEF XORKeyStream, Flipped
<1>3. ASSUME NEW i \in 1..Len(f)
      PROVE  /\ e(i) \in Bytes /\ e(i).m = f[i].m /\ e(i).v = f[i].v
             /\ e(i).ks = Flipped(f[i].ks, <<salt, i>>)
  <2>1. f[i] \in Bytes
    BY ElementOfSeq
  <2>2. <<salt, i>> \in Seq(Plain) \X Nat
    BY <1>1
  <2>3. Flipped(f[i].ks, <<salt, i>>) \in SUBSET (Seq(Plain) \X Nat)
    BY <2>1, <2>2 DEF Bytes, Flipped
  <2>. QED
    BY <2>1, <2>3 DEF Bytes
<1>4. x \in Seq(Bytes) /\ Len(x) = Len(f) /\ \A i \in 1..Len(f) : x[i] = e(i)
  <2>. DEFINE l == Len(f)
  <2>1. l \in Nat /\ \A i \in 1..l : e(i) \in Bytes
    BY <1>1, <1>3
  <2>. HIDE DEF e, l
  <2>2. [i \in 1..l |-> e(i)] \in Seq(Bytes) /\ Len([i \in 1..l |-> e(i)]) = l
    BY <2>1
  <2>. QED
    BY <2>1, <2>2 DEF l
<1>. HIDE DEF e, x
<1>. QED
  BY <1>2, <1>3, <1>4
-----------------------------------------------------------------------------
(* What WriteTo sends.                                                       *)

Frame(m, k, z) == PutUint16(m, k) \o Payload(m, k) \o Zeroes(m, z)

\* The frame before encryption: the length in two bytes, the payload, zeroes.
LEMMA FrameProps ==
  ASSUME NEW m \in Nat, NEW k \in Nat, NEW z \in Nat
  PROVE  /\ Frame(m, k, z) \in Seq(Plain)
         /\ Len(Frame(m, k, z)) = 2 + k + z
         /\ \A i \in 1..2 + k + z : Frame(m, k, z)[i].m = m
         /\ Frame(m, k, z)[1] = Byte(m, (k \div Base) % Base)
         /\ Frame(m, k, z)[2] = Byte(m, k % Base)
         /\ \A i \in 1..k : Frame(m, k, z)[2 + i] = Byte(m, i)
<1>. DEFINE hi == Byte(m, (k \div Base) % Base)
            lo == Byte(m, k % Base)
            p == PutUint16(m, k)
            w == Payload(m, k)
            y == Zeroes(m, z)
            frame == Frame(m, k, z)
<1>1. /\ hi \in Plain /\ lo \in Plain /\ hi.m = m /\ lo.m = m
  <2>1. (k \div Base) % Base \in Nat /\ k % Base \in Nat
    BY Sizes
  <2>. QED
    BY <2>1, ByteIsPlain
<1>2. p \in Seq(Plain) /\ Len(p) = 2 /\ p[1] = hi /\ p[2] = lo
  <2>1. p = <<hi, lo>>
    BY DEF PutUint16
  <2>. HIDE DEF hi, lo, p
  <2>. QED
    BY <1>1, <2>1
<1>3. w \in Seq(Plain) /\ Len(w) = k /\ \A i \in 1..k : w[i] = Byte(m, i)
  <2>1. \A i \in 1..k : Byte(m, i) \in Plain
    BY ByteIsPlain
  <2>2. [i \in 1..k |-> Byte(m, i)] \in Seq(Plain)
    BY <2>1
  <2>. QED
    BY <2>2 DEF Payload
<1>4. y \in Seq(Plain) /\ Len(y) = z /\ \A i \in 1..z : y[i] = Byte(m, 0)
  BY ZeroesProps
<1>5. \A i \in Nat : Byte(m, i).m = m
  BY ByteIsPlain
<1>. HIDE DEF p, w, y, hi, lo
<1>6. /\ p \o w \in Seq(Plain) /\ Len(p \o w) = 2 + k
      /\ \A i \in 1..2 : (p \o w)[i] = p[i]
      /\ \A i \in 1..k : (p \o w)[2 + i] = w[i]
  <2>. DEFINE la == 2
  <2>1. la \in Nat /\ p \in Seq(Plain) /\ Len(p) = la /\ w \in Seq(Plain) /\ Len(w) = k
    BY <1>2, <1>3
  <2>. HIDE DEF la
  <2>2. /\ p \o w \in Seq(Plain) /\ Len(p \o w) = la + k
        /\ \A i \in 1..la : (p \o w)[i] = p[i]
        /\ \A i \in 1..k : (p \o w)[la + i] = w[i]
    <3>1. /\ p \o w \in Seq(Plain) /\ Len(p \o w) = la + k
      BY <2>1
    <3>2. \A i \in 1..la : (p \o w)[i] = p[i]
      BY <2>1
    <3>3. \A i \in 1..k : (p \o w)[la + i] = w[i]
      BY <2>1
    <3>. QED
      BY <3>1, <3>2, <3>3
  <2>. QED
    BY <2>2 DEF la
<1>7. /\ frame \in Seq(Plain) /\ Len(frame) = 2 + k + z
      /\ \A i \in 1..2 + k : frame[i] = (p \o w)[i]
      /\ \A i \in 1..z : frame[2 + k + i] = y[i]
  <2>. DEFINE a == p \o w
              la == 2 + k
  <2>1. a \in Seq(Plain) /\ Len(a) = la /\ la \in Nat
    BY <1>6
  <2>. HIDE DEF a, la
  <2>2. /\ a \o y \in Seq(Plain) /\ Len(a \o y) = la + z
        /\ \A i \in 1..la : (a \o y)[i] = a[i]
        /\ \A i \in 1..z : (a \o y)[la + i] = y[i]
    <3>1. a \o y \in Seq(Plain) /\ Len(a \o y) = la + z
      BY <1>4, <2>1
    <3>2. \A i \in 1..la : (a \o y)[i] = a[i]
      BY <1>4, <2>1
    <3>3. \A i \in 1..z : (a \o y)[la + i] = y[i]
      BY <1>4, <2>1
    <3>. QED
      BY <3>1, <3>2, <3>3
  <2>3. frame = a \o y
    BY DEF Frame, a, p, w, y
  <2>. QED
    BY <2>2, <2>3 DEF a, la
<1>. HIDE DEF frame
<1>8. frame[1] = hi /\ frame[2] = lo
  <2>1. 1 \in 1..2 /\ 2 \in 1..2 /\ 1 \in 1..2 + k /\ 2 \in 1..2 + k
    OBVIOUS
  <2>. QED
    BY <1>2, <1>6, <1>7, <2>1
<1>9. \A i \in 1..k : frame[2 + i] = Byte(m, i)
  <2>. TAKE i \in 1..k
  <2>1. 2 + i \in 1..2 + k
    OBVIOUS
  <2>. QED
    BY <1>3, <1>6, <1>7, <2>1, Zenon
<1>10. \A i \in 1..2 + k + z : frame[i].m = m
  <2>. TAKE i \in 1..2 + k + z
  <2>1. CASE i <= 2
    <3>1. i = 1 \/ i = 2
      BY <2>1
    <3>. QED
      BY <1>1, <1>8, <3>1
  <2>2. CASE i > 2 /\ i <= 2 + k
    <3>1. i - 2 \in 1..k /\ 2 + (i - 2) = i
      BY <2>2
    <3>. QED
      BY <1>5, <1>9, <3>1
  <2>3. CASE i > 2 + k
    <3>1. i - (2 + k) \in 1..z /\ 2 + k + (i - (2 + k)) = i
      BY <2>3
    <3>. QED
      BY <1>4, <1>5, <1>7, <3>1
  <2>. QED
    BY <2>1, <2>2, <2>3
<1>. QED
  BY <1>7, <1>8, <1>9, <1>10 DEF hi, lo, frame

\* The bytes bs begin with the salt, the length and the payload of datagram g.
Carries(bs, g, len) ==
  /\ \A i \in 1..SaltSize : bs[i] = Byte(g, 0)
  /\ bs[SaltSize + 1] = Coded(g, 1, (len \div Base) % Base)
  /\ bs[SaltSize + 2] = Coded(g, 2, len % Base)
  /\ \A i \in 1..len : bs[SaltSize + (2 + i)] = Coded(g, 2 + i, i)

\* A datagram of WriteTo: its salt in the clear, then the encrypted frame.  Every
\* byte of it is its own, and it is never shorter than what it carries.
LEMMA WriteMakes ==
  ASSUME NEW m \in Nat, NEW k \in Nat, NEW s \in Nat, k <= maxPktData
  PROVE  /\ Datagram(m, k, s) \in Seq(Bytes)
         /\ Len(Datagram(m, k, s)) >= SaltSize + 2 + k
         /\ \A i \in 1..Len(Datagram(m, k, s)) : Datagram(m, k, s)[i].m = m
         /\ Carries(Datagram(m, k, s), m, k)
<1>. DEFINE z == FrameLen(k, s) - pktHdrSize - k
            salt == Zeroes(m, SaltSize)
            frame == Frame(m, k, z)
            x == XORKeyStream(salt, frame)
            l == 2 + k + z
            d == Datagram(m, k, s)
<1>1. z \in Nat
  BY Sizes DEF FrameLen, Smaller, pktHdrSize
<1>2. salt \in Seq(Plain) /\ salt \in Seq(Bytes) /\ Len(salt) = SaltSize
      /\ \A i \in 1..SaltSize : salt[i] = Byte(m, 0)
  BY ZeroesProps, Sizes
<1>. HIDE DEF z
<1>3. /\ frame \in Seq(Plain) /\ Len(frame) = l
      /\ \A i \in 1..l : frame[i].m = m
      /\ frame[1] = Byte(m, (k \div Base) % Base) /\ frame[2] = Byte(m, k % Base)
      /\ \A i \in 1..k : frame[2 + i] = Byte(m, i)
  <2>1. frame \in Seq(Plain)
    BY <1>1, FrameProps
  <2>2. Len(frame) = l
    BY <1>1, FrameProps
  <2>3. \A i \in 1..l : frame[i].m = m
    BY <1>1, FrameProps
  <2>4. frame[1] = Byte(m, (k \div Base) % Base)
    BY <1>1, FrameProps
  <2>5. frame[2] = Byte(m, k % Base)
    BY <1>1, FrameProps
  <2>6. \A i \in 1..k : frame[2 + i] = Byte(m, i)
    BY <1>1, FrameProps
  <2>. QED
    BY <2>1, <2>2, <2>3, <2>4, <2>5, <2>6
<1>4. frame \in Seq(Bytes) /\ \A i \in 1..l : frame[i].ks = {}
  <2>1. frame \in Seq(Bytes)
    BY <1>3, PlainIsByte, SeqMonotonic
  <2>2. \A i \in 1..l : frame[i] \in Plain
    BY <1>3, ElementOfSeq
  <2>. QED
    BY <2>1, <2>2 DEF Plain
<1>5. d = salt \o x
  BY DEF Datagram, Frame, z
<1>. HIDE DEF salt, frame, d
<1>6. /\ x \in Seq(Bytes) /\ Len(x) = l
      /\ \A i \in 1..l : /\ x[i] \in Bytes /\ x[i].m = m /\ x[i].v = frame[i].v
                         /\ x[i].ks = {<<salt, i>>}
  <2>1. /\ x \in Seq(Bytes) /\ Len(x) = Len(frame)
        /\ \A i \in 1..Len(frame) : /\ x[i].m = frame[i].m /\ x[i].v = frame[i].v
                                    /\ x[i].ks = Flipped(frame[i].ks, <<salt, i>>)
    BY <1>2, <1>4, XORProps
  <2>2. \A i \in 1..l : x[i] \in Bytes
    BY <1>3, <2>1, ElementOfSeq
  <2>3. \A y : Flipped({}, y) = {y}
    BY DEF Flipped
  <2>. HIDE DEF x, l
  <2>. QED
    BY <1>3, <1>4, <2>1, <2>2, <2>3
<1>. HIDE DEF x
<1>7. /\ d \in Seq(Bytes) /\ Len(d) = SaltSize + l
      /\ \A i \in 1..SaltSize : d[i] = salt[i]
      /\ \A i \in 1..l : d[SaltSize + i] = x[i]
  <2>1. l \in Nat /\ SaltSize \in Nat
    BY <1>1, Sizes
  <2>2. salt \in Seq(Bytes) /\ x \in Seq(Bytes) /\ Len(salt) = SaltSize /\ Len(x) = l
    BY <1>2, <1>6
  <2>. HIDE DEF l
  <2>3. /\ salt \o x \in Seq(Bytes) /\ Len(salt \o x) = SaltSize + l
        /\ \A i \in 1..SaltSize : (salt \o x)[i] = salt[i]
        /\ \A i \in 1..l : (salt \o x)[SaltSize + i] = x[i]
    <3>1. salt \o x \in Seq(Bytes) /\ Len(salt \o x) = SaltSize + l
      BY <2>1, <2>2
    <3>2. \A i \in 1..SaltSize : (salt \o x)[i] = salt[i]
      BY <2>1, <2>2
    <3>3. \A i \in 1..l : (salt \o x)[SaltSize + i] = x[i]
      BY <2>1, <2>2
    <3>. QED
      BY <3>1, <3>2, <3>3
  <2>. QED
    BY <1>5, <2>3
<1>8. \A i \in 1..SaltSize : d[i] = Byte(m, 0)
  BY <1>2, <1>7
<1>9. \A i \in 1..l : d[SaltSize + i] = x[i]
  BY <1>7
<1>10. \A i \in 1..l, v \in Nat : frame[i] = Byte(m, v) => d[SaltSize + i] = Coded(m, i, v)
  <2>. TAKE i \in 1..l, v \in Nat
  <2>. HAVE frame[i] = Byte(m, v)
  <2>1. x[i].v = v
    <3>1. frame[i].v = v
      BY ByteIsPlain
    <3>2. x[i].v = frame[i].v
      BY <1>6
    <3>. QED
      BY <3>1, <3>2
  <2>2. x[i] = [m |-> m, v |-> v, ks |-> {<<salt, i>>}]
    <3>. DEFINE y == x[i]
                q == {<<salt, i>>}
    <3>1. y \in Bytes /\ y.m = m /\ y.v = v /\ y.ks = q
      BY <1>6, <2>1
    <3>. HIDE DEF y, q
    <3>2. y = [m |-> m, v |-> v, ks |-> q]
      BY <3>1 DEF Bytes
    <3>. QED
      BY <3>2 DEF y, q
  <2>. QED
    BY <1>9, <2>2 DEF Coded, salt
<1>11. \A i \in 1..Len(d) : d[i].m = m
  <2>. TAKE i \in 1..Len(d)
  <2>1. CASE i <= SaltSize
    <3>1. i \in 1..SaltSize
      BY <1>1, <1>7, <2>1, Sizes
    <3>. QED
      BY <1>8, <3>1, ByteIsPlain
  <2>2. CASE i > SaltSize
    <3>1. i - SaltSize \in 1..l /\ SaltSize + (i - SaltSize) = i
      BY <1>1, <1>7, <2>2, Sizes
    <3>. QED
      BY <1>6, <1>9, <3>1
  <2>. QED
    BY <1>7, <2>1, <2>2, Sizes
<1>12. 1 \in 1..l /\ 2 \in 1..l /\ \A i \in 1..k : 2 + i \in 1..l
  BY <1>1
<1>13. (k \div Base) % Base \in Nat /\ k % Base \in Nat
  BY Sizes
<1>14. Len(d) >= SaltSize + 2 + k
  BY <1>1, <1>7, Sizes
<1>15. \A i \in 1..k : d[SaltSize + (2 + i)] = Coded(m, 2 + i, i)
  BY <1>3, <1>10, <1>12
<1>16. /\ d[SaltSize + 1] = Coded(m, 1, (k \div Base) % Base)
       /\ d[SaltSize + 2] = Coded(m, 2, k % Base)
  BY <1>3, <1>10, <1>12, <1>13
<1>17. Carries(d, m, k)
  BY <1>8, <1>15, <1>16, Zenon DEF Carries
<1>. QED
  BY <1>7, <1>11, <1>14, <1>17 DEF d
-----------------------------------------------------------------------------
(* What ReadFrom makes of a buffer mb of which the base filled l bytes.      *)

SaltOf(mb) == SubSeq(mb, 1, SaltSize)
FrameOf(mb, l) == XORKeyStream(SaltOf(mb), SubSeq(mb, SaltSize + 1, l))
AfterOf(mb, l) == SaltOf(mb) \o FrameOf(mb, l) \o SubSeq(mb, l + 1, maxDatagram)
DataOf(mb, l) == SubSeq(AfterOf(mb, l), pktOverhead + 1, maxDatagram)

\* A read buffer: full length, and a plain byte wherever a salt may be.
IsBuffer(mb) ==
  /\ mb \in Seq(Bytes)
  /\ Len(mb) = maxDatagram
  /\ \A i \in 1..SaltSize : mb[i] \in Plain

\* A part of a sequence of bytes.
LEMMA PartOf ==
  ASSUME NEW S, NEW q \in Seq(S), NEW from \in Nat \ {0}, NEW to \in Nat,
         from <= to + 1, to <= Len(q)
  PROVE  /\ SubSeq(q, from, to) \in Seq(S)
         /\ Len(SubSeq(q, from, to)) = to - from + 1
         /\ \A i \in 1..to - from + 1 : SubSeq(q, from, to)[i] = q[(from - 1) + i]
<1>1. \A i \in from..to : q[i] \in S
  BY ElementOfSeq
<1>2. /\ SubSeq(q, from, to) \in Seq(S)
      /\ Len(SubSeq(q, from, to)) = IF from <= to THEN to - from + 1 ELSE 0
      /\ \A i \in 1..to - from + 1 : SubSeq(q, from, to)[i] = q[from + i - 1]
  BY <1>1, SubSeqProperties
<1>3. \A i \in 1..to - from + 1 : from + i - 1 = (from - 1) + i
  OBVIOUS
<1>4. (IF from <= to THEN to - from + 1 ELSE 0) = to - from + 1
  OBVIOUS
<1>. QED
  BY <1>2, <1>3, <1>4, Zenon

\* The salt is the first bytes, and plain.
LEMMA SaltProps ==
  ASSUME NEW mb, IsBuffer(mb)
  PROVE  /\ SaltOf(mb) \in Seq(Plain) /\ SaltOf(mb) \in Seq(Bytes)
         /\ Len(SaltOf(mb)) = SaltSize
         /\ \A i \in 1..SaltSize : SaltOf(mb)[i] = mb[i]
<1>1. /\ SubSeq(mb, 1, SaltSize) \in Seq(Plain)
      /\ Len(SubSeq(mb, 1, SaltSize)) = IF 1 <= SaltSize THEN SaltSize - 1 + 1 ELSE 0
      /\ \A i \in 1..SaltSize - 1 + 1 : SubSeq(mb, 1, SaltSize)[i] = mb[1 + i - 1]
  BY Sizes, SubSeqProperties DEF IsBuffer
<1>2. /\ SaltSize - 1 + 1 = SaltSize /\ \A i \in 1..SaltSize : 1 + i - 1 = i
      /\ (IF 1 <= SaltSize THEN SaltSize - 1 + 1 ELSE 0) = SaltSize
  BY Sizes
<1>3. SaltOf(mb) \in Seq(Plain) /\ Len(SaltOf(mb)) = SaltSize
      /\ \A i \in 1..SaltSize : SaltOf(mb)[i] = mb[i]
  BY <1>1, <1>2, Zenon DEF SaltOf
<1>. QED
  BY <1>3, PlainIsByte, SeqMonotonic

\* Decryption in place.
LEMMA FrameOfProps ==
  ASSUME NEW mb, IsBuffer(mb), NEW l \in Nat, pktOverhead <= l, l <= maxDatagram
  PROVE  /\ FrameOf(mb, l) \in Seq(Bytes)
         /\ Len(FrameOf(mb, l)) = l - SaltSize
         /\ \A i \in 1..l - SaltSize :
              /\ FrameOf(mb, l)[i].m = mb[SaltSize + i].m
              /\ FrameOf(mb, l)[i].v = mb[SaltSize + i].v
              /\ FrameOf(mb, l)[i].ks = Flipped(mb[SaltSize + i].ks, <<SaltOf(mb), i>>)
<1>. DEFINE e == SubSeq(mb, SaltSize + 1, l)
            c == l - SaltSize
<1>1. e \in Seq(Bytes) /\ Len(e) = c /\ \A i \in 1..c : e[i] = mb[SaltSize + i]
  <2>. DEFINE from == SaltSize + 1
  <2>1. /\ from \in Nat \ {0} /\ from <= l + 1 /\ l <= Len(mb) /\ mb \in Seq(Bytes)
        /\ l - from + 1 = c /\ from - 1 = SaltSize
    BY Sizes DEF IsBuffer
  <2>2. e = SubSeq(mb, from, l)
    OBVIOUS
  <2>. HIDE DEF from, c, e
  <2>3. /\ SubSeq(mb, from, l) \in Seq(Bytes)
        /\ Len(SubSeq(mb, from, l)) = l - from + 1
        /\ \A i \in 1..l - from + 1 : SubSeq(mb, from, l)[i] = mb[(from - 1) + i]
    BY <2>1, PartOf
  <2>. QED
    BY <2>1, <2>2, <2>3
<1>2. FrameOf(mb, l) = XORKeyStream(SaltOf(mb), e)
  BY DEF FrameOf
<1>. HIDE DEF e, c
<1>3. /\ FrameOf(mb, l) \in Seq(Bytes) /\ Len(FrameOf(mb, l)) = c
      /\ \A i \in 1..c : /\ FrameOf(mb, l)[i].m = e[i].m
                         /\ FrameOf(mb, l)[i].v = e[i].v
                         /\ FrameOf(mb, l)[i].ks = Flipped(e[i].ks, <<SaltOf(mb), i>>)
  BY <1>1, <1>2, SaltProps, XORProps
<1>. QED
  BY <1>1, <1>3 DEF c

\* What follows the length field is the decrypted frame from its third byte on, and
\* the buffer is still a buffer.
LEMMA DataOfProps ==
  ASSUME NEW mb, IsBuffer(mb), NEW l \in Nat, pktOverhead <= l, l <= maxDatagram
  PROVE  /\ IsBuffer(AfterOf(mb, l))
         /\ DataOf(mb, l) \in Seq(Bytes)
         /\ Len(DataOf(mb, l)) = maxDatagram - pktOverhead
         /\ \A j \in 1..l - pktOverhead : DataOf(mb, l)[j] = FrameOf(mb, l)[2 + j]
<1>. DEFINE salt == SaltOf(mb)
            f == FrameOf(mb, l)
            rest == SubSeq(mb, l + 1, maxDatagram)
            c == l - SaltSize
            t == maxDatagram - l
            after == AfterOf(mb, l)
<1>1. /\ salt \in Seq(Bytes) /\ Len(salt) = SaltSize /\ SaltSize \in Nat
      /\ \A i \in 1..SaltSize : salt[i] \in Plain
  BY Sizes, SaltProps, ElementOfSeq DEF IsBuffer
<1>2. f \in Seq(Bytes) /\ Len(f) = c /\ c \in Nat /\ t \in Nat
  BY FrameOfProps, Sizes
<1>3. rest \in Seq(Bytes) /\ Len(rest) = t
  <2>. DEFINE from == l + 1
  <2>1. /\ from \in Nat \ {0} /\ from <= maxDatagram + 1 /\ maxDatagram <= Len(mb)
        /\ mb \in Seq(Bytes) /\ maxDatagram - from + 1 = t /\ maxDatagram \in Nat
    BY Sizes DEF IsBuffer
  <2>2. rest = SubSeq(mb, from, maxDatagram)
    OBVIOUS
  <2>. HIDE DEF from, rest, t
  <2>3. /\ SubSeq(mb, from, maxDatagram) \in Seq(Bytes)
        /\ Len(SubSeq(mb, from, maxDatagram)) = maxDatagram - from + 1
    BY <2>1, PartOf
  <2>. QED
    BY <2>1, <2>2, <2>3
<1>4. after = (salt \o f) \o rest
  BY DEF AfterOf
<1>. DEFINE sf == salt \o f
            lc == SaltSize + c
<1>5. SaltSize + c = l /\ c + SaltSize = l /\ l + t = maxDatagram /\ lc \in Nat /\ lc = l
  BY <1>1, <1>2, Sizes
<1>. HIDE DEF salt, f, rest, c, t, after
<1>6. /\ sf \in Seq(Bytes) /\ Len(sf) = lc
      /\ \A i \in 1..SaltSize : sf[i] = salt[i]
      /\ \A i \in 1..c : sf[SaltSize + i] = f[i]
  <2>1. sf \in Seq(Bytes) /\ Len(sf) = lc
    BY <1>1, <1>2
  <2>2. \A i \in 1..SaltSize : sf[i] = salt[i]
    BY <1>1, <1>2
  <2>3. \A i \in 1..c : sf[SaltSize + i] = f[i]
    BY <1>1, <1>2
  <2>. QED
    BY <2>1, <2>2, <2>3
<1>. HIDE DEF sf, lc
<1>7. /\ sf \o rest \in Seq(Bytes) /\ Len(sf \o rest) = lc + t
      /\ \A i \in 1..lc : (sf \o rest)[i] = sf[i]
  <2>1. /\ sf \in Seq(Bytes) /\ Len(sf) = lc /\ lc \in Nat
        /\ rest \in Seq(Bytes) /\ Len(rest) = t /\ t \in Nat
    BY <1>2, <1>3, <1>5, <1>6
  <2>2. sf \o rest \in Seq(Bytes) /\ Len(sf \o rest) = lc + t
    BY <2>1
  <2>3. \A i \in 1..lc : (sf \o rest)[i] = sf[i]
    BY <2>1
  <2>. QED
    BY <2>2, <2>3
<1>8. /\ after \in Seq(Bytes) /\ Len(after) = maxDatagram
      /\ \A i \in 1..l : after[i] = sf[i]
  BY <1>4, <1>5, <1>7 DEF sf
<1>9. IsBuffer(after)
  <2>1. \A i \in 1..SaltSize : after[i] = salt[i]
    BY <1>1, <1>2, <1>5, <1>6, <1>8
  <2>. QED
    BY <1>1, <1>8, <2>1 DEF IsBuffer
<1>10. /\ DataOf(mb, l) \in Seq(Bytes) /\ Len(DataOf(mb, l)) = maxDatagram - pktOverhead
       /\ \A j \in 1..maxDatagram - pktOverhead : DataOf(mb, l)[j] = after[pktOverhead + j]
  <2>. DEFINE from == pktOverhead + 1
              d == maxDatagram - pktOverhead
  <2>1. /\ from \in Nat \ {0} /\ from <= maxDatagram + 1 /\ maxDatagram <= Len(after)
        /\ maxDatagram - from + 1 = d /\ from - 1 = pktOverhead /\ maxDatagram \in Nat
    BY <1>8, Sizes
  <2>2. DataOf(mb, l) = SubSeq(after, from, maxDatagram)
    BY DEF DataOf, after
  <2>. HIDE DEF from, d
  <2>3. /\ SubSeq(after, from, maxDatagram) \in Seq(Bytes)
        /\ Len(SubSeq(after, from, maxDatagram)) = maxDatagram - from + 1
        /\ \A i \in 1..maxDatagram - from + 1 :
              SubSeq(after, from, maxDatagram)[i] = after[(from - 1) + i]
    BY <1>8, <2>1, PartOf
  <2>4. /\ DataOf(mb, l) \in Seq(Bytes) /\ Len(DataOf(mb, l)) = d
        /\ \A i \in 1..d : DataOf(mb, l)[i] = after[pktOverhead + i]
    BY <2>1, <2>2, <2>3
  <2>. QED
    BY <2>4 DEF d
<1>11. ASSUME NEW j \in 1..l - pktOverhead PROVE DataOf(mb, l)[j] = f[2 + j]
  <2>1. /\ j \in 1..maxDatagram - pktOverhead /\ pktOverhead + j \in 1..l
        /\ 2 + j \in 1..c /\ pktOverhead + j = SaltSize + (2 + j)
    BY <1>1, <1>2, <1>5, Sizes
  <2>. QED
    BY <1>6, <1>8, <1>10, <2>1
<1>. QED
  BY <1>9, <1>10, <1>11 DEF after, f

\* Decryption undoes encryption: the length field and the payload are found again.
LEMMA OwnDecoded ==
  ASSUME NEW mb, IsBuffer(mb), NEW l \in Nat, NEW g \in Nat, NEW len \in Nat,
         SaltSize + 2 + len <= l, l <= maxDatagram, Carries(mb, g, len)
  PROVE  /\ RealLens(FrameOf(mb, l)) = {len}
         /\ \A i \in 1..len : FrameOf(mb, l)[2 + i] = Byte(g, i)
<1>. DEFINE f == FrameOf(mb, l)
            salt == SaltOf(mb)
            hi == (len \div Base) % Base
            lo == len % Base
            c == l - SaltSize
<1>1. salt = Zeroes(g, SaltSize)
  <2>1. /\ salt \in Seq(Bytes) /\ Len(salt) = SaltSize
        /\ \A i \in 1..SaltSize : salt[i] = Byte(g, 0)
    BY SaltProps DEF Carries
  <2>2. /\ Zeroes(g, SaltSize) \in Seq(Bytes) /\ Len(Zeroes(g, SaltSize)) = SaltSize
        /\ \A i \in 1..SaltSize : Zeroes(g, SaltSize)[i] = Byte(g, 0)
    BY Sizes, ZeroesProps
  <2>. HIDE DEF salt
  <2>. QED
    BY <2>1, <2>2, SeqEqual
<1>2. /\ f \in Seq(Bytes) /\ Len(f) = c
      /\ \A i \in 1..c : /\ f[i] \in Bytes
                         /\ f[i].m = mb[SaltSize + i].m
                         /\ f[i].v = mb[SaltSize + i].v
                         /\ f[i].ks = Flipped(mb[SaltSize + i].ks, <<salt, i>>)
  <2>1. pktOverhead <= l
    BY Sizes
  <2>2. /\ f \in Seq(Bytes) /\ Len(f) = c
        /\ \A i \in 1..c : /\ f[i].m = mb[SaltSize + i].m
                           /\ f[i].v = mb[SaltSize + i].v
                           /\ f[i].ks = Flipped(mb[SaltSize + i].ks, <<salt, i>>)
    BY <2>1, FrameOfProps
  <2>3. \A i \in 1..c : f[i] \in Bytes
    BY <2>2, ElementOfSeq
  <2>. QED
    BY <2>2, <2>3
<1>. HIDE DEF f, salt, c
<1>3. ASSUME NEW i \in 1..c, NEW v \in Nat, mb[SaltSize + i] = Coded(g, i, v)
      PROVE  f[i] = Byte(g, v) /\ f[i].v = v /\ f[i].ks = {}
  <2>1. f[i].m = g /\ f[i].v = v
    <3>1. Coded(g, i, v).m = g /\ Coded(g, i, v).v = v
      BY DEF Coded
    <3>2. f[i].m = mb[SaltSize + i].m /\ f[i].v = mb[SaltSize + i].v
      BY <1>2
    <3>. QED
      BY <1>3, <3>1, <3>2
  <2>2. f[i].ks = {}
    <3>1. mb[SaltSize + i].ks = {<<salt, i>>}
      BY <1>1, <1>3 DEF Coded
    <3>2. \A y : Flipped({y}, y) = {}
      BY DEF Flipped
    <3>. QED
      BY <1>2, <3>1, <3>2
  <2>. QED
    <3>1. /\ Byte(g, v) \in Bytes
          /\ Byte(g, v).m = g /\ Byte(g, v).v = v /\ Byte(g, v).ks = {}
      BY ByteIsPlain
    <3>2. f[i] \in Bytes
      BY <1>2
    <3>3. f[i] = Byte(g, v)
      BY <2>1, <2>2, <3>1, <3>2, SameByte
    <3>. QED
      BY <2>1, <2>2, <3>3
<1>4. 1 \in 1..c /\ 2 \in 1..c /\ \A i \in 1..len : 2 + i \in 1..c
  BY Sizes DEF c
<1>5. hi \in Nat /\ lo \in Nat /\ hi * Base + lo = len
  <2>1. len < Base * Base
    BY Sizes
  <2>2. ((len \div Base) % Base) * Base + (len % Base) = len
    BY <2>1, LengthField
  <2>3. hi \in Nat /\ lo \in Nat
    BY Sizes
  <2>. QED
    BY <2>2, <2>3
<1>6. f[1].v = hi /\ f[1].ks = {} /\ f[2].v = lo /\ f[2].ks = {}
  <2>1. mb[SaltSize + 1] = Coded(g, 1, hi) /\ mb[SaltSize + 2] = Coded(g, 2, lo)
    BY DEF Carries
  <2>. HIDE DEF hi, lo
  <2>. QED
    BY <1>3, <1>4, <1>5, <2>1
<1>. HIDE DEF hi, lo
<1>7. RealLens(f) = {len}
  <2>1. \A i \in 1..pktHdrSize : f[i].ks = {}
    <3>1. \A i \in 1..pktHdrSize : i = 1 \/ i = 2
      BY DEF pktHdrSize
    <3>. QED
      BY <1>6, <3>1
  <2>2. RealLens(f) = {f[1].v * Base + f[2].v}
    BY <2>1 DEF RealLens
  <2>. QED
    BY <1>5, <1>6, <2>2
<1>8. ASSUME NEW i \in 1..len PROVE f[2 + i] = Byte(g, i)
  <2>1. mb[SaltSize + (2 + i)] = Coded(g, 2 + i, i)
    BY DEF Carries
  <2>. QED
    BY <1>3, <1>4, <2>1
<1>. QED
  BY <1>7, <1>8 DEF f
-----------------------------------------------------------------------------
(* The inductive invariant.                                                  *)

Datagrams == [own : BOOLEAN, len : Nat, bytes : Seq(Bytes)]
Errors == {"none", "base", "errShortPacket", "errPacketLen"}

TypeOK ==
  /\ net \in Seq(Datagrams)
  /\ made \subseteq Bufs
  /\ pool \in [Bufs -> Nat]
  /\ DOMAIN mem = Bufs
  /\ \A b \in Bufs : IsBuffer(mem[b])
  /\ rpc \in [Readers -> {"idle", "read", "parse", "put"}]
  /\ room \in [Readers -> Nat]
  /\ buf \in [Readers -> SUBSET Bufs]
  /\ got \in [Readers -> Nat]
  /\ n \in [Readers -> Nat]
  /\ out \in [Readers -> Seq(Bytes)]
  /\ rerr \in [Readers -> Errors]

\* Every byte of a datagram is its own, its salt is plain, and one that WriteTo made
\* carries its payload.
DatagramInv(m) ==
  LET d == net[m] IN
  /\ \A i \in 1..Len(d.bytes) : d.bytes[i].m = m
  /\ \A i \in 1..Len(d.bytes) : i <= SaltSize => d.bytes[i] \in Plain
  /\ d.own => /\ d.len <= maxPktData
              /\ Len(d.bytes) >= SaltSize + 2 + d.len
              /\ Carries(d.bytes, m, d.len)

\* A buffer that was made lies in the pool once or is with one reader.
Exclusive ==
  /\ \A q, r \in Readers : q # r => buf[q] \cap buf[r] = {}
  /\ \A r \in Readers : \A b \in buf[r] : b \in made /\ pool[b] = 0
  /\ \A b \in Bufs : pool[b] <= 1 /\ (pool[b] # 0 => b \in made)

\* What a reader returns of the datagram it has got.
Returned(r) ==
  /\ \A i \in DOMAIN out[r] : out[r][i].m = got[r]
  /\ LET d == net[got[r]] IN d.own =>
       /\ rerr[r] = "none"
       /\ out[r] = Payload(got[r], Smaller(d.len, room[r]))

\* A reader that parses has the datagram in its buffer.
Holds(r) ==
  /\ n[r] = Smaller(Len(net[got[r]].bytes), maxDatagram)
  /\ \A b \in buf[r] : \A i \in 1..n[r] : mem[b][i] = net[got[r]].bytes[i]

ReaderInv(r) ==
  /\ \A a, b \in buf[r] : a = b
  /\ got[r] \in 0..Len(net)
  /\ rpc[r] \in {"idle", "read"} => got[r] = 0
  /\ rpc[r] = "parse" => got[r] # 0 /\ Holds(r)
  /\ rpc[r] = "put" /\ got[r] # 0 => Returned(r)

IInv ==
  /\ TypeOK
  /\ \A m \in 1..Len(net) : DatagramInv(m)
  /\ Exclusive
  /\ \A r \in Readers : ReaderInv(r)

\* The initial state satisfies the inductive invariant.
LEMMA InitIInv == Init => IInv
<1>. SUFFICES ASSUME Init PROVE IInv
  OBVIOUS
<1>1. IsBuffer(Zeroes(0, maxDatagram))
  <2>1. /\ Zeroes(0, maxDatagram) \in Seq(Bytes) /\ Len(Zeroes(0, maxDatagram)) = maxDatagram
        /\ \A i \in 1..maxDatagram : Zeroes(0, maxDatagram)[i] = Byte(0, 0)
    BY ZeroesProps, Sizes
  <2>2. \A i \in 1..SaltSize : i \in 1..maxDatagram
    BY Sizes
  <2>3. Byte(0, 0) \in Plain
    BY ByteIsPlain
  <2>. QED
    BY <2>1, <2>2, <2>3 DEF IsBuffer
<1>2. TypeOK
  <2>1. <<>> \in Seq(Datagrams) /\ <<>> \in Seq(Bytes)
    BY EmptySeq
  <2>2. DOMAIN mem = Bufs /\ \A b \in Bufs : IsBuffer(mem[b])
    <3>. DEFINE z == Zeroes(0, maxDatagram)
    <3>1. mem = [b \in Bufs |-> z] /\ IsBuffer(z)
      BY <1>1 DEF Init
    <3>. HIDE DEF z
    <3>. QED
      BY <3>1
  <2>3. net \in Seq(Datagrams)
    BY <2>1 DEF Init
  <2>4. out \in [Readers -> Seq(Bytes)]
    BY <2>1 DEF Init
  <2>5. buf \in [Readers -> SUBSET Bufs]
    BY DEF Init
  <2>6. /\ rpc \in [Readers -> {"idle", "read", "parse", "put"}]
        /\ room \in [Readers -> Nat] /\ got \in [Readers -> Nat] /\ n \in [Readers -> Nat]
        /\ rerr \in [Readers -> Errors]
    BY DEF Init, Errors
  <2>7. made \subseteq Bufs /\ pool \in [Bufs -> Nat]
    BY DEF Init
  <2>. QED
    BY <2>2, <2>3, <2>4, <2>5, <2>6, <2>7 DEF TypeOK
<1>3. Exclusive
  BY DEF Init, Exclusive
<1>4. \A m \in 1..Len(net) : DatagramInv(m)
  BY DEF Init
<1>5. \A r \in Readers : ReaderInv(r)
  BY DEF Init, ReaderInv
<1>. QED
  BY <1>2, <1>3, <1>4, <1>5 DEF IInv
-----------------------------------------------------------------------------
(* The steps.                                                                *)

\* What a reader holds or has returned does not depend on later datagrams.
LEMMA NetGrows ==
  ASSUME IInv, NEW d \in Datagrams, net' = Append(net, d), UNCHANGED readVars,
         NEW new \in Nat, new = Len(net) + 1, DatagramInv(new)'
  PROVE  IInv'
<1>. USE DEF readVars
<1>. DEFINE l == Len(net)
<1>1. /\ l \in Nat /\ net \in Seq(Datagrams)
  BY DEF IInv, TypeOK
<1>2. /\ net' \in Seq(Datagrams) /\ Len(net') = l + 1
      /\ \A m \in 1..l : net'[m] = net[m]
  BY <1>1, AppendProperties
<1>. HIDE DEF l
<1>3. TypeOK'
  BY <1>2 DEF IInv, TypeOK
<1>4. Exclusive'
  BY DEF IInv, Exclusive
<1>5. ASSUME NEW m \in 1..Len(net') PROVE DatagramInv(m)'
  <2>1. CASE m \in 1..l
    <3>1. DatagramInv(m)
      BY <2>1 DEF IInv, l
    <3>. QED
      BY <1>2, <2>1, <3>1 DEF DatagramInv
  <2>2. CASE m = l + 1
    <3>1. m = new
      BY <2>2 DEF l
    <3>. QED
      BY <3>1
  <2>. QED
    BY <1>1, <1>2, <2>1, <2>2
<1>6. ASSUME NEW r \in Readers PROVE ReaderInv(r)'
  <2>1. ReaderInv(r) /\ got[r] \in 0..l /\ got' = got /\ got[r] \in Nat
    BY DEF IInv, TypeOK, ReaderInv, l
  <2>2. got[r] # 0 => got[r] \in 1..l
    BY <1>1, <2>1
  <2>3. got[r] # 0 => net'[got[r]] = net[got[r]]
    BY <1>2, <2>2
  <2>4. got'[r] \in 0..Len(net')
    BY <1>1, <1>2, <2>1
  <2>5. got[r] # 0 /\ Holds(r) => Holds(r)'
    <3>. SUFFICES ASSUME got[r] # 0, Holds(r) PROVE Holds(r)'
      OBVIOUS
    <3>1. /\ n[r] = Smaller(Len(net[got[r]].bytes), maxDatagram)
          /\ \A b \in buf[r] : \A i \in 1..n[r] : mem[b][i] = net[got[r]].bytes[i]
      BY DEF Holds
    <3>2. n' = n /\ buf' = buf /\ mem' = mem /\ got' = got /\ net'[got[r]] = net[got[r]]
      BY <2>3
    <3>3. n'[r] = n[r] /\ buf'[r] = buf[r] /\ got'[r] = got[r]
      BY <3>2
    <3>4. net'[got'[r]] = net[got[r]]
      BY <3>2
    <3>5. n'[r] = Smaller(Len(net'[got'[r]].bytes), maxDatagram)
      BY <3>1, <3>3, <3>4
    <3>6. \A b \in buf'[r] : \A i \in 1..n'[r] : mem'[b][i] = net'[got'[r]].bytes[i]
      BY <3>1, <3>2, <3>3, <3>4
    <3>. QED
      BY <3>5, <3>6 DEF Holds
  <2>6. got[r] # 0 /\ Returned(r) => Returned(r)'
    BY <2>3 DEF Returned
  <2>. QED
    BY <2>1, <2>4, <2>5, <2>6 DEF ReaderInv
<1>. QED
  BY <1>3, <1>4, <1>5, <1>6 DEF IInv

\* A datagram of WriteTo.
LEMMA WriteStep ==
  ASSUME IInv, NEW k \in Lengths, NEW s \in Samples, WriteTo(k, s),
         NEW m \in Nat, m = Len(net) + 1,
         net' = Append(net, [own |-> TRUE, len |-> k, bytes |-> Datagram(m, k, s)])
  PROVE  IInv'
<1>. DEFINE y == Datagram(m, k, s)
            d == [own |-> TRUE, len |-> k, bytes |-> y]
<1>1. k \in Nat /\ s \in Nat /\ k <= maxPktData /\ Len(net) \in Nat
      /\ net \in Seq(Datagrams)
  BY PacketAssumption DEF WriteTo, IInv, TypeOK
<1>2. UNCHANGED readVars /\ net' = Append(net, d)
  BY DEF WriteTo
<1>3. /\ y \in Seq(Bytes) /\ Len(y) >= SaltSize + 2 + k
      /\ \A i \in 1..Len(y) : y[i].m = m
      /\ Carries(y, m, k)
  BY <1>1, WriteMakes
<1>. HIDE DEF y
<1>4. d \in Datagrams /\ d.own /\ d.len = k /\ d.bytes = y
  BY <1>1, <1>3 DEF Datagrams
<1>. HIDE DEF d
<1>5. net'[m] = d
  BY <1>1, <1>2, <1>4, AppendProperties
<1>6. \A i \in 1..Len(y) : i <= SaltSize => y[i] \in Plain
  <2>1. Byte(m, 0) \in Plain
    BY <1>1, ByteIsPlain
  <2>2. \A i \in 1..Len(y) : i <= SaltSize => i \in 1..SaltSize
    BY Sizes
  <2>. QED
    BY <1>3, <2>1, <2>2 DEF Carries
<1>7. DatagramInv(m)'
  <2>1. net'[m].bytes = y /\ net'[m].len = k
    BY <1>4, <1>5
  <2>. QED
    BY <1>1, <1>3, <1>6, <2>1, Zenon DEF DatagramInv
<1>. QED
  BY <1>2, <1>4, <1>7, NetGrows

\* A datagram of somebody else.
LEMMA ForeignStep ==
  ASSUME IInv, NEW k \in Foreign, ForeignSent(k), NEW m \in Nat, m = Len(net) + 1
  PROVE  IInv'
<1>. DEFINE y == Zeroes(m, k)
            d == [own |-> FALSE, len |-> 0, bytes |-> y]
<1>1. k \in Nat /\ Len(net) \in Nat /\ net \in Seq(Datagrams)
  BY PacketAssumption DEF IInv, TypeOK
<1>2. UNCHANGED readVars /\ net' = Append(net, d)
  BY DEF ForeignSent
<1>3. /\ y \in Seq(Bytes) /\ Len(y) = k /\ \A i \in 1..k : y[i] = Byte(m, 0)
  BY <1>1, ZeroesProps
<1>. HIDE DEF y
<1>4. d \in Datagrams /\ ~d.own /\ d.bytes = y
  BY <1>3 DEF Datagrams
<1>. HIDE DEF d
<1>5. net'[m] = d
  BY <1>1, <1>2, <1>4, AppendProperties
<1>6. Byte(m, 0) \in Plain /\ Byte(m, 0).m = m
  BY <1>1, ByteIsPlain
<1>7. DatagramInv(m)'
  BY <1>3, <1>4, <1>5, <1>6 DEF DatagramInv
<1>. QED
  BY <1>2, <1>4, <1>7, NetGrows

\* Nothing of reader q changes.
SameReader(q) ==
  /\ rpc'[q] = rpc[q] /\ room'[q] = room[q] /\ buf'[q] = buf[q] /\ got'[q] = got[q]
  /\ n'[q] = n[q] /\ out'[q] = out[q] /\ rerr'[q] = rerr[q]

\* A reader that writes to no buffer but its own disturbs nobody.
LEMMA OneReader ==
  ASSUME IInv, NEW r \in Readers, net' = net, TypeOK', Exclusive', ReaderInv(r)',
         \A q \in Readers \ {r} : SameReader(q),
         \A b \in Bufs \ buf[r] : mem'[b] = mem[b]
  PROVE  IInv'
<1>1. ASSUME NEW m \in 1..Len(net') PROVE DatagramInv(m)'
  BY <1>1 DEF IInv, DatagramInv
<1>2. ASSUME NEW q \in Readers \ {r} PROVE ReaderInv(q)'
  <2>1. SameReader(q) /\ ReaderInv(q)
    BY DEF IInv
  <2>2. \A b \in buf[q] : mem'[b] = mem[b]
    BY DEF IInv, Exclusive, TypeOK
  <2>3. Holds(q) => Holds(q)'
    <3>. SUFFICES ASSUME Holds(q) PROVE Holds(q)'
      OBVIOUS
    <3>1. /\ n[q] = Smaller(Len(net[got[q]].bytes), maxDatagram)
          /\ \A b \in buf[q] : \A i \in 1..n[q] : mem[b][i] = net[got[q]].bytes[i]
      BY DEF Holds
    <3>2. n'[q] = n[q] /\ buf'[q] = buf[q] /\ got'[q] = got[q]
      BY <2>1 DEF SameReader
    <3>. QED
      <4>1. n'[q] = Smaller(Len(net'[got'[q]].bytes), maxDatagram)
        BY <3>1, <3>2
      <4>2. ASSUME NEW b \in buf'[q], NEW i \in 1..n'[q]
            PROVE  mem'[b][i] = net'[got'[q]].bytes[i]
        BY <2>2, <3>1, <3>2
      <4>. QED
        BY <4>1, <4>2 DEF Holds
  <2>4. Returned(q) => Returned(q)'
    BY <2>1 DEF SameReader, Returned
  <2>5. rpc'[q] = rpc[q] /\ got'[q] = got[q] /\ buf'[q] = buf[q]
    BY <2>1 DEF SameReader
  <2>. QED
    BY <2>1, <2>3, <2>4, <2>5 DEF ReaderInv
<1>. QED
  BY <1>1, <1>2 DEF IInv

\* A buffer is taken from the pool, or made, and so no other reader has it.
LEMMA GetStep ==
  ASSUME IInv, NEW r \in Readers, NEW b \in Bufs, NEW k \in Rooms, Get(r, b, k)
  PROVE  IInv'
<1>1. /\ rpc[r] = "idle"
      /\ room' = [room EXCEPT ![r] = k] /\ buf' = [buf EXCEPT ![r] = {b}]
      /\ rpc' = [rpc EXCEPT ![r] = "read"]
      /\ UNCHANGED <<net, werr, mem, got, n, out, rerr>>
  BY DEF Get
<1>2. /\ \A q \in Readers : b \notin buf[q]
      /\ made' \subseteq Bufs /\ pool' \in [Bufs -> Nat]
      /\ made' = made \cup {b} /\ pool'[b] = 0 /\ \A a \in Bufs \ {b} : pool'[a] = pool[a]
  <2>1. CASE pool[b] > 0 /\ pool' = [pool EXCEPT ![b] = @ - 1] /\ UNCHANGED made
    <3>1. pool[b] = 1 /\ b \in made
      BY <2>1 DEF IInv, TypeOK, Exclusive
    <3>. QED
      BY <2>1, <3>1 DEF IInv, TypeOK, Exclusive
  <2>2. CASE b \notin made /\ made' = made \cup {b} /\ UNCHANGED pool
    <3>1. pool[b] = 0
      BY <2>2 DEF IInv, TypeOK, Exclusive
    <3>. QED
      BY <2>2, <3>1 DEF IInv, TypeOK, Exclusive
  <2>. QED
    BY <2>1, <2>2 DEF Get
<1>3. TypeOK'
  <2>1. k \in Nat
    BY PacketAssumption
  <2>2. buf' \in [Readers -> SUBSET Bufs]
    BY <1>1 DEF IInv, TypeOK
  <2>3. room' \in [Readers -> Nat] /\ rpc' \in [Readers -> {"idle", "read", "parse", "put"}]
    BY <1>1, <2>1 DEF IInv, TypeOK
  <2>. QED
    BY <1>1, <1>2, <2>2, <2>3 DEF IInv, TypeOK
<1>4. Exclusive'
  <2>1. \A q \in Readers : buf'[q] = IF q = r THEN {b} ELSE buf[q]
    BY <1>1 DEF IInv, TypeOK
  <2>2. \A q \in Readers : buf[q] \subseteq Bufs
    BY DEF IInv, TypeOK
  <2>. QED
    BY <1>2, <2>1, <2>2 DEF IInv, Exclusive
<1>5. \A q \in Readers \ {r} : SameReader(q)
  BY <1>1 DEF IInv, TypeOK, SameReader
<1>6. ReaderInv(r)'
  <2>1. rpc'[r] = "read" /\ buf'[r] = {b} /\ got'[r] = got[r] /\ got[r] = 0 /\ net' = net
    BY <1>1 DEF IInv, TypeOK, ReaderInv
  <2>2. got[r] \in 0..Len(net)
    BY DEF IInv, ReaderInv
  <2>. QED
    BY <2>1, <2>2 DEF ReaderInv
<1>. QED
  BY <1>1, <1>3, <1>4, <1>5, <1>6, OneReader

\* The buffer goes back to the pool.
LEMMA PutStep ==
  ASSUME IInv, NEW r \in Readers, Put(r)
  PROVE  IInv'
<1>1. /\ buf' = [buf EXCEPT ![r] = {}] /\ room' = [room EXCEPT ![r] = 0]
      /\ got' = [got EXCEPT ![r] = 0] /\ n' = [n EXCEPT ![r] = 0]
      /\ out' = [out EXCEPT ![r] = <<>>] /\ rerr' = [rerr EXCEPT ![r] = "none"]
      /\ rpc' = [rpc EXCEPT ![r] = "idle"]
      /\ pool' = [b \in Bufs |-> IF b \in buf[r] THEN pool[b] + 1 ELSE pool[b]]
      /\ UNCHANGED <<net, mem, made>>
  BY DEF Put
<1>2. TypeOK'
  <2>1. <<>> \in Seq(Bytes) /\ "none" \in Errors
    BY EmptySeq DEF Errors
  <2>2. buf' \in [Readers -> SUBSET Bufs]
    BY <1>1 DEF IInv, TypeOK
  <2>3. out' \in [Readers -> Seq(Bytes)] /\ rerr' \in [Readers -> Errors]
    BY <1>1, <2>1 DEF IInv, TypeOK
  <2>4. /\ room' \in [Readers -> Nat] /\ got' \in [Readers -> Nat] /\ n' \in [Readers -> Nat]
        /\ rpc' \in [Readers -> {"idle", "read", "parse", "put"}]
    BY <1>1 DEF IInv, TypeOK
  <2>5. pool' \in [Bufs -> Nat]
    BY <1>1 DEF IInv, TypeOK
  <2>. QED
    BY <1>1, <2>2, <2>3, <2>4, <2>5 DEF IInv, TypeOK
<1>3. Exclusive'
  <2>1. \A q \in Readers : buf'[q] = IF q = r THEN {} ELSE buf[q]
    BY <1>1 DEF IInv, TypeOK
  <2>2. \A q \in Readers : buf[q] \subseteq Bufs
    BY DEF IInv, TypeOK
  <2>3. ASSUME NEW b \in Bufs PROVE pool'[b] <= 1 /\ (pool'[b] # 0 => b \in made)
    <3>1. CASE b \in buf[r]
      BY <1>1, <3>1 DEF IInv, TypeOK, Exclusive
    <3>2. CASE b \notin buf[r]
      BY <1>1, <3>2 DEF IInv, TypeOK, Exclusive
    <3>. QED
      BY <3>1, <3>2
  <2>4. ASSUME NEW q \in Readers, q # r, NEW b \in buf[q] PROVE b \in made /\ pool'[b] = 0
    <3>1. b \in Bufs /\ b \notin buf[r]
      BY <2>2, <2>4 DEF IInv, Exclusive
    <3>. QED
      BY <1>1, <2>4, <3>1 DEF IInv, Exclusive
  <2>. QED
    BY <1>1, <2>1, <2>3, <2>4 DEF IInv, Exclusive
<1>4. \A q \in Readers \ {r} : SameReader(q)
  BY <1>1 DEF IInv, TypeOK, SameReader
<1>5. ReaderInv(r)'
  <2>1. rpc'[r] = "idle" /\ buf'[r] = {} /\ got'[r] = 0 /\ net' = net /\ Len(net) \in Nat
    BY <1>1 DEF IInv, TypeOK
  <2>. QED
    BY <2>1 DEF ReaderInv
<1>. QED
  BY <1>1, <1>2, <1>3, <1>4, <1>5, OneReader

\* ReadFrom returns: its own buffer may have been decrypted, and what it returns is
\* the reader's affair.
LEMMA ReturnStep ==
  ASSUME IInv, NEW r \in Readers, NEW data \in Seq(Bytes), NEW err \in Errors,
         Return(r, data, err),
         DOMAIN mem' = Bufs, \A b \in Bufs : IsBuffer(mem'[b]),
         \A b \in Bufs \ buf[r] : mem'[b] = mem[b],
         got[r] # 0 =>
           /\ \A i \in 1..Len(data) : data[i].m = got[r]
           /\ net[got[r]].own =>
                err = "none" /\ data = Payload(got[r], Smaller(net[got[r]].len, room[r]))
  PROVE  IInv'
<1>1. /\ out' = [out EXCEPT ![r] = data] /\ rerr' = [rerr EXCEPT ![r] = err]
      /\ rpc' = [rpc EXCEPT ![r] = "put"]
      /\ UNCHANGED <<net, made, pool, room, buf, got, n>>
  BY DEF Return
<1>2. TypeOK'
  <2>1. out' \in [Readers -> Seq(Bytes)] /\ rerr' \in [Readers -> Errors]
    BY <1>1 DEF IInv, TypeOK
  <2>2. rpc' \in [Readers -> {"idle", "read", "parse", "put"}]
    BY <1>1 DEF IInv, TypeOK
  <2>3. \A b \in Bufs : IsBuffer(mem[b])'
    BY DEF IsBuffer
  <2>. QED
    BY <1>1, <2>1, <2>2, <2>3 DEF IInv, TypeOK
<1>3. Exclusive'
  BY <1>1 DEF IInv, Exclusive
<1>4. \A q \in Readers \ {r} : SameReader(q)
  BY <1>1 DEF IInv, TypeOK, SameReader
<1>5. ReaderInv(r)'
  <2>1. out'[r] = data /\ rerr'[r] = err /\ rpc'[r] = "put"
    BY <1>1 DEF IInv, TypeOK
  <2>2. DOMAIN data = 1..Len(data)
    BY LenProperties
  <2>3. got[r] # 0 => Returned(r)'
    BY <1>1, <2>1, <2>2 DEF Returned
  <2>4. got[r] \in 0..Len(net) /\ \A a, b \in buf[r] : a = b
    BY DEF IInv, ReaderInv
  <2>. QED
    BY <1>1, <2>1, <2>3, <2>4 DEF ReaderInv
<1>. QED
  BY <1>1, <1>2, <1>3, <1>4, <1>5, OneReader

\* The base fills the front of the reader's buffer with the datagram.
LEMMA BaseReadStep ==
  ASSUME IInv, NEW r \in Readers, NEW b \in Bufs, NEW m \in 1..Len(net), BaseReadFrom(r, b, m)
  PROVE  IInv'
<1>. DEFINE bs == net[m].bytes
            k == Smaller(Len(bs), maxDatagram)
            mb == mem[b]
            t == maxDatagram - k
            head == SubSeq(bs, 1, k)
            rest == SubSeq(mb, k + 1, maxDatagram)
            new == head \o rest
<1>1. /\ rpc[r] = "read" /\ b \in buf[r] /\ mem' = [mem EXCEPT ![b] = new]
      /\ got' = [got EXCEPT ![r] = m] /\ n' = [n EXCEPT ![r] = k]
      /\ rpc' = [rpc EXCEPT ![r] = "parse"]
      /\ UNCHANGED <<net, made, pool, room, buf, out, rerr>>
  BY DEF BaseReadFrom
<1>2. /\ bs \in Seq(Bytes) /\ IsBuffer(mb) /\ m \in Nat /\ m # 0
      /\ \A i \in 1..Len(bs) : i <= SaltSize => bs[i] \in Plain
  <2>1. net[m] \in Datagrams
    BY ElementOfSeq DEF IInv, TypeOK
  <2>2. m \in Nat /\ m # 0
    BY DEF IInv, TypeOK
  <2>. QED
    BY <2>1, <2>2 DEF IInv, TypeOK, DatagramInv, Datagrams
<1>3. k \in Nat /\ t \in Nat /\ k <= Len(bs) /\ k <= maxDatagram /\ k + t = maxDatagram
  BY <1>2, Sizes DEF Smaller
<1>. HIDE DEF bs, mb, k, t
<1>4. head \in Seq(Bytes) /\ Len(head) = k /\ \A i \in 1..k : head[i] = bs[i]
  <2>. DEFINE from == 1
  <2>1. from \in Nat \ {0} /\ from <= k + 1 /\ k - from + 1 = k /\ from - 1 = 0
    BY <1>3
  <2>2. head = SubSeq(bs, from, k)
    OBVIOUS
  <2>. HIDE DEF from, head
  <2>3. /\ SubSeq(bs, from, k) \in Seq(Bytes)
        /\ Len(SubSeq(bs, from, k)) = k - from + 1
        /\ \A i \in 1..k - from + 1 : SubSeq(bs, from, k)[i] = bs[(from - 1) + i]
    BY <1>2, <1>3, <2>1, PartOf
  <2>4. \A i \in 1..k : 0 + i = i
    OBVIOUS
  <2>. QED
    BY <2>1, <2>2, <2>3, <2>4
<1>5. rest \in Seq(Bytes) /\ Len(rest) = t /\ \A i \in 1..t : rest[i] = mb[k + i]
  <2>. DEFINE from == k + 1
  <2>1. /\ from \in Nat \ {0} /\ from <= maxDatagram + 1 /\ maxDatagram <= Len(mb)
        /\ mb \in Seq(Bytes) /\ maxDatagram - from + 1 = t /\ maxDatagram \in Nat
        /\ from - 1 = k
    BY <1>2, <1>3, Sizes DEF IsBuffer
  <2>2. rest = SubSeq(mb, from, maxDatagram)
    OBVIOUS
  <2>. HIDE DEF from, rest
  <2>3. /\ SubSeq(mb, from, maxDatagram) \in Seq(Bytes)
        /\ Len(SubSeq(mb, from, maxDatagram)) = maxDatagram - from + 1
        /\ \A i \in 1..maxDatagram - from + 1 :
             SubSeq(mb, from, maxDatagram)[i] = mb[(from - 1) + i]
    BY <2>1, PartOf
  <2>. QED
    BY <2>1, <2>2, <2>3
<1>. HIDE DEF head, rest
<1>6. /\ new \in Seq(Bytes) /\ Len(new) = k + t
      /\ \A i \in 1..k : new[i] = head[i]
      /\ \A i \in 1..t : new[k + i] = rest[i]
  <2>1. /\ head \in Seq(Bytes) /\ Len(head) = k /\ k \in Nat
        /\ rest \in Seq(Bytes) /\ Len(rest) = t /\ t \in Nat
    BY <1>3, <1>4, <1>5
  <2>2. new \in Seq(Bytes) /\ Len(new) = k + t
    BY <2>1
  <2>3. \A i \in 1..k : new[i] = head[i]
    BY <2>1
  <2>4. \A i \in 1..t : new[k + i] = rest[i]
    BY <2>1
  <2>. QED
    BY <2>2, <2>3, <2>4
<1>. HIDE DEF new
<1>7. IsBuffer(new)
  <2>1. ASSUME NEW i \in 1..SaltSize PROVE new[i] \in Plain
    <3>1. CASE i <= k
      <4>1. i \in 1..k /\ i \in 1..Len(bs) /\ i <= SaltSize
        BY <1>2, <1>3, <3>1, Sizes
      <4>. QED
        BY <1>2, <1>4, <1>6, <4>1
    <3>2. CASE i > k
      <4>1. i - k \in 1..t /\ k + (i - k) = i
        BY <1>3, <3>2, Sizes
      <4>2. mb[i] \in Plain
        BY <1>2 DEF IsBuffer
      <4>. QED
        BY <1>5, <1>6, <4>1, <4>2
    <3>. QED
      BY <1>3, <3>1, <3>2, Sizes
  <2>. QED
    BY <1>3, <1>6, <2>1 DEF IsBuffer
<1>8. /\ DOMAIN mem' = Bufs /\ mem'[b] = new /\ \A a \in Bufs \ {b} : mem'[a] = mem[a]
  BY <1>1 DEF IInv, TypeOK
<1>9. TypeOK'
  <2>1. \A a \in Bufs : IsBuffer(mem[a])'
    <3>. TAKE a \in Bufs
    <3>1. CASE a = b
      BY <1>7, <1>8, <3>1 DEF IsBuffer
    <3>2. CASE a # b
      BY <1>8, <3>2 DEF IsBuffer, IInv, TypeOK
    <3>. QED
      BY <3>1, <3>2
  <2>2. got' \in [Readers -> Nat] /\ n' \in [Readers -> Nat]
    BY <1>1, <1>2, <1>3 DEF IInv, TypeOK
  <2>3. rpc' \in [Readers -> {"idle", "read", "parse", "put"}]
    BY <1>1 DEF IInv, TypeOK
  <2>. QED
    BY <1>1, <1>8, <2>1, <2>2, <2>3 DEF IInv, TypeOK
<1>10. Exclusive'
  BY <1>1 DEF IInv, Exclusive
<1>11. \A q \in Readers \ {r} : SameReader(q)
  BY <1>1 DEF IInv, TypeOK, SameReader
<1>12. ReaderInv(r)'
  <2>1. got'[r] = m /\ n'[r] = k /\ rpc'[r] = "parse" /\ buf'[r] = buf[r] /\ net' = net
    BY <1>1 DEF IInv, TypeOK
  <2>2. \A a, e \in buf[r] : a = e
    BY DEF IInv, ReaderInv
  <2>3. m \in 0..Len(net)
    BY <1>2 DEF IInv, TypeOK
  <2>4. Holds(r)'
    <3>1. n'[r] = Smaller(Len(net'[got'[r]].bytes), maxDatagram)
      BY <2>1 DEF k, bs
    <3>2. ASSUME NEW a \in buf'[r], NEW i \in 1..n'[r]
          PROVE  mem'[a][i] = net'[got'[r]].bytes[i]
      <4>1. a = b
        BY <1>1, <2>1, <2>2
      <4>2. new[i] = bs[i]
        BY <1>4, <1>6, <2>1
      <4>. QED
        BY <1>8, <2>1, <4>1, <4>2 DEF bs
    <3>. QED
      BY <3>1, <3>2 DEF Holds
  <2>. QED
    BY <1>2, <2>1, <2>2, <2>3, <2>4 DEF ReaderInv
<1>13. \A a \in Bufs \ buf[r] : mem'[a] = mem[a]
  BY <1>1, <1>8
<1>. QED
  BY <1>1, <1>9, <1>10, <1>11, <1>12, <1>13, OneReader

\* What the first k bytes behind the length field are, when the frame is so long.
LEMMA CopiedProps ==
  ASSUME NEW mb, IsBuffer(mb), NEW l \in Nat, pktOverhead <= l, l <= maxDatagram,
         NEW k \in Nat, k <= l - pktOverhead
  PROVE  /\ SubSeq(DataOf(mb, l), 1, k) \in Seq(Bytes)
         /\ Len(SubSeq(DataOf(mb, l), 1, k)) = k
         /\ \A i \in 1..k : SubSeq(DataOf(mb, l), 1, k)[i] = FrameOf(mb, l)[2 + i]
<1>. DEFINE d == DataOf(mb, l)
            from == 1
<1>1. /\ d \in Seq(Bytes) /\ k <= Len(d)
      /\ \A j \in 1..l - pktOverhead : d[j] = FrameOf(mb, l)[2 + j]
  <2>1. /\ d \in Seq(Bytes) /\ Len(d) = maxDatagram - pktOverhead
        /\ \A j \in 1..l - pktOverhead : d[j] = FrameOf(mb, l)[2 + j]
    BY DataOfProps
  <2>. HIDE DEF d
  <2>. QED
    BY <2>1, Sizes
<1>2. from \in Nat \ {0} /\ from <= k + 1 /\ k - from + 1 = k /\ from - 1 = 0
  OBVIOUS
<1>3. \A i \in 1..k : 0 + i = i /\ i \in 1..l - pktOverhead
  BY Sizes
<1>. HIDE DEF d, from
<1>4. /\ SubSeq(d, from, k) \in Seq(Bytes)
      /\ Len(SubSeq(d, from, k)) = k - from + 1
      /\ \A i \in 1..k - from + 1 : SubSeq(d, from, k)[i] = d[(from - 1) + i]
  BY <1>1, <1>2, PartOf
<1>5. /\ SubSeq(d, from, k) \in Seq(Bytes) /\ Len(SubSeq(d, from, k)) = k
      /\ \A i \in 1..k : SubSeq(d, from, k)[i] = FrameOf(mb, l)[2 + i]
  BY <1>1, <1>2, <1>3, <1>4
<1>. QED
  BY <1>5 DEF d, from

\* The datagram is decrypted and copied: the payload of an own one, no byte of
\* another one.
LEMMA ParseStep ==
  ASSUME IInv, NEW r \in Readers, NEW b \in Bufs, Parse(r, b)
  PROVE  IInv'
<1>. DEFINE g == got[r]
            d == net[g]
            bs == d.bytes
            mb == mem[b]
            l == n[r]
<1>1. rpc[r] = "parse" /\ b \in buf[r]
  BY DEF Parse
<1>2. /\ g \in 1..Len(net) /\ g \in Nat /\ g # 0
      /\ l = Smaller(Len(bs), maxDatagram)
      /\ \A i \in 1..l : mb[i] = bs[i]
      /\ IsBuffer(mb)
  <2>1. g # 0 /\ Holds(r) /\ g \in 0..Len(net) /\ g \in Nat /\ Len(net) \in Nat
    BY <1>1 DEF IInv, TypeOK, ReaderInv
  <2>2. g \in 1..Len(net)
    BY <2>1
  <2>. QED
    BY <1>1, <2>1, <2>2 DEF Holds, IInv, TypeOK
<1>3. d \in Datagrams /\ DatagramInv(g)
  BY <1>2, ElementOfSeq DEF IInv, TypeOK
<1>4. /\ bs \in Seq(Bytes) /\ d.own \in BOOLEAN /\ d.len \in Nat /\ Len(bs) \in Nat
      /\ \A i \in 1..Len(bs) : bs[i].m = g
      /\ d.own => /\ d.len <= maxPktData /\ Len(bs) >= SaltSize + 2 + d.len
                  /\ Carries(bs, g, d.len)
  BY <1>3 DEF Datagrams, DatagramInv
<1>5. l \in Nat /\ l <= maxDatagram /\ l <= Len(bs) /\ room[r] \in Nat
  BY <1>2, <1>4, Sizes DEF Smaller, IInv, TypeOK
<1>6. d.own => SaltSize + 2 + d.len <= l /\ Carries(mb, g, d.len)
  <2>. SUFFICES ASSUME d.own
                PROVE  SaltSize + 2 + d.len <= l /\ Carries(mb, g, d.len)
    OBVIOUS
  <2>. DEFINE len == d.len
  <2>1. len \in Nat /\ len <= maxPktData /\ Len(bs) >= SaltSize + 2 + len /\ Carries(bs, g, len)
    BY <1>4
  <2>. HIDE DEF g, d, bs, mb, l, len
  <2>2. SaltSize + 2 + len <= l
    BY <1>2, <1>4, <2>1, Sizes DEF Smaller
  <2>3. /\ \A i \in 1..SaltSize : i \in 1..l
        /\ SaltSize + 1 \in 1..l /\ SaltSize + 2 \in 1..l
        /\ \A i \in 1..len : SaltSize + (2 + i) \in 1..l
    BY <1>5, <2>1, <2>2, Sizes
  <2>4. Carries(mb, g, len)
    BY <1>2, <2>1, <2>3, Zenon DEF Carries
  <2>. QED
    BY <2>2, <2>4 DEF len
<1>. HIDE DEF g, d, bs, mb, l
<1>7. CASE l < pktOverhead
  <2>1. Return(r, <<>>, "errShortPacket") /\ mem' = mem
    BY <1>7 DEF Parse, l
  <2>2. ~d.own
    BY <1>4, <1>5, <1>6, <1>7, Sizes
  <2>3. <<>> \in Seq(Bytes) /\ Len(<<>>) = 0 /\ "errShortPacket" \in Errors
    BY EmptySeq DEF Errors
  <2>4. DOMAIN mem' = Bufs /\ \A a \in Bufs : IsBuffer(mem'[a])
    BY <2>1 DEF IInv, TypeOK
  <2>5. \A i \in 1..Len(<<>>) : <<>>[i].m = got[r]
    BY <2>3
  <2>6. ~net[got[r]].own
    BY <2>2 DEF d, g
  <2>. QED
    BY <2>1, <2>3, <2>4, <2>5, <2>6, ReturnStep
<1>8. CASE ~(l < pktOverhead)
  <2>. DEFINE f == FrameOf(mb, l)
              after == AfterOf(mb, l)
              data == DataOf(mb, l)
  <2>1. pktOverhead <= l
    BY <1>5, <1>8, Sizes
  <2>2. /\ mem' = [mem EXCEPT ![b] = after]
        /\ \E k \in RealLens(f) :
             IF Fits(k, f)
             THEN Return(r, SubSeq(data, 1, Smaller(k, room[r])), "none")
             ELSE Return(r, <<>>, "errPacketLen")
    BY <1>8 DEF Parse, l, mb, FrameOf, AfterOf, DataOf, SaltOf
  <2>3. /\ IsBuffer(after) /\ f \in Seq(Bytes) /\ Len(f) = l - SaltSize
        /\ \A i \in 1..l - SaltSize : f[i].m = mb[SaltSize + i].m
    BY <1>2, <1>5, <2>1, DataOfProps, FrameOfProps
  <2>. HIDE DEF after
  <2>4. /\ DOMAIN mem' = Bufs /\ \A a \in Bufs : IsBuffer(mem'[a])
        /\ \A a \in Bufs \ buf[r] : mem'[a] = mem[a]
    BY <1>1, <2>2, <2>3 DEF IInv, TypeOK
  <2>5. PICK k \in RealLens(f) : IF Fits(k, f)
             THEN Return(r, SubSeq(data, 1, Smaller(k, room[r])), "none")
             ELSE Return(r, <<>>, "errPacketLen")
    BY <2>2
  <2>6. d.own => k = d.len /\ \A i \in 1..d.len : f[2 + i] = Byte(g, i)
    BY <1>2, <1>4, <1>5, <1>6, OwnDecoded
  <2>7. d.own => Fits(k, f)
    <3>. DEFINE c == Len(f)
    <3>1. c = l - SaltSize
      BY <2>3
    <3>. HIDE DEF c, f
    <3>2. d.own => k <= c - 2
      BY <1>4, <1>5, <1>6, <2>6, <3>1, Sizes
    <3>. QED
      BY <3>2 DEF Fits, pktHdrSize, c
  <2>8. CASE ~Fits(k, f)
    <3>1. Return(r, <<>>, "errPacketLen")
      BY <2>5, <2>8
    <3>2. <<>> \in Seq(Bytes) /\ Len(<<>>) = 0 /\ "errPacketLen" \in Errors
      BY EmptySeq DEF Errors
    <3>3. \A i \in 1..Len(<<>>) : <<>>[i].m = got[r]
      BY <3>2
    <3>4. ~net[got[r]].own
      BY <2>7, <2>8 DEF d, g
    <3>. QED
      BY <2>4, <3>1, <3>2, <3>3, <3>4, ReturnStep
  <2>9. CASE Fits(k, f)
    <3>. DEFINE o == Smaller(k, room[r])
                res == SubSeq(data, 1, o)
    <3>1. Return(r, res, "none") /\ "none" \in Errors
      BY <2>5, <2>9 DEF Errors
    <3>2. k \in Nat
      \* A length field holds two bytes, or anything up to Base^2 - 1.
      <4>1. f[1].v \in Nat /\ f[2].v \in Nat
        <5>1. 1 \in 1..Len(f) /\ 2 \in 1..Len(f)
          <6>. DEFINE c == Len(f)
          <6>1. c = l - SaltSize
            BY <2>3
          <6>. HIDE DEF c, f
          <6>2. 1 \in 1..c /\ 2 \in 1..c
            BY <1>5, <2>1, <6>1, Sizes
          <6>. QED
            BY <6>2 DEF c
        <5>2. f[1] \in Bytes /\ f[2] \in Bytes
          BY <2>3, <5>1, ElementOfSeq
        <5>. QED
          BY <5>2 DEF Bytes
      <4>. HIDE DEF f
      <4>2. f[1].v * Base + f[2].v \in Nat
        BY <4>1, Sizes
      <4>3. k = f[1].v * Base + f[2].v \/ k \in 0..Base * Base - 1
        BY DEF RealLens
      <4>. QED
        BY <4>2, <4>3, Sizes
    <3>3. o \in Nat /\ o <= k /\ o <= room[r] /\ o <= l - pktOverhead
      <4>. DEFINE c == Len(f)
      <4>1. c = l - SaltSize /\ k <= c - 2
        BY <2>3, <2>9 DEF Fits, pktHdrSize
      <4>. HIDE DEF c, f
      <4>. QED
        BY <1>5, <3>2, <4>1, Sizes DEF Smaller
    <3>. HIDE DEF o
    <3>4. /\ res \in Seq(Bytes) /\ Len(res) = o
          /\ \A i \in 1..o : res[i] = f[2 + i]
      BY <1>2, <1>5, <2>1, <3>3, CopiedProps
    <3>. HIDE DEF res, f
    <3>5. \A i \in 1..Len(res) : res[i].m = got[r]
      <4>. TAKE i \in 1..Len(res)
      <4>1. /\ 2 + i \in 1..l - SaltSize /\ SaltSize + (2 + i) \in 1..l
            /\ SaltSize + (2 + i) \in 1..Len(bs) /\ i \in 1..o
        BY <1>4, <1>5, <3>3, <3>4, Sizes
      <4>2. res[i].m = mb[SaltSize + (2 + i)].m
        BY <2>3, <3>4, <4>1
      <4>3. mb[SaltSize + (2 + i)] = bs[SaltSize + (2 + i)]
        BY <1>2, <4>1
      <4>4. bs[SaltSize + (2 + i)].m = g
        BY <1>4, <4>1
      <4>. QED
        BY <4>2, <4>3, <4>4 DEF g
    <3>6. d.own => res = Payload(g, Smaller(d.len, room[r]))
      <4>. SUFFICES ASSUME d.own PROVE res = Payload(g, o)
        BY <2>6 DEF o
      <4>1. \A i \in 1..o : res[i] = Byte(g, i) /\ Byte(g, i) \in Bytes
        <5>. TAKE i \in 1..o
        <5>1. i \in 1..d.len /\ i \in Nat
          BY <1>4, <2>6, <3>3
        <5>2. Byte(g, i) \in Bytes
          BY <1>2, <5>1, ByteIsPlain
        <5>. QED
          BY <2>6, <3>4, <5>1, <5>2
      <4>2. /\ Payload(g, o) \in Seq(Bytes) /\ Len(Payload(g, o)) = o
            /\ \A i \in 1..o : Payload(g, o)[i] = Byte(g, i)
        <5>1. [i \in 1..o |-> Byte(g, i)] \in Seq(Bytes)
          BY <3>3, <4>1
        <5>. QED
          BY <3>3, <5>1 DEF Payload
      <4>. QED
        BY <3>4, <4>1, <4>2, SeqEqual
    <3>7. /\ net[got[r]].own =>
               "none" = "none" /\ res = Payload(got[r], Smaller(net[got[r]].len, room[r]))
      BY <3>6 DEF d, g
    <3>. QED
      BY <2>4, <3>1, <3>4, <3>5, <3>7, ReturnStep
  <2>. QED
    BY <2>8, <2>9
<1>. QED
  BY <1>7, <1>8
-----------------------------------------------------------------------------
\* Every step of the writers, the network and the readers keeps the invariant.
LEMMA NextIInv == IInv /\ [Next]_vars => IInv'
<1>. SUFFICES ASSUME IInv, [Next]_vars PROVE IInv'
  OBVIOUS
<1>1. CASE UNCHANGED <<net, readVars>>
  <2>1. TypeOK' /\ Exclusive'
    BY <1>1 DEF readVars, IInv, TypeOK, Exclusive, IsBuffer
  <2>2. \A m \in 1..Len(net') : DatagramInv(m)'
    BY <1>1 DEF IInv, DatagramInv
  <2>3. ASSUME NEW r \in Readers PROVE ReaderInv(r)'
    BY <1>1 DEF readVars, IInv, ReaderInv, Holds, Returned
  <2>. QED
    BY <2>1, <2>2, <2>3 DEF IInv
<1>2. ASSUME NEW k \in Lengths, NEW s \in Samples, WriteTo(k, s) PROVE IInv'
  <2>1. CASE UNCHANGED net
    BY <1>1, <1>2, <2>1 DEF WriteTo
  <2>2. CASE net' = Append(net, [own |-> TRUE, len |-> k, bytes |-> Datagram(Len(net) + 1, k, s)])
    <3>1. PICK m \in Nat : m = Len(net) + 1
      BY DEF IInv, TypeOK
    <3>. QED
      BY <1>2, <2>2, <3>1, WriteStep
  <2>. QED
    BY <1>2, <2>1, <2>2 DEF WriteTo
<1>3. ASSUME NEW k \in Foreign, ForeignSent(k) PROVE IInv'
  <2>1. PICK m \in Nat : m = Len(net) + 1
    BY DEF IInv, TypeOK
  <2>. QED
    BY <1>3, <2>1, ForeignStep
<1>4. ASSUME NEW r \in Readers, BaseReadFails(r) PROVE IInv'
  <2>1. Return(r, <<>>, "base") /\ mem' = mem /\ rpc[r] = "read"
    BY <1>4 DEF BaseReadFails
  <2>2. got[r] = 0
    BY <2>1 DEF IInv, ReaderInv
  <2>3. <<>> \in Seq(Bytes) /\ "base" \in Errors
    BY EmptySeq DEF Errors
  <2>4. DOMAIN mem' = Bufs /\ \A b \in Bufs : IsBuffer(mem'[b])
    BY <2>1 DEF IInv, TypeOK
  <2>. QED
    BY <2>1, <2>2, <2>3, <2>4, ReturnStep
<1>5. CASE UNCHANGED vars
  BY <1>1, <1>5 DEF vars
<1>6. CASE \E k \in Lengths : WriteRefused(k)
  BY <1>1, <1>6 DEF WriteRefused
<1>. QED
  BY <1>2, <1>3, <1>4, <1>5, <1>6, GetStep, BaseReadStep, ParseStep, PutStep DEF Next

\* ReadFrom returns the bytes of the datagram it read and no others, and of a
\* datagram of WriteTo the payload and never an error: for every padding, every
\* cut at the length of the read buffer and every use of the pool.
THEOREM ReadIsFaithful == Spec => []Faithful
<1>1. IInv => Faithful
  BY DEF IInv, ReaderInv, Returned, Faithful
<1>. QED
  BY <1>1, InitIInv, NextIInv, PTL DEF Spec
=============================================================================
