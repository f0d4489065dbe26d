--------------------------- MODULE BaseConnProofs ---------------------------
(***************************************************************************)
(* Facts about the base connection that the proofs of the shaped           *)
(* connections rest on: what the wire holds when the sender hands it the   *)
(* data cells 1, 2, 3, ... in order and stops at the first failed write.   *)
(***************************************************************************)
EXTENDS BaseConn, TLAPS

\* The data cells 1..s have been accepted by base.Write and no other: the peer
\* has a prefix of them, the wire holds the rest in order, cover cells anywhere
\* between them, and a torn cell only as the last trace of a failed write.
WireHolds(s) ==
  /\ \A i \in DOMAIN rcvd : rcvd[i] = i
  /\ Len(rcvd) <= s
  /\ \A i \in DOMAIN wire :
       /\ wire[i] > 0 => Len(rcvd) < wire[i] /\ wire[i] <= s
       /\ wire[i] = Torn => broken /\ i = Len(wire)
  /\ \A i, j \in DOMAIN wire : i < j /\ wire[i] > 0 /\ wire[j] > 0 => wire[i] < wire[j]
  /\ \A n \in Nat : Len(rcvd) < n /\ n <= s => \E i \in DOMAIN wire : wire[i] = n

\* base.Write keeps the types of the connection.
LEMMA BaseWriteType ==
  ASSUME BaseTypeOK, NEW x \in Nat, BaseWrite(x)
  PROVE  BaseTypeOK'
BY DEF BaseTypeOK, BaseWrite, WireCell

\* So does a failed one.
LEMMA BaseWriteFailsType ==
  ASSUME BaseTypeOK, BaseWriteFails
  PROVE  BaseTypeOK'
<1>1. Torn \in WireCell
  BY DEF Torn, WireCell
<1>. QED
  BY <1>1 DEF BaseTypeOK, BaseWriteFails

\* So does closing it.
LEMMA BaseCloseType ==
  ASSUME BaseTypeOK, BaseClose
  PROVE  BaseTypeOK'
BY DEF BaseTypeOK, BaseClose

\* So does the peer's Read, whatever it finds on the wire.
LEMMA PeerReadType ==
  ASSUME BaseTypeOK, PeerRead
  PROVE  BaseTypeOK'
<1>1. CASE /\ Head(wire) # Torn
           /\ wire' = Tail(wire)
           /\ rcvd' = IF Head(wire) = Cover THEN rcvd ELSE Append(rcvd, Head(wire))
  <2>1. Head(wire) \in Nat /\ wire' \in Seq(WireCell)
    BY <1>1 DEF BaseTypeOK, PeerRead, WireCell
  <2>. QED
    BY <1>1, <2>1 DEF BaseTypeOK, PeerRead
<1>2. CASE /\ Head(wire) = Torn
           /\ Len(wire) > 1
           /\ wire' = <<Torn>> \o SubSeq(wire, 3, Len(wire))
           /\ rcvd' \in {rcvd, Append(rcvd, Garbage)}
  <2>1. wire' \in Seq(WireCell)
    BY <1>2 DEF BaseTypeOK, PeerRead, WireCell, Torn
  <2>2. rcvd' \in Seq(Nat \cup {Garbage})
    BY <1>2 DEF BaseTypeOK, Garbage
  <2>. QED
    BY <2>1, <2>2 DEF BaseTypeOK, PeerRead
<1>. QED
  BY <1>1, <1>2 DEF PeerRead

\* Writing the next data cell extends what the wire holds by that cell.
LEMMA WireHoldsData ==
  ASSUME BaseTypeOK, NEW s \in Nat, WireHolds(s), ~broken, BaseWrite(s + 1)
  PROVE  WireHolds(s + 1)'
<1>1. /\ wire \in Seq(WireCell)
      /\ wire' = Append(wire, s + 1)
      /\ rcvd' = rcvd /\ broken' = broken
      /\ Len(wire') = Len(wire) + 1 /\ Len(wire) \in Nat /\ Len(rcvd) \in Nat
      /\ DOMAIN wire' = 1..Len(wire) + 1 /\ DOMAIN wire = 1..Len(wire)
      /\ \A i \in 1..Len(wire) : wire'[i] = wire[i]
      /\ wire'[Len(wire) + 1] = s + 1
  BY DEF BaseTypeOK, BaseWrite, WireCell
<1>2. \A i \in 1..Len(wire) : wire[i] \in Nat
  BY <1>1 DEF WireHolds, WireCell
<1>3. \A i \in DOMAIN wire' : /\ wire'[i] > 0 => Len(rcvd) < wire'[i] /\ wire'[i] <= s + 1
                              /\ wire'[i] # Torn
  BY <1>1, <1>2 DEF WireHolds, Torn
<1>4. \A i, j \in DOMAIN wire' :
        i < j /\ wire'[i] > 0 /\ wire'[j] > 0 => wire'[i] < wire'[j]
  BY <1>1, <1>2 DEF WireHolds
<1>5. \A n \in Nat : Len(rcvd) < n /\ n <= s + 1 => \E i \in DOMAIN wire' : wire'[i] = n
  <2>1. SUFFICES ASSUME NEW n \in Nat, Len(rcvd) < n, n <= s + 1
                 PROVE  \E i \in DOMAIN wire' : wire'[i] = n
    OBVIOUS
  <2>2. CASE n = s + 1
    BY <1>1, <2>2
  <2>3. CASE n <= s
    BY <1>1, <2>1, <2>3 DEF WireHolds
  <2>. QED
    BY <2>1, <2>2, <2>3
<1>. QED
  BY <1>1, <1>3, <1>4, <1>5 DEF WireHolds

\* Writing a cover cell leaves the data on the wire as it was.
LEMMA WireHoldsCover ==
  ASSUME BaseTypeOK, NEW s \in Nat, WireHolds(s), ~broken, BaseWrite(Cover)
  PROVE  WireHolds(s)'
<1>1. /\ wire \in Seq(WireCell)
      /\ wire' = Append(wire, 0)
      /\ rcvd' = rcvd /\ broken' = broken
      /\ Len(wire') = Len(wire) + 1 /\ Len(wire) \in Nat /\ Len(rcvd) \in Nat
      /\ DOMAIN wire' = 1..Len(wire) + 1 /\ DOMAIN wire = 1..Len(wire)
      /\ \A i \in 1..Len(wire) : wire'[i] = wire[i]
      /\ wire'[Len(wire) + 1] = 0
  BY DEF BaseTypeOK, BaseWrite, WireCell, Cover
<1>2. \A i \in 1..Len(wire) : wire[i] \in Nat
  BY <1>1 DEF WireHolds, WireCell
<1>3. \A i \in DOMAIN wire' : /\ wire'[i] > 0 => Len(rcvd) < wire'[i] /\ wire'[i] <= s
                              /\ wire'[i] # Torn
  BY <1>1, <1>2 DEF WireHolds, Torn
<1>4. \A i, j \in DOMAIN wire' :
        i < j /\ wire'[i] > 0 /\ wire'[j] > 0 => wire'[i] < wire'[j]
  BY <1>1, <1>2 DEF WireHolds
<1>5. \A n \in Nat : Len(rcvd) < n /\ n <= s => \E i \in DOMAIN wire' : wire'[i] = n
  BY <1>1 DEF WireHolds
<1>. QED
  BY <1>1, <1>3, <1>4, <1>5 DEF WireHolds

\* A failed write adds at most a torn cell behind everything else, provided
\* nothing failed before or a failure is final.
LEMMA WireHoldsFails ==
  ASSUME BaseTypeOK, NEW s \in Nat, WireHolds(s), baseOpen, Sticky, BaseWriteFails
  PROVE  WireHolds(s)' /\ broken'
<1>0. broken' /\ rcvd' = rcvd
  BY DEF BaseWriteFails
<1>1. CASE wire' = wire
  BY <1>0, <1>1 DEF WireHolds
<1>2. CASE wire' = Append(wire, Torn) /\ ~broken
  <2>1. /\ wire \in Seq(WireCell)
        /\ Len(wire') = Len(wire) + 1 /\ Len(wire) \in Nat /\ Len(rcvd) \in Nat
        /\ DOMAIN wire' = 1..Len(wire) + 1 /\ DOMAIN wire = 1..Len(wire)
        /\ \A i \in 1..Len(wire) : wire'[i] = wire[i]
        /\ wire'[Len(wire) + 1] = Torn /\ Torn = -1
    BY <1>2 DEF BaseTypeOK, WireCell, Torn
  <2>2. \A i \in 1..Len(wire) : wire[i] \in Nat /\ wire[i] # Torn
    BY <1>2, <2>1 DEF WireHolds, WireCell
  <2>3. \A i \in DOMAIN wire' :
          /\ wire'[i] > 0 => Len(rcvd) < wire'[i] /\ wire'[i] <= s
          /\ wire'[i] = Torn => i = Len(wire')
    BY <2>1, <2>2 DEF WireHolds
  <2>4. \A i, j \in DOMAIN wire' :
          i < j /\ wire'[i] > 0 /\ wire'[j] > 0 => wire'[i] < wire'[j]
    BY <2>1, <2>2 DEF WireHolds
  <2>5. \A n \in Nat : Len(rcvd) < n /\ n <= s => \E i \in DOMAIN wire' : wire'[i] = n
    BY <2>1 DEF WireHolds
  <2>. QED
    BY <1>0, <2>3, <2>4, <2>5 DEF WireHolds
<1>. QED
  BY <1>1, <1>2 DEF BaseWriteFails

\* The data cell at the head of the wire is the one the peer waits for, and a
\* torn cell never has anything behind it to be misread with.
LEMMA PeerNext ==
  ASSUME BaseTypeOK, NEW s \in Nat, WireHolds(s), PeerRead
  PROVE  /\ Head(wire) # Torn
         /\ Head(wire) # Cover => Head(wire) = Len(rcvd) + 1 /\ Len(rcvd) < s
<1>1. /\ wire \in Seq(WireCell) /\ wire # <<>> /\ Len(wire) \in Nat /\ Len(wire) > 0
      /\ DOMAIN wire = 1..Len(wire) /\ Head(wire) = wire[1] /\ Len(rcvd) \in Nat
      /\ 1 \in DOMAIN wire /\ wire[1] \in WireCell
  BY DEF BaseTypeOK, PeerRead
<1>2. Head(wire) # Torn
  BY <1>1 DEF WireHolds, PeerRead
<1>3. ASSUME Head(wire) # Cover
      PROVE  Head(wire) = Len(rcvd) + 1 /\ Len(rcvd) < s
  <2>1. wire[1] \in Nat /\ wire[1] > 0
    BY <1>1, <1>2, <1>3 DEF WireCell, Cover
  <2>2. Len(rcvd) < wire[1] /\ wire[1] <= s
    BY <1>1, <2>1 DEF WireHolds
  <2>3. PICK i \in DOMAIN wire : wire[i] = Len(rcvd) + 1
    BY <1>1, <2>1, <2>2 DEF WireHolds
  <2>4. i = 1
    <3>1. i \in Nat /\ i >= 1 /\ wire[i] > 0 /\ wire[1] >= wire[i]
      BY <1>1, <2>1, <2>2, <2>3
    <3>2. 1 < i => wire[1] < wire[i]
      BY <1>1, <2>1, <3>1 DEF WireHolds
    <3>. QED
      BY <2>1, <2>3, <3>1, <3>2, <1>1
  <2>. QED
    BY <1>1, <2>2, <2>3, <2>4
<1>. QED
  BY <1>2, <1>3

\* The peer's Read moves one cell from the wire to the application.
LEMMA WireHoldsPeer ==
  ASSUME BaseTypeOK, NEW s \in Nat, WireHolds(s), PeerRead
  PROVE  WireHolds(s)'
<1>1. /\ Head(wire) # Torn
      /\ Head(wire) # Cover => Head(wire) = Len(rcvd) + 1 /\ Len(rcvd) < s
  BY PeerNext
<1>2. /\ wire \in Seq(WireCell) /\ wire # <<>> /\ Len(wire) \in Nat /\ Len(wire) > 0
      /\ wire' = Tail(wire) /\ Len(wire') = Len(wire) - 1
      /\ DOMAIN wire' = 1..Len(wire) - 1 /\ DOMAIN wire = 1..Len(wire)
      /\ \A i \in 1..Len(wire) - 1 : wire'[i] = wire[i + 1]
      /\ Head(wire) = wire[1] /\ broken' = broken
      /\ \A i \in 1..Len(wire) : wire[i] \in WireCell
      /\ rcvd \in Seq(Nat \cup {Garbage}) /\ Len(rcvd) \in Nat /\ DOMAIN rcvd = 1..Len(rcvd)
      /\ rcvd' = IF Head(wire) = Cover THEN rcvd ELSE Append(rcvd, Head(wire))
  <2>1. /\ wire' = Tail(wire) /\ wire \in Seq(WireCell) /\ wire # <<>>
        /\ rcvd \in Seq(Nat \cup {Garbage}) /\ broken' = broken
        /\ rcvd' = IF Head(wire) = Cover THEN rcvd ELSE Append(rcvd, Head(wire))
    BY <1>1 DEF BaseTypeOK, PeerRead
  <2>2. /\ Len(wire) \in Nat /\ Len(wire) > 0 /\ Len(wire') = Len(wire) - 1
        /\ Head(wire) = wire[1] /\ wire' \in Seq(WireCell)
        /\ \A i \in 1..Len(wire) - 1 : wire'[i] = wire[i + 1]
    BY <2>1
  <2>3. DOMAIN wire' = 1..Len(wire) - 1 /\ DOMAIN wire = 1..Len(wire)
    BY <2>1, <2>2
  <2>. QED
    BY <2>1, <2>2, <2>3
<1>0. \A i \in DOMAIN wire' : i + 1 \in DOMAIN wire /\ wire'[i] = wire[i + 1] /\ i \in Nat
  BY <1>2
<1>a. \A i \in DOMAIN wire' : wire'[i] = Torn => broken /\ i = Len(wire')
  <2>1. SUFFICES ASSUME NEW i \in DOMAIN wire', wire'[i] = Torn
                 PROVE  broken /\ i = Len(wire')
    OBVIOUS
  <2>2. i + 1 = Len(wire) /\ broken
    BY <1>0, <2>1 DEF WireHolds
  <2>. QED
    BY <1>0, <1>2, <2>2
<1>b. \A i, j \in DOMAIN wire' :
        i < j /\ wire'[i] > 0 /\ wire'[j] > 0 => wire'[i] < wire'[j]
  <2>1. SUFFICES ASSUME NEW i \in DOMAIN wire', NEW j \in DOMAIN wire',
                        i < j, wire'[i] > 0, wire'[j] > 0
                 PROVE  wire'[i] < wire'[j]
    OBVIOUS
  <2>2. i + 1 < j + 1
    BY <1>0, <2>1
  <2>. QED
    BY <1>0, <2>1, <2>2 DEF WireHolds
<1>c. \A i \in DOMAIN wire' : wire'[i] > 0 => Len(rcvd) < wire'[i] /\ wire'[i] <= s
  BY <1>0 DEF WireHolds
<1>3. CASE Head(wire) = Cover
  <2>1. rcvd' = rcvd /\ wire[1] = 0
    BY <1>2, <1>3 DEF Cover
  <2>3. \A n \in Nat : Len(rcvd) < n /\ n <= s => \E i \in DOMAIN wire' : wire'[i] = n
    <3>1. SUFFICES ASSUME NEW n \in Nat, Len(rcvd) < n, n <= s
                   PROVE  \E i \in DOMAIN wire' : wire'[i] = n
      OBVIOUS
    <3>2. PICK i \in DOMAIN wire : wire[i] = n
      BY <3>1 DEF WireHolds
    <3>3. i # 1 /\ i \in 1..Len(wire)
      <4>1. Len(rcvd) \in Nat /\ DOMAIN wire = 1..Len(wire)
        BY <1>2
      <4>2. n # 0
        BY <3>1, <4>1
      <4>. QED
        BY <2>1, <3>2, <4>1, <4>2
    <3>4. i - 1 \in 1..Len(wire) - 1 /\ (i - 1) + 1 = i
      BY <1>2, <3>3
    <3>5. i - 1 \in DOMAIN wire' /\ wire'[i - 1] = n
      BY <1>2, <3>2, <3>4
    <3>. QED
      BY <3>5
  <2>. QED
    BY <1>2, <1>a, <1>b, <1>c, <2>1, <2>3 DEF WireHolds
<1>4. CASE Head(wire) # Cover
  <2>1. /\ rcvd' = Append(rcvd, Len(rcvd) + 1) /\ wire[1] = Len(rcvd) + 1
        /\ Len(rcvd') = Len(rcvd) + 1 /\ Len(rcvd) < s
        /\ DOMAIN rcvd' = 1..Len(rcvd) + 1
        /\ \A i \in 1..Len(rcvd) : rcvd'[i] = rcvd[i]
        /\ rcvd'[Len(rcvd) + 1] = Len(rcvd) + 1
    BY <1>1, <1>2, <1>4
  <2>2. \A i \in DOMAIN rcvd' : rcvd'[i] = i
    BY <1>2, <2>1 DEF WireHolds
  <2>3. \A i \in DOMAIN wire' : wire'[i] > 0 => Len(rcvd) + 1 < wire'[i] /\ wire'[i] <= s
    <3>1. SUFFICES ASSUME NEW i \in DOMAIN wire', wire'[i] > 0
                   PROVE  Len(rcvd) + 1 < wire'[i] /\ wire'[i] <= s
      OBVIOUS
    <3>2. 1 \in DOMAIN wire /\ 1 < i + 1 /\ wire[1] > 0
      BY <1>0, <1>2, <2>1
    <3>3. wire[1] < wire[i + 1]
      BY <1>0, <3>1, <3>2 DEF WireHolds
    <3>. QED
      BY <1>0, <1>c, <2>1, <3>1, <3>3
  <2>4. \A n \in Nat : Len(rcvd) + 1 < n /\ n <= s => \E i \in DOMAIN wire' : wire'[i] = n
    <3>1. SUFFICES ASSUME NEW n \in Nat, Len(rcvd) + 1 < n, n <= s
                   PROVE  \E i \in DOMAIN wire' : wire'[i] = n
      OBVIOUS
    <3>2. PICK i \in DOMAIN wire : wire[i] = n
      BY <1>2, <3>1 DEF WireHolds
    <3>3. i # 1 /\ i \in 1..Len(wire)
      BY <1>2, <2>1, <3>1, <3>2
    <3>4. i - 1 \in 1..Len(wire) - 1 /\ (i - 1) + 1 = i
      BY <1>2, <3>3
    <3>5. i - 1 \in DOMAIN wire' /\ wire'[i - 1] = n
      BY <1>2, <3>2, <3>4
    <3>. QED
      BY <3>5
  <2>. QED
    BY <1>2, <1>a, <1>b, <2>1, <2>2, <2>3, <2>4 DEF WireHolds
<1>. QED
  BY <1>3, <1>4

\* All the cells base.Write accepted are with the peer or on their way.
LEMMA WireHoldsOnTheWay ==
  ASSUME BaseTypeOK, NEW s \in Nat, WireHolds(s), NEW n \in 1..s
  PROVE  OnTheWay(n)
<1>1. /\ rcvd \in Seq(Nat \cup {Garbage}) /\ Len(rcvd) \in Nat /\ DOMAIN rcvd = 1..Len(rcvd)
      /\ n \in Nat /\ 1 <= n /\ n <= s
  BY DEF BaseTypeOK
<1>2. CASE n <= Len(rcvd)
  BY <1>1, <1>2 DEF WireHolds, OnTheWay
<1>3. CASE Len(rcvd) < n
  BY <1>1, <1>3 DEF WireHolds, OnTheWay
<1>. QED
  BY <1>1, <1>2, <1>3
=============================================================================
