------------------------------- MODULE Packet -------------------------------
(***************************************************************************)
(* Datagram obfuscation (packet.go): WriteTo and ReadFrom of a wrapped     *)
(* net.PacketConn and the pool of read buffers its readers share.  The     *)
(* network loses, repeats and reorders datagrams and brings some that no   *)
(* WriteTo made.  A byte says which datagram it belongs to, its value, and *)
(* which bytes of the key stream are XORed to it.                          *)
(***************************************************************************)
EXTENDS Integers, Sequences

CONSTANTS
  Base,         \* values of a byte; a two-byte length is taken modulo Base^2
  SaltSize,     \* saltSize
  Lengths,      \* lengths of the payloads given to WriteTo
  Samples,      \* sizes Pad returns; 0 stands for no Pad
  Foreign,      \* lengths of the datagrams of others
  Rooms,        \* lengths of the buffers given to ReadFrom
  Readers,      \* goroutines that call ReadFrom
  Bufs,         \* the read buffers
  MaxDatagrams  \* bound: datagrams in a behaviour

ASSUME PacketAssumption ==
  /\ Base \in Nat /\ SaltSize \in Nat /\ Base * Base > SaltSize + 3
  /\ Lengths \cup Samples \cup Foreign \cup Rooms \subseteq Nat
  /\ MaxDatagrams \in Nat

pktHdrSize  == 2
pktOverhead == SaltSize + pktHdrSize
maxDatagram == Base * Base - 1
maxPktData  == maxDatagram - pktOverhead

VARIABLES
  net,   \* the datagrams sent so far; any of them may arrive, any number of times
  werr,  \* the error of the last WriteTo
  made,  \* the buffers readPool.New has made
  pool,  \* pool[b]: how many times buffer b lies in readPool
  mem,   \* mem[b]: the bytes of buffer b
  rpc,   \* rpc[r]: where reader r is in ReadFrom
  room,  \* room[r]: the length of the buffer its caller gave it
  buf,   \* buf[r]: the buffer it has taken: {b} or {}
  got,   \* got[r]: the datagram the base has returned, 0 before
  n,     \* n[r]: its length as ReadFrom was told
  out,   \* out[r]: the payload ReadFrom returns
  rerr   \* rerr[r]: the error ReadFrom returns

readVars == <<made, pool, mem, rpc, room, buf, got, n, out, rerr>>
vars == <<net, werr, readVars>>

Byte(m, v) == [m |-> m, v |-> v, ks |-> {}]
Zeroes(m, k) == [i \in 1..k |-> Byte(m, 0)]
Smaller(a, b) == IF a < b THEN a ELSE b

Init ==
  /\ net = <<>> /\ werr = "none"
  /\ made = {} /\ pool = [b \in Bufs |-> 0]
  /\ mem = [b \in Bufs |-> Zeroes(0, maxDatagram)]
  /\ rpc = [r \in Readers |-> "idle"]
  /\ room = [r \in Readers |-> 0]
  /\ buf = [r \in Readers |-> {}]
  /\ got = [r \in Readers |-> 0]
  /\ n = [r \in Readers |-> 0]
  /\ out = [r \in Readers |-> <<>>]
  /\ rerr = [r \in Readers |-> "none"]

\* XORKeyStream with the stream of salt: applied twice it undoes itself.
XORKeyStream(salt, frame) ==
  LET Flip(S, x) == IF x \in S THEN S \ {x} ELSE S \cup {x}
  IN  [i \in DOMAIN frame |-> [frame[i] EXCEPT !.ks = Flip(@, <<salt, i>>)]]
-----------------------------------------------------------------------------
(* WriteTo.                                                                  *)

\* binary.BigEndian.PutUint16(b, uint16(k)) in datagram m.
PutUint16(m, k) == <<Byte(m, (k \div Base) % Base), Byte(m, k % Base)>>

\* The payload of k bytes that datagram m carries.
Payload(m, k) == [i \in 1..k |-> Byte(m, i)]

\* The length of a frame for k bytes when Pad returns s: the cap does not count
\* the salt, so that a datagram may be longer than maxDatagram.
FrameLen(k, s) ==
  IF s > pktHdrSize + k THEN Smaller(s, maxDatagram) ELSE pktHdrSize + k

\* The datagram: salt, length, payload and padding.  A random salt is told apart
\* by the datagram it is drawn for.
Datagram(m, k, s) ==
  LET salt  == Zeroes(m, SaltSize)
      frame == PutUint16(m, k) \o Payload(m, k)
                 \o Zeroes(m, FrameLen(k, s) - pktHdrSize - k)
  IN  salt \o XORKeyStream(salt, frame)

\* WriteTo returns nil, or the error of the base.
WriteTo(k, s) ==
  /\ k <= maxPktData
  /\ Len(net) < MaxDatagrams
  /\ \/ /\ net' = Append(net, [own |-> TRUE, len |-> k, bytes |-> Datagram(Len(net) + 1, k, s)])
        /\ werr' = "none"
     \/ /\ werr' = "base"
        /\ UNCHANGED net
  /\ UNCHANGED readVars

\* errPacketBig
WriteRefused(k) ==
  /\ k > maxPktData
  /\ werr' = "errPacketBig"
  /\ UNCHANGED <<net, readVars>>

\* Somebody else sends k bytes to the reader.
ForeignSent(k) ==
  /\ Len(net) < MaxDatagrams
  /\ net' = Append(net, [own |-> FALSE, len |-> 0, bytes |-> Zeroes(Len(net) + 1, k)])
  /\ UNCHANGED <<werr, readVars>>
-----------------------------------------------------------------------------
(* ReadFrom.                                                                 *)

\* ReadFrom is called with a buffer of k bytes.  readPool.Get(): a buffer of
\* the pool with what it still holds, or a new one.
Get(r, b, k) ==
  /\ rpc[r] = "idle"
  /\ \/ /\ pool[b] > 0
        /\ pool' = [pool EXCEPT ![b] = @ - 1]
        /\ UNCHANGED made
     \/ /\ b \notin made
        /\ made' = made \cup {b}
        /\ UNCHANGED pool
  /\ room' = [room EXCEPT ![r] = k]
  /\ buf' = [buf EXCEPT ![r] = {b}]
  /\ rpc' = [rpc EXCEPT ![r] = "read"]
  /\ UNCHANGED <<net, werr, mem, got, n, out, rerr>>

\* ReadFrom returns; its deferred Put is still to run.
Return(r, data, err) ==
  /\ out' = [out EXCEPT ![r] = data]
  /\ rerr' = [rerr EXCEPT ![r] = err]
  /\ rpc' = [rpc EXCEPT ![r] = "put"]
  /\ UNCHANGED <<net, werr, made, pool, room, buf, got, n>>

\* The base returns datagram m, cut to the length of the buffer.
BaseReadFrom(r, b, m) ==
  LET k == Smaller(Len(net[m].bytes), maxDatagram) IN
  /\ rpc[r] = "read"
  /\ b \in buf[r]
  /\ mem' = [mem EXCEPT ![b] = SubSeq(net[m].bytes, 1, k) \o SubSeq(@, k + 1, maxDatagram)]
  /\ got' = [got EXCEPT ![r] = m]
  /\ n' = [n EXCEPT ![r] = k]
  /\ rpc' = [rpc EXCEPT ![r] = "parse"]
  /\ UNCHANGED <<net, werr, made, pool, room, buf, out, rerr>>

BaseReadFails(r) ==
  /\ rpc[r] = "read"
  /\ Return(r, <<>>, "base")
  /\ UNCHANGED mem

\* What the length field of a frame may say: anything if it is not decrypted.
RealLens(frame) ==
  IF \A i \in 1..pktHdrSize : frame[i].ks = {}
  THEN {frame[1].v * Base + frame[2].v}
  ELSE 0..Base * Base - 1

\* Mutant: the real length is compared with the buffer, not with the datagram.
FitsBuffer(k, frame) == k <= maxDatagram - pktOverhead

\* The real length is no more than what follows the length field.
Fits(k, frame) == k <= Len(frame) - pktHdrSize

\* The datagram is decrypted in place, checked and copied to the caller's
\* buffer; what does not fit there is dropped.
Parse(r, b) ==
  /\ rpc[r] = "parse"
  /\ b \in buf[r]
  /\ IF n[r] < pktOverhead
     THEN Return(r, <<>>, "errShortPacket") /\ UNCHANGED mem
     ELSE LET salt  == SubSeq(mem[b], 1, SaltSize)
              frame == XORKeyStream(salt, SubSeq(mem[b], SaltSize + 1, n[r]))
              after == salt \o frame \o SubSeq(mem[b], n[r] + 1, maxDatagram)
              data  == SubSeq(after, pktOverhead + 1, maxDatagram)
          IN  /\ mem' = [mem EXCEPT ![b] = after]
              /\ \E k \in RealLens(frame) :
                   IF Fits(k, frame)
                   THEN Return(r, SubSeq(data, 1, Smaller(k, room[r])), "none")
                   ELSE Return(r, <<>>, "errPacketLen")

\* readPool.Put(bufp)
Put(r) ==
  /\ rpc[r] = "put"
  /\ pool' = [b \in Bufs |-> IF b \in buf[r] THEN pool[b] + 1 ELSE pool[b]]
  /\ buf' = [buf EXCEPT ![r] = {}]
  /\ room' = [room EXCEPT ![r] = 0]
  /\ got' = [got EXCEPT ![r] = 0]
  /\ n' = [n EXCEPT ![r] = 0]
  /\ out' = [out EXCEPT ![r] = <<>>]
  /\ rerr' = [rerr EXCEPT ![r] = "none"]
  /\ rpc' = [rpc EXCEPT ![r] = "idle"]
  /\ UNCHANGED <<net, werr, made, mem>>
-----------------------------------------------------------------------------
Next ==
  \/ \E k \in Lengths, s \in Samples : WriteTo(k, s)
  \/ \E k \in Lengths : WriteRefused(k)
  \/ \E k \in Foreign : ForeignSent(k)
  \/ \E r \in Readers :
       \/ \E b \in Bufs, k \in Rooms : Get(r, b, k)
       \/ \E b \in Bufs, m \in 1..Len(net) : BaseReadFrom(r, b, m)
       \/ BaseReadFails(r)
       \/ \E b \in Bufs : Parse(r, b)
       \/ Put(r)

Spec == Init /\ [][Next]_vars
-----------------------------------------------------------------------------
(* Properties.                                                               *)

\* ReadFrom never returns a byte of another datagram than the one it read,
\* whatever its buffer held before and whoever reads at the same time; of a
\* datagram WriteTo made it returns the payload, or the part there is room for,
\* and never an error, however the datagram was padded and cut.
Faithful ==
  \A r \in Readers : rpc[r] = "put" /\ got[r] # 0 =>
    /\ \A i \in DOMAIN out[r] : out[r][i].m = got[r]
    /\ LET d == net[got[r]] IN d.own =>
         /\ rerr[r] = "none"
         /\ out[r] = Payload(got[r], Smaller(d.len, room[r]))
=============================================================================
