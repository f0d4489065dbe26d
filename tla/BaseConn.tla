------------------------------ MODULE BaseConn ------------------------------
(***************************************************************************)
(* The net.Conn a shaped connection writes to, and the peer that reads it. *)
(* Both are outside this package: they are modelled from how conn.go uses  *)
(* them.  The unit on the wire is the cell.  A data cell is a positive     *)
(* number, its place in the order the sender framed it; two other values   *)
(* stand for a cover cell and for the front part of a cell that a failed   *)
(* Write left on the wire.                                                 *)
(***************************************************************************)
EXTENDS Integers, Sequences

CONSTANTS
  WireCap,  \* bound: cells the carrier buffers before a base Write blocks
  Faults,   \* ways a base Write may fail: nothing written, or part of a cell
  Sticky    \* TRUE: a base Write that failed makes all later ones fail (TLS, a
            \* reset TCP connection); FALSE: a write deadline that passed and
            \* that the application then moved, on plain TCP

ASSUME BaseAssumption ==
  /\ WireCap \in Nat \ {0}
  /\ Faults \subseteq {"clean", "torn"}
  /\ Sticky \in BOOLEAN

VARIABLES
  baseOpen,  \* base.Close has not been called
  broken,    \* some base Write has failed
  wire,      \* cells written and not yet read by the peer
  rcvd       \* data cells the peer's Read has delivered to its application

baseVars == <<baseOpen, broken, wire, rcvd>>

Cover   == 0
Torn    == -1
Garbage == -1

WireCell == Nat \cup {Torn}

BaseTypeOK ==
  /\ baseOpen \in BOOLEAN
  /\ broken \in BOOLEAN
  /\ wire \in Seq(WireCell)
  /\ rcvd \in Seq(Nat \cup {Garbage})

BaseInit ==
  /\ baseOpen = TRUE
  /\ broken = FALSE
  /\ wire = <<>>
  /\ rcvd = <<>>

\* base.Write(x) returns without error; while the carrier is full it blocks.
BaseWrite(x) ==
  /\ baseOpen
  /\ ~(Sticky /\ broken)
  /\ Len(wire) < WireCap
  /\ wire' = Append(wire, x)
  /\ UNCHANGED <<baseOpen, broken, rcvd>>

\* base.Write(x) returns an error, with nothing or with a part of x written.
BaseWriteFails ==
  /\ \/ /\ ~baseOpen \/ (Sticky /\ broken) \/ "clean" \in Faults
        /\ wire' = wire
     \/ /\ "torn" \in Faults
        /\ baseOpen
        /\ ~(Sticky /\ broken)
        /\ Len(wire) < WireCap
        /\ wire' = Append(wire, Torn)
  /\ broken' = (broken \/ baseOpen)
  /\ UNCHANGED <<baseOpen, rcvd>>

BaseClose ==
  /\ baseOpen' = FALSE
  /\ UNCHANGED <<broken, wire, rcvd>>

\* The peer's Read takes the next cell: a data cell is delivered, a cover cell
\* skipped.  Behind a partial cell it is out of step with the framing for good:
\* one cell length is consumed, a partial cell remains, and what the misread
\* header selects is either delivered or dropped.
PeerRead ==
  /\ wire # <<>>
  /\ \/ /\ Head(wire) # Torn
        /\ wire' = Tail(wire)
        /\ rcvd' = IF Head(wire) = Cover THEN rcvd ELSE Append(rcvd, Head(wire))
     \/ /\ Head(wire) = Torn
        /\ Len(wire) > 1
        /\ wire' = <<Torn>> \o SubSeq(wire, 3, Len(wire))
        /\ rcvd' \in {rcvd, Append(rcvd, Garbage)}
  /\ UNCHANGED <<baseOpen, broken>>

\* Cell n is with the peer or on its way there.
OnTheWay(n) ==
  \/ \E i \in DOMAIN rcvd : rcvd[i] = n
  \/ \E i \in DOMAIN wire : wire[i] = n
=============================================================================
