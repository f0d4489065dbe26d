------------------------------- MODULE Stream -------------------------------
(***************************************************************************)
(* What a shaped connection promises the two applications at its ends, in  *)
(* units of cells: the reader gets the writer's cells in order, each once, *)
(* and none that the writer has not handed over.  Nothing forces delivery: *)
(* the connection may fail or be closed at any time.                       *)
(***************************************************************************)
EXTENDS Naturals, Sequences

VARIABLES
  accepted,  \* number of cells the writing application has handed over
  delivered  \* the cells the reading application has been given

Init == accepted = 0 /\ delivered = <<>>

\* The writer hands over the cells of one more call, or one more cell of it.
Accept ==
  /\ accepted' \in Nat
  /\ accepted' > accepted
  /\ UNCHANGED delivered

Deliver ==
  /\ Len(delivered) < accepted
  /\ delivered' = Append(delivered, Len(delivered) + 1)
  /\ UNCHANGED accepted

Next == Accept \/ Deliver

Spec == Init /\ [][Next]_<<accepted, delivered>>
=============================================================================
