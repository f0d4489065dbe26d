------------------------------ MODULE Handover ------------------------------
(***************************************************************************)
(* What the listeners of this repository promise about the connections     *)
(* they make in goroutines of their own and hand over through Accept: a    *)
(* connection made is handed to one Accept or closed, it is never left     *)
(* behind open, and once the listener is closed none is kept waiting.      *)
(***************************************************************************)
CONSTANT Conns

VARIABLES
  st,     \* st[c]: "new", "held" by the listener, "owned" by the application or "gone"
  closed  \* Close was called

vars == <<st, closed>>

Init ==
  /\ st = [c \in Conns |-> "new"]
  /\ closed = FALSE

Moves(from, to) == \E c \in Conns : st[c] \in from /\ st' = [st EXCEPT ![c] = to]

\* Several connections may go at once: those of a backlog that is closed.
Next ==
  \/ Moves({"new"}, "held") /\ UNCHANGED closed
  \/ Moves({"held"}, "owned") /\ UNCHANGED closed
  \/ /\ \E S \in SUBSET {c \in Conns : st[c] \in {"new", "held", "owned"}} :
          st' = [c \in Conns |-> IF c \in S THEN "gone" ELSE st[c]]
     /\ UNCHANGED closed
  \/ closed' = TRUE /\ UNCHANGED st

Spec == Init /\ [][Next]_vars

\* Once the listener is closed no connection is kept waiting.
Settled == \A c \in Conns : closed /\ st[c] = "held" ~> st[c] # "held"
=============================================================================
