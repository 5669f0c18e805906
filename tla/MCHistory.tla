----------------------------- MODULE MCHistory -----------------------------
(***************************************************************************)
(* An instance of ReconcilerHistory for TLC.                               *)
(***************************************************************************)
EXTENDS ReconcilerHistory

CONSTANTS n1,   \* a node
          o1    \* an operator process

EdgeSpec == [kind |-> "edge", duration |-> 1, hasTarget |-> TRUE, hasFault |-> TRUE]
PodSpec == [kind |-> "pod", duration |-> 1, hasTarget |-> FALSE, hasFault |-> FALSE]

EitherSpec == {EdgeSpec, PodSpec}
KindEdits == {<<EdgeSpec, PodSpec>>, <<PodSpec, EdgeSpec>>}
OneNode == {n1}
MovingOne == SUBSET OneNode
=============================================================================
