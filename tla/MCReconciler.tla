---------------------------- MODULE MCReconciler ----------------------------
(***************************************************************************)
(* Instances of Reconciler for TLC.                                        *)
(***************************************************************************)
EXTENDS ReconcilerLifecycle, TLC

CONSTANTS n1, n2,   \* nodes
          o1, o2    \* operator processes

EdgeSpec == [kind |-> "edge", duration |-> 1, hasTarget |-> TRUE, hasFault |-> TRUE]
PodSpec == [kind |-> "pod", duration |-> 1, hasTarget |-> FALSE, hasFault |-> FALSE]
NoTarget == [EdgeSpec EXCEPT !.hasTarget = FALSE]
NoFault == [EdgeSpec EXCEPT !.hasFault = FALSE]
InvalidSpecs == {NoTarget, NoFault, [PodSpec EXCEPT !.duration = 0]}

EdgeSpecs == {EdgeSpec}
EdgeOrBad == {EdgeSpec, NoTarget, NoFault}
EitherSpec == {EdgeSpec, PodSpec}
AllSpecs == EitherSpec \cup InvalidSpecs

\* No edit; the user puts an invalid spec right, or spoils a valid one.
NoEdit == {}
RightOrSpoil == {<<NoTarget, EdgeSpec>>, <<EdgeSpec, NoFault>>}

TwoNodes == {n1, n2}
NoNodes == {}
NoPlacement == {}
Stable == {TwoNodes}   \* the target pods stay where they are

\* Operators and nodes are interchangeable.
Symmetry == Permutations(Operators) \cup Permutations(Nodes)
=============================================================================
