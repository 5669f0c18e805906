------------------------------ MODULE MCRunner ------------------------------
(***************************************************************************)
(* Instances of Runner for TLC.                                            *)
(***************************************************************************)
EXTENDS Runner

CONSTANTS n1, n2

TwoNodes == {n1, n2}
OneNode == {n1}
FourPods == 1..4
NoPods == {}
TimedScenario == {"CpuStress"}
=============================================================================
