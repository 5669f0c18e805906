--------------------------- MODULE FaultLifecycle ---------------------------
(***************************************************************************)
(* What the operator promises about the fault of one experiment, whatever  *)
(* its reconciles do: the fault is put into the mesh only while the        *)
(* experiment is armed, an experiment that is no longer armed never is     *)
(* again, and it is recorded as cleaned up only when the fault is out.     *)
(***************************************************************************)
VARIABLES
    stage,     \* "armed": may still inject; "spent": may not; "gone": deleted
    fault,     \* is the fault in the mesh?
    cleaned    \* is the experiment recorded as cleaned up?

vars == <<stage, fault, cleaned>>

Init == stage = "armed" /\ fault = FALSE /\ cleaned = FALSE

\* An injection may be the last one.
Inject == /\ stage = "armed" /\ stage' \in {"armed", "spent"}
          /\ fault' = TRUE /\ UNCHANGED cleaned

\* The last reconcile that could inject is over.
Spend == stage = "armed" /\ stage' = "spent" /\ UNCHANGED <<fault, cleaned>>

Retract == stage = "spent" /\ fault' = FALSE /\ UNCHANGED <<stage, cleaned>>

\* The record of the cleanup may be lost again, to be repeated; it is never
\* made while the fault is in the mesh.
Record == /\ stage = "spent" /\ (cleaned' => ~fault) /\ cleaned' \in BOOLEAN
          /\ UNCHANGED <<stage, fault>>

\* The object goes; Kubernetes then collects a fault that is left.
Vanish == stage' = "gone" /\ UNCHANGED <<fault, cleaned>>
Collect == stage = "gone" /\ fault' = FALSE /\ UNCHANGED <<stage, cleaned>>

Next == Inject \/ Spend \/ Retract \/ Record \/ Vanish \/ Collect

Spec == Init /\ [][Next]_vars
=============================================================================
