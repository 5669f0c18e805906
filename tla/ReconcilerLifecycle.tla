------------------------ MODULE ReconcilerLifecycle ------------------------
(***************************************************************************)
(* A single operator implements FaultLifecycle.                            *)
(***************************************************************************)
EXTENDS Reconciler

\* The reconcile in progress may still create the VirtualService.
Injecting(o) == w[o].pc \in {"check_edge", "create_vs"}

\* A reconcile that may inject is running, or the cache would start one.
Armed(o) == \/ Injecting(o)
            \/ cache[o].status.phase = "Pending" /\ ~cache[o].deleting

\* The mapping: the experiment is armed as long as some operator has not
\* seen it leave Pending.
stageOf == IF ~exp.exists THEN "gone"
           ELSE IF \E o \in Operators : Armed(o) THEN "armed" ELSE "spent"

Lifecycle == INSTANCE FaultLifecycle
                 WITH stage <- stageOf, fault <- vs # {},
                      cleaned <- exp.status.cleanupDone

\* The reconciler implements the promise about the fault.
ImplementsLifecycle == Lifecycle!Spec
=============================================================================
