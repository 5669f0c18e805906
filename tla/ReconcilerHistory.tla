------------------------- MODULE ReconcilerHistory -------------------------
(***************************************************************************)
(* A single operator that reads its own writes implements the              *)
(* ExperimentHistory that the reports rely on.  The history variable       *)
(* injectedAt records when the fault was first put in.                     *)
(***************************************************************************)
EXTENDS Reconciler

VARIABLE injectedAt

historyVars == <<vars, injectedAt>>

PutsIn == ~(vs' \subseteq vs) \/ \E n \in Nodes : jobs[n] = "absent" /\ jobs'[n] # "absent"

HistoryInit == Init /\ injectedAt = NoTime

HistoryNext == Next /\ injectedAt' = IF injectedAt = NoTime /\ PutsIn THEN clock
                                     ELSE injectedAt

HistorySpec == HistoryInit /\ [][HistoryNext]_historyVars

\* What a reader of the status sees of the object.
Seen == [exists |-> exp.exists, gen |-> 1, phase |-> exp.status.phase,
         startedAt |-> exp.status.startedAt, completedAt |-> exp.status.completedAt]

History == INSTANCE ExperimentHistory
               WITH exp <- Seen, injectedAt <- <<injectedAt>>,
                    MaxGen <- 1, MaxDelay <- MaxClock

\* To those who read its status an experiment is put in, started, turned down or
\* ended, and deleted, in this order and with times in the order of what they
\* record, whatever calls fail, answers are lost and specs are edited
\* (patch_experiment_status, handle_pending, handle_running).
ImplementsHistory == History!Spec
=============================================================================
