----------------------------- MODULE ChaosTypes -----------------------------
(***************************************************************************)
(* The ChaosExperiment custom resource as the operator sees it             *)
(* (src/src/operator/crd.rs): its spec, its status, the object the API     *)
(* server stores, and what a JSON merge patch of the status does to it.    *)
(* Strings are abstracted: a time is a clock reading, a job is known by    *)
(* the node it runs on, an experiment id is a number, messages are left    *)
(* out.  An absent optional field is NoTime, NoId or the empty set.        *)
(***************************************************************************)
EXTENDS Integers

CONSTANTS Nodes     \* the cluster's nodes, one possible runner job on each

NoTime == -1
NoId == -1
Uid == 0            \* the metadata.uid of the one experiment

Phases == {"Pending", "Running", "Succeeded", "Failed"}
Terminal == {"Succeeded", "Failed"}

\* A spec: which injector its scenario needs, its duration, whether
\* spec.target.edge names both services, whether the parameters give a fault.
SpecType == [kind: {"pod", "edge"}, duration: Nat,
             hasTarget: BOOLEAN, hasFault: BOOLEAN]

\* Mutant: the duration is not validated.
validate_target_only(s) == s.kind = "edge" => s.hasTarget

validate_experiment(s) == s.duration > 0 /\ (s.kind = "edge" => s.hasTarget)

StatusType == [phase: Phases,
               startedAt: Nat \cup {NoTime},
               completedAt: Nat \cup {NoTime},
               experimentId: Nat \cup {NoId},
               runnerJobs: SUBSET Nodes,
               cleanupDone: BOOLEAN]

\* ChaosExperimentStatus::default(), also what a missing status reads as.
DefaultStatus == [phase |-> "Pending", startedAt |-> NoTime,
                  completedAt |-> NoTime, experimentId |-> NoId,
                  runnerJobs |-> {}, cleanupDone |-> FALSE]

\* Mutant: a completion time, once stored, is not overwritten.
MergeKeepsEnd(stored, p) ==
    [p EXCEPT !.startedAt = IF @ = NoTime THEN stored.startedAt ELSE @,
              !.completedAt = IF stored.completedAt # NoTime
                              THEN stored.completedAt ELSE @]

\* What Patch::Merge makes of the stored status: phase and cleanupDone are
\* always serialised and so always written, every other field is skipped
\* when it is empty and then keeps its stored value.
Merge(stored, p) ==
    [phase |-> p.phase,
     startedAt |-> IF p.startedAt = NoTime THEN stored.startedAt ELSE p.startedAt,
     completedAt |-> IF p.completedAt = NoTime THEN stored.completedAt
                                               ELSE p.completedAt,
     experimentId |-> IF p.experimentId = NoId THEN stored.experimentId
                                               ELSE p.experimentId,
     runnerJobs |-> IF p.runnerJobs = {} THEN stored.runnerJobs ELSE p.runnerJobs,
     cleanupDone |-> p.cleanupDone]

\* One version of the object.  A deleted object is the version with
\* exists = FALSE.
ObjectType(specs) == [exists: BOOLEAN, finalizer: BOOLEAN, deleting: BOOLEAN,
                      spec: specs, status: StatusType]

needs_finalizer(e) == ~e.finalizer
is_being_deleted(e) == e.deleting

\* is_duration_elapsed(started_at, duration) at clock reading now.
is_duration_elapsed(e, now) ==
    /\ e.status.startedAt # NoTime
    /\ now - e.status.startedAt >= e.spec.duration
=============================================================================
