----------------------------- MODULE Reconciler -----------------------------
(***************************************************************************)
(* The ChaosExperiment controller (src/src/operator/reconciler.rs, driven  *)
(* by controller.rs through kube_client.rs) for one experiment object.     *)
(*                                                                         *)
(* An operator process reconciles from its watch cache, which lags the API *)
(* server, and performs one API call per step; between two calls anything  *)
(* else may happen: another operator (a rolling update overlaps two), the  *)
(* user, the jobs, the clock, a failed call, a crash.                      *)
(***************************************************************************)
EXTENDS ChaosTypes, FiniteSets, Sequences

CONSTANTS
    Operators,    \* operator processes that run at the same time
    Specs,        \* the specs the user may give the experiment
    Placements,   \* the answers list_target_nodes may give
    Edits,        \* which spec a user may edit into which: pairs of specs
    FreshCache,   \* does a reconcile only start from a cache that is up to date?
    MaxClock,     \* bound on the clock
    MaxErrors,    \* bound on the API calls that fail
    MaxCrashes,   \* bound on the operator restarts
    MaxLag        \* bound on the versions a cache lags behind one by one

ASSUME NodesAssumption == IsFiniteSet(Nodes)
ASSUME SpecsAssumption == Specs # {} /\ Specs \subseteq SpecType
ASSUME PlacementsAssumption == Placements \subseteq SUBSET Nodes
ASSUME EditsAssumption == Edits \subseteq Specs \X Specs
ASSUME SwitchAssumption == FreshCache \in BOOLEAN
ASSUME BoundAssumption == /\ MaxClock \in Nat /\ MaxErrors \in Nat
                          /\ MaxCrashes \in Nat /\ MaxLag \in Nat \ {0}

VARIABLES
    exp,      \* the ChaosExperiment in the API server
    jobs,     \* jobs[n]: the runner job of node n
    vs,       \* the chaos-managed VirtualServices, by the id in their name
    clock,    \* the wall clock
    cache,    \* cache[o]: the version in operator o's watch cache
    events,   \* events[o]: the later versions its watch has yet to deliver
    wake,     \* wake[o]: is a reconcile of the object scheduled on o?
    w,        \* w[o]: the reconcile that o is running
    errors,   \* API calls that failed so far
    crashes   \* restarts so far

vars == <<exp, jobs, vs, clock, cache, events, wake, w, errors, crashes>>
cluster == <<jobs, vs>>
store == <<exp, events>>
budget == <<errors, crashes>>

JobStates == {"absent", "active", "succeeded", "failed"}

Steps == {"idle", "add_finalizer", "list_nodes", "create_jobs", "check_edge",
          "create_vs", "list_jobs", "delete_jobs", "list_vs", "delete_vs",
          "remove_finalizer", "patch"}

Object == ObjectType(Specs)

\* A reconcile in progress: the call it makes next, the snapshot it was given,
\* the jobs and VirtualServices its loop has still to visit, the status it
\* is building.
Worker == [pc: Steps, snap: Object, jobs: SUBSET Nodes, vs: SUBSET Nat,
           patch: StatusType]

NewExperiment(s) == [exists |-> TRUE, finalizer |-> FALSE, deleting |-> FALSE,
                     spec |-> s, status |-> DefaultStatus]

IdleWorker == [pc |-> "idle", snap |-> NewExperiment(CHOOSE s \in Specs : TRUE),
               jobs |-> {}, vs |-> {}, patch |-> DefaultStatus]

TypeOK ==
    /\ exp \in Object
    /\ jobs \in [Nodes -> JobStates]
    /\ vs \subseteq Nat
    /\ clock \in 0..MaxClock
    /\ cache \in [Operators -> Object]
    /\ events \in [Operators -> Seq(Object)]
    /\ \A o \in Operators : Len(events[o]) <= MaxLag
    /\ wake \in [Operators -> BOOLEAN]
    /\ w \in [Operators -> Worker]
    /\ errors \in 0..MaxErrors
    /\ crashes \in 0..MaxCrashes

Init ==
    /\ exp \in {NewExperiment(s) : s \in Specs}
    /\ jobs = [n \in Nodes |-> "absent"]
    /\ vs = {}
    /\ clock = 0
    /\ cache = [o \in Operators |-> exp]
    /\ events = [o \in Operators |-> <<>>]
    /\ wake = [o \in Operators |-> TRUE]
    /\ w = [o \in Operators |-> IdleWorker]
    /\ errors = 0
    /\ crashes = 0

(***************************************************************************)
(* API calls.  A call is answered, or it is refused, or it is carried out  *)
(* but its answer is lost.  The last two are an Err to the caller.         *)
(***************************************************************************)
Answers == {"ok", "refused", "lost"}
Applied(r) == r # "refused"

Charge(r) == IF r = "ok" THEN UNCHANGED errors
             ELSE errors < MaxErrors /\ errors' = errors + 1

\* The API server stores version e: a change is queued for every watch.  A
\* watch that is MaxLag versions behind skips to the newest one (a re-list).
Store(e) ==
    /\ exp' = e
    /\ events' = [o \in Operators |->
         IF e = exp THEN events[o]
         ELSE IF Len(events[o]) < MaxLag THEN Append(events[o], e)
         ELSE [events[o] EXCEPT ![MaxLag] = e]]

\* An object that is gone answers 404: nothing is stored.
StoreIfExists(r, e) == IF Applied(r) /\ exp.exists THEN Store(e)
                       ELSE UNCHANGED store

(***************************************************************************)
(* The controller runtime around reconcile: at most one reconcile of the   *)
(* object per operator, from the cache, when one is scheduled.             *)
(***************************************************************************)
Ready(o) == /\ w[o].pc = "idle" /\ wake[o] /\ cache[o].exists
            /\ FreshCache => events[o] = <<>>

Begin(o, pc, todo, patch) ==
    /\ w' = [w EXCEPT ![o] = [pc |-> pc, snap |-> cache[o], jobs |-> todo,
                              vs |-> {}, patch |-> patch]]
    /\ wake' = [wake EXCEPT ![o] = FALSE]
    /\ UNCHANGED <<store, cluster, clock, cache, budget>>

\* The reconcile returns; again: with a requeue, or with an Err, which
\* error_policy requeues.
Finish(o, again) == /\ w' = [w EXCEPT ![o] = IdleWorker]
                    /\ wake' = [wake EXCEPT ![o] = @ \/ again]

\* The reconcile goes on with the call pc, over these jobs and VirtualServices.
Continue(o, pc, todo, found, patch) ==
    /\ w' = [w EXCEPT ![o] = [pc |-> pc, snap |-> w[o].snap, jobs |-> todo,
                              vs |-> found, patch |-> patch]]
    /\ UNCHANGED wake

Goto(o, pc) == Continue(o, pc, {}, {}, w[o].patch)
GotoPatch(o, patch) == Continue(o, "patch", {}, {}, patch)

FailedPatch == [DefaultStatus EXCEPT !.phase = "Failed"]

\* Mutant: a finished experiment gives up its finalizer as a deleted one does.
AfterVsAlways(s) == "remove_finalizer"

\* Deletion and terminal handling share the walk delete jobs, list the
\* VirtualServices, delete them; they differ in what comes after.
AfterVs(s) == IF is_being_deleted(s) THEN "remove_finalizer" ELSE "patch"
AfterJobs(s) == IF s.spec.kind = "edge" THEN "list_vs" ELSE AfterVs(s)
CleanupStart(s) == IF s.status.runnerJobs # {} THEN "delete_jobs" ELSE AfterJobs(s)

(***************************************************************************)
(* reconcile: dispatch on the snapshot.                                    *)
(***************************************************************************)
BeginAddFinalizer(o) ==
    /\ Ready(o) /\ needs_finalizer(cache[o])
    /\ Begin(o, "add_finalizer", {}, DefaultStatus)

BeginDeletion(o) ==
    /\ Ready(o) /\ ~needs_finalizer(cache[o]) /\ is_being_deleted(cache[o])
    /\ Begin(o, CleanupStart(cache[o]), cache[o].status.runnerJobs, DefaultStatus)

Active(o) == /\ Ready(o)
             /\ ~needs_finalizer(cache[o]) /\ ~is_being_deleted(cache[o])

\* Mutant: the phase is looked at before the deletion timestamp.
BeginPendingFirst(o) ==
    /\ Ready(o) /\ ~needs_finalizer(cache[o]) /\ cache[o].status.phase = "Pending"
    /\ Begin(o, IF cache[o].spec.kind = "edge" THEN "check_edge" ELSE "list_nodes",
             {}, DefaultStatus)

BeginPending(o) ==
    /\ Active(o) /\ cache[o].status.phase = "Pending"
    /\ IF ~validate_experiment(cache[o].spec)
       THEN Begin(o, "patch", {}, FailedPatch)
       ELSE Begin(o, IF cache[o].spec.kind = "edge" THEN "check_edge"
                                                    ELSE "list_nodes",
                  {}, DefaultStatus)

\* Mutant: the verdict comes without completedAt.
CompletedNoTime(s, phase) == [s.status EXCEPT !.phase = phase]

\* status.clone() with the phase the run ended in.
Completed(s, phase) == [s.status EXCEPT !.phase = phase, !.completedAt = clock]

\* A running edge experiment that has not elapsed is requeued unchanged.
BeginRunning(o) ==
    /\ Active(o) /\ cache[o].status.phase = "Running"
    /\ \/ /\ cache[o].spec.kind = "edge"
          /\ is_duration_elapsed(cache[o], clock)
          /\ Begin(o, "patch", {}, Completed(cache[o], "Succeeded"))
       \/ /\ cache[o].spec.kind = "pod"
          /\ Begin(o, "list_jobs", {}, DefaultStatus)

\* Mutant: the patch is built from the default status instead of ..status.
BeginTerminalDefault(o) ==
    /\ Active(o) /\ cache[o].status.phase \in Terminal
    /\ ~cache[o].status.cleanupDone
    /\ Begin(o, CleanupStart(cache[o]), cache[o].status.runnerJobs,
             [DefaultStatus EXCEPT !.cleanupDone = TRUE])

\* Mutant: a cleaned up experiment is recorded as Succeeded.
BeginTerminalSucceeds(o) ==
    /\ Active(o) /\ cache[o].status.phase \in Terminal
    /\ ~cache[o].status.cleanupDone
    /\ Begin(o, CleanupStart(cache[o]), cache[o].status.runnerJobs,
             [cache[o].status EXCEPT !.phase = "Succeeded", !.cleanupDone = TRUE])

BeginTerminal(o) ==
    /\ Active(o) /\ cache[o].status.phase \in Terminal
    /\ ~cache[o].status.cleanupDone
    /\ Begin(o, CleanupStart(cache[o]), cache[o].status.runnerJobs,
             [cache[o].status EXCEPT !.cleanupDone = TRUE])

\* Everything is cleaned up: Done, no requeue until the object changes.
TerminalDone(o) ==
    /\ Active(o) /\ cache[o].status.phase \in Terminal
    /\ cache[o].status.cleanupDone
    /\ wake' = [wake EXCEPT ![o] = FALSE]
    /\ UNCHANGED <<store, cluster, clock, cache, w, budget>>

(***************************************************************************)
(* The calls of the handlers.                                              *)
(***************************************************************************)
AddFinalizer(o) ==
    /\ w[o].pc = "add_finalizer"
    /\ \E r \in Answers :
         /\ Charge(r)
         /\ StoreIfExists(r, [exp EXCEPT !.finalizer = TRUE])
    /\ Finish(o, TRUE)
    /\ UNCHANGED <<cluster, clock, cache, crashes>>

\* Mutant: an error of remove_finalizer is swallowed.
RemoveFinalizerOnce(o) ==
    /\ w[o].pc = "remove_finalizer"
    /\ \E r \in Answers :
         /\ Charge(r)
         /\ StoreIfExists(r, [exp EXCEPT !.finalizer = FALSE,
                                         !.exists = ~exp.deleting])
    /\ Finish(o, FALSE)
    /\ UNCHANGED <<cluster, clock, cache, crashes>>

RemoveFinalizer(o) ==
    /\ w[o].pc = "remove_finalizer"
    /\ \E r \in Answers :
         /\ Charge(r)
         /\ StoreIfExists(r, [exp EXCEPT !.finalizer = FALSE,
                                         !.exists = ~exp.deleting])
         /\ Finish(o, ~(r = "ok" /\ exp.exists))
    /\ UNCHANGED <<cluster, clock, cache, crashes>>

PatchStatus(o) ==
    /\ w[o].pc = "patch"
    /\ \E r \in Answers :
         /\ Charge(r)
         /\ StoreIfExists(r, [exp EXCEPT !.status = Merge(exp.status, w[o].patch)])
    /\ Finish(o, TRUE)
    /\ UNCHANGED <<cluster, clock, cache, crashes>>

\* Mutants: no fallback to the uid; a fresh id in every reconcile.
ExperimentIdUnset(s) == s.status.experimentId
ExperimentIdFresh(s) == clock + 1

\* status.experiment_id, or else the object's uid.
ExperimentId(s) == IF s.status.experimentId # NoId THEN s.status.experimentId
                                                   ELSE Uid

\* Mutant: the created jobs are not recorded.
RunningPatchNoJobs(s, found) == [DefaultStatus EXCEPT !.phase = "Running",
                                                      !.experimentId = ExperimentId(s)]

RunningPatch(s, found) == [DefaultStatus EXCEPT !.phase = "Running",
                                                !.experimentId = ExperimentId(s),
                                                !.runnerJobs = found]

ListNodes(o) ==
    /\ w[o].pc = "list_nodes"
    /\ \/ \E found \in Placements \ {{}} :
            /\ Continue(o, "create_jobs", found, {}, RunningPatch(w[o].snap, found))
            /\ UNCHANGED errors
       \/ {} \in Placements /\ GotoPatch(o, FailedPatch) /\ UNCHANGED errors
       \/ Charge("refused") /\ Finish(o, TRUE)
    /\ UNCHANGED <<store, cluster, clock, cache, crashes>>

\* Mutant: only the jobs that this reconcile created are recorded.
CreateJobSkips409(o) ==
    /\ w[o].pc = "create_jobs"
    /\ \E n \in w[o].jobs, r \in Answers :
         LET p == [w[o].patch EXCEPT !.startedAt = clock, !.runnerJobs =
                     IF jobs[n] = "absent" THEN @ ELSE @ \ {n}]
         IN /\ Charge(r)
            /\ jobs' = IF Applied(r) /\ jobs[n] = "absent"
                       THEN [jobs EXCEPT ![n] = "active"] ELSE jobs
            /\ IF r # "ok" THEN Finish(o, TRUE)
               ELSE IF w[o].jobs = {n} THEN GotoPatch(o, p)
               ELSE Continue(o, "create_jobs", w[o].jobs \ {n}, {}, p)
    /\ UNCHANGED <<store, vs, clock, cache, crashes>>

\* A job that already exists answers 409, which is ignored.
CreateJob(o) ==
    /\ w[o].pc = "create_jobs"
    /\ \E n \in w[o].jobs, r \in Answers :
         /\ Charge(r)
         /\ jobs' = IF Applied(r) /\ jobs[n] = "absent"
                    THEN [jobs EXCEPT ![n] = "active"] ELSE jobs
         /\ IF r # "ok" THEN Finish(o, TRUE)
            ELSE IF w[o].jobs = {n}
            THEN GotoPatch(o, [w[o].patch EXCEPT !.startedAt = clock])
            ELSE Continue(o, "create_jobs", w[o].jobs \ {n}, {}, w[o].patch)
    /\ UNCHANGED <<store, vs, clock, cache, crashes>>

\* Source selector, conflicting VirtualServices, observed edge, fault: what
\* they find is the environment's, an unanswered selector or edge query is a
\* rejection and only the VirtualService list can fail the reconcile.
CheckEdge(o) ==
    /\ w[o].pc = "check_edge"
    /\ \/ /\ w[o].snap.spec.hasFault
          /\ Continue(o, "create_vs", {}, {}, RunningPatch(w[o].snap, {}))
          /\ UNCHANGED errors
       \/ GotoPatch(o, FailedPatch) /\ UNCHANGED errors
       \/ Charge("refused") /\ Finish(o, TRUE)
    /\ UNCHANGED <<store, cluster, clock, cache, crashes>>

CreateVs(o) ==
    /\ w[o].pc = "create_vs"
    /\ \E r \in Answers :
         /\ Charge(r)
         /\ vs' = IF Applied(r) THEN vs \cup {w[o].patch.experimentId} ELSE vs
         /\ IF r = "ok" THEN GotoPatch(o, [w[o].patch EXCEPT !.startedAt = clock])
                        ELSE Finish(o, TRUE)
    /\ UNCHANGED <<store, jobs, clock, cache, crashes>>

\* The phase handle_running_pod decides on when it sees these job states.
JobVerdict(s, seen) ==
    IF "failed" \in seen THEN "Failed"
    ELSE IF seen = {"succeeded"} \/ is_duration_elapsed(s, clock) THEN "Succeeded"
    ELSE "Running"

\* Mutant: an unfinished run is not requeued.
ListJobsOnce(o) ==
    /\ w[o].pc = "list_jobs"
    /\ \/ LET verdict == JobVerdict(w[o].snap, {jobs[n] : n \in Nodes} \ {"absent"})
          IN /\ IF verdict = "Running" THEN Finish(o, FALSE)
                ELSE GotoPatch(o, Completed(w[o].snap, verdict))
             /\ UNCHANGED errors
       \/ Charge("refused") /\ Finish(o, TRUE)
    /\ UNCHANGED <<store, cluster, clock, cache, crashes>>

ListJobs(o) ==
    /\ w[o].pc = "list_jobs"
    /\ \/ LET verdict == JobVerdict(w[o].snap, {jobs[n] : n \in Nodes} \ {"absent"})
          IN /\ IF verdict = "Running" THEN Finish(o, TRUE)
                ELSE GotoPatch(o, Completed(w[o].snap, verdict))
             /\ UNCHANGED errors
       \/ Charge("refused") /\ Finish(o, TRUE)
    /\ UNCHANGED <<store, cluster, clock, cache, crashes>>

\* The result of delete_job is ignored.
DeleteJob(o) ==
    /\ w[o].pc = "delete_jobs"
    /\ \E n \in w[o].jobs, r \in {"ok", "refused"} :
         /\ Charge(r)
         /\ jobs' = IF Applied(r) THEN [jobs EXCEPT ![n] = "absent"] ELSE jobs
         /\ IF w[o].jobs = {n} THEN Goto(o, AfterJobs(w[o].snap))
            ELSE Continue(o, "delete_jobs", w[o].jobs \ {n}, {}, w[o].patch)
    /\ UNCHANGED <<store, vs, clock, cache, crashes>>

\* Mutants: the error is ignored by handle_terminal too; it ends the cleanup.
CleanupIgnoresError(o) == Goto(o, AfterVs(w[o].snap))
CleanupNotRetried(o) == IF is_being_deleted(w[o].snap) THEN Goto(o, "remove_finalizer")
                        ELSE Finish(o, FALSE)

\* An Err out of cleanup_virtual_services: ignored when the object is being
\* deleted, otherwise the cleanup is given up until the next reconcile.
CleanupFailed(o) == IF is_being_deleted(w[o].snap) THEN Goto(o, "remove_finalizer")
                    ELSE Finish(o, TRUE)

ListVs(o) ==
    /\ w[o].pc = "list_vs"
    /\ \/ /\ IF vs = {} THEN Goto(o, AfterVs(w[o].snap))
             ELSE Continue(o, "delete_vs", {}, vs, w[o].patch)
          /\ UNCHANGED errors
       \/ Charge("refused") /\ CleanupFailed(o)
    /\ UNCHANGED <<store, cluster, clock, cache, crashes>>

\* A VirtualService that is already gone answers 404, which is ignored.
DeleteVs(o) ==
    /\ w[o].pc = "delete_vs"
    /\ \E v \in w[o].vs, r \in Answers :
         /\ Charge(r)
         /\ vs' = IF Applied(r) THEN vs \ {v} ELSE vs
         /\ IF r # "ok" THEN CleanupFailed(o)
            ELSE IF w[o].vs = {v} THEN Goto(o, AfterVs(w[o].snap))
            ELSE Continue(o, "delete_vs", {}, w[o].vs \ {v}, w[o].patch)
    /\ UNCHANGED <<store, jobs, clock, cache, crashes>>

(***************************************************************************)
(* The surroundings: watch delivery, restarts, the user, the jobs, the     *)
(* clock and Kubernetes' garbage collection by ownerReferences.            *)
(***************************************************************************)
Watch(o) ==
    /\ events[o] # <<>>
    /\ cache' = [cache EXCEPT ![o] = Head(events[o])]
    /\ events' = [events EXCEPT ![o] = Tail(@)]
    /\ wake' = [wake EXCEPT ![o] = TRUE]
    /\ UNCHANGED <<exp, cluster, clock, w, budget>>

\* The process dies and a new one lists the object afresh.
Crash(o) ==
    /\ crashes < MaxCrashes /\ crashes' = crashes + 1
    /\ w' = [w EXCEPT ![o] = IdleWorker]
    /\ cache' = [cache EXCEPT ![o] = exp]
    /\ events' = [events EXCEPT ![o] = <<>>]
    /\ wake' = [wake EXCEPT ![o] = TRUE]
    /\ UNCHANGED <<exp, cluster, clock, errors>>

RequestDelete ==
    /\ exp.exists /\ ~exp.deleting
    /\ Store(IF exp.finalizer THEN [exp EXCEPT !.deleting = TRUE]
                              ELSE [exp EXCEPT !.exists = FALSE])
    /\ UNCHANGED <<cluster, clock, cache, wake, w, budget>>

\* May a stored spec change?
Editable == Edits # {}

EditSpec ==
    /\ exp.exists
    /\ \E s \in Specs : <<exp.spec, s>> \in Edits /\ Store([exp EXCEPT !.spec = s])
    /\ UNCHANGED <<cluster, clock, cache, wake, w, budget>>

JobFinishes(n) ==
    /\ jobs[n] = "active"
    /\ \E end \in {"succeeded", "failed"} : jobs' = [jobs EXCEPT ![n] = end]
    /\ UNCHANGED <<store, vs, clock, cache, wake, w, budget>>

\* ttlSecondsAfterFinished reaps a finished job; the garbage collector takes
\* a job of any state once its owner is gone.
JobReaped(n) ==
    /\ \/ jobs[n] \in {"succeeded", "failed"}
       \/ jobs[n] # "absent" /\ ~exp.exists
    /\ jobs' = [jobs EXCEPT ![n] = "absent"]
    /\ UNCHANGED <<store, vs, clock, cache, wake, w, budget>>

\* Mutant: the VirtualService has no ownerReferences.
VsNotOwned(v) == FALSE /\ v \in vs /\ vs' = vs

VsCollected(v) ==
    /\ v \in vs /\ ~exp.exists
    /\ vs' = vs \ {v}
    /\ UNCHANGED <<store, jobs, clock, cache, wake, w, budget>>

Tick ==
    /\ clock < MaxClock
    /\ clock' = clock + 1
    /\ UNCHANGED <<store, cluster, cache, wake, w, budget>>

BeginAny(o) == \/ BeginAddFinalizer(o) \/ BeginDeletion(o) \/ BeginPending(o)
               \/ BeginRunning(o) \/ BeginTerminal(o) \/ TerminalDone(o)

Call(o) == \/ AddFinalizer(o) \/ RemoveFinalizer(o) \/ PatchStatus(o)
           \/ ListNodes(o) \/ CreateJob(o) \/ CheckEdge(o) \/ CreateVs(o)
           \/ ListJobs(o) \/ DeleteJob(o) \/ ListVs(o) \/ DeleteVs(o)

Cluster == \/ RequestDelete \/ EditSpec \/ Tick
           \/ \E n \in Nodes : JobFinishes(n) \/ JobReaped(n)
           \/ \E v \in vs : VsCollected(v)

Next == \/ \E o \in Operators : BeginAny(o) \/ Call(o) \/ Watch(o) \/ Crash(o)
        \/ Cluster

Spec == Init /\ [][Next]_vars

\* The async runtime runs what is ready, the watch is delivered, time passes
\* and Kubernetes collects garbage.  The user and the jobs owe nothing.
Fairness ==
    /\ \A o \in Operators : WF_vars(BeginAny(o)) /\ WF_vars(Call(o))
                            /\ WF_vars(Watch(o))
    /\ WF_vars(Tick)
    /\ WF_vars(\E n \in Nodes : ~exp.exists /\ JobReaped(n))
    /\ WF_vars(\E v \in vs : VsCollected(v))

FairSpec == Spec /\ Fairness

(***************************************************************************)
(* Properties.                                                             *)
(***************************************************************************)

Live(n) == jobs[n] # "absent"

\* While the experiment is stored, a VirtualService that injects its fault
\* exists only if the operator still owes the cleanup: the finalizer holds the
\* object and cleanupDone is not set (handle_terminal, handle_deletion).
FaultIsOwned == vs # {} /\ exp.exists => exp.finalizer /\ ~exp.status.cleanupDone

\* Once the cleanup is done or the object is gone, no stale reconcile injects
\* the fault again (handle_pending_edge run from a lagging cache).
NoReinjection ==
    [][exp.status.cleanupDone \/ ~exp.exists => vs' \subseteq vs]_vars

\* However many reconciles of the pending experiment run, they create one
\* VirtualService (the deterministic experiment_id of handle_pending).
OneFault == \A u, v \in vs : u = v

\* The finalizer goes on once and stays for as long as the object does: no
\* reconcile, however late, strips it from an experiment that lives on
\* (handle_deletion, remove_finalizer).
FinalizerHolds == [][exp.finalizer /\ exp'.exists => exp'.finalizer]_vars

\* An edge experiment that is recorded as Succeeded ran for its duration, by
\* the two times recorded with it, whichever patches were merged in between
\* (handle_running_edge, patch_experiment_status).
SucceededRanItsDuration ==
    exp.status.phase = "Succeeded" /\ exp.spec.kind = "edge" =>
        /\ exp.status.startedAt # NoTime
        /\ exp.status.completedAt >= exp.status.startedAt + exp.spec.duration

InvalidSpec(s) == \/ s.duration = 0
                  \/ s.kind = "edge" /\ ~(s.hasTarget /\ s.hasFault)

\* A spec that the validation of Pending turns down injects nothing, now or later.
InvalidNeverInjects ==
    InvalidSpec(exp.spec) => vs = {} /\ \A n \in Nodes : ~Live(n)

\* Once the experiment left Pending, status.runnerJobs names every runner job
\* that exists, through failed creations, retries and restarts (handle_pending_pod).
JobsTracked ==
    exp.exists /\ exp.status.phase # "Pending" =>
        {n \in Nodes : Live(n)} \subseteq exp.status.runnerJobs

\* delete_job's error is dropped and cleanupDone recorded all the same.  What it hides
\* is no more than that: of the runner jobs behind cleanupDone there are at most as
\* many as calls failed, none when every call was answered.  Nothing else, neither a
\* restart or a late answer nor a job that is not recorded, leaves one behind
\* (handle_terminal, handle_pending_pod).
LeftoversWereRefused ==
    exp.status.cleanupDone /\ exp.exists =>
        Cardinality({n \in Nodes : Live(n)}) <= errors

\* The phase goes Pending, Running, Succeeded or Failed and never back, and a
\* verdict is not replaced by another.
PhaseMovesForward ==
    [][exp'.status.phase # exp.status.phase =>
         \/ exp.status.phase = "Pending"
         \/ exp.status.phase = "Running" /\ exp'.status.phase \in Terminal]_vars

\* A user's delete is completed: the finalizer never holds the object for good.
DeletionCompletes == exp.deleting ~> ~exp.exists

\* What an experiment left behind, by a reconcile that outlived it or by an
\* ignored error, is gone some time after the object is gone.
OrphansCollected ==
    <>[](~exp.exists) => <>[](vs = {} /\ \A n \in Nodes : ~Live(n))

Overdue == /\ exp.exists /\ ~exp.deleting /\ exp.status.phase = "Running"
           /\ clock >= exp.status.startedAt + exp.spec.duration

\* An experiment does not stay Running for good past its duration.
RunEnds == []<>~Overdue

\* A fault does not stay behind an experiment that is recorded as cleaned up.
NoFaultLeftBehind == []<>~(exp.exists /\ exp.status.cleanupDone /\ vs # {})

\* A finished experiment does not stay uncleaned for good.
CleanupCompletes ==
    []<>(exp.exists /\ exp.status.phase \in Terminal => exp.status.cleanupDone)
=============================================================================
