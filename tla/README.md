# Verification of ch-chaos

TLA+ models of the ch-chaos operator, the TLC runs that check them and the
theorems that TLAPS proves about them. ch-chaos is a Kubernetes operator in
Rust: a user applies a `ChaosExperiment`, the operator injects a fault (an Istio
VirtualService for edge scenarios, runner Jobs for pod scenarios), ends it after
`spec.duration` and cleans it up; a `ChaosAnalysis` and a `ChaosImpactMap` then
report what the experiment did, from Prometheus.

Paths are relative to `src/` (the Rust code is `src/src/`). `PROJECT.json` maps
each definition to the lines it models and lists runs, mutants, findings,
hazards and theorems.

## 1. Inventory

| Component | State it keeps | Operations | What makes it hard |
|---|---|---|---|
| Experiment reconciler `operator/reconciler.rs` | none of its own: the object's status, its finalizer, Jobs and VirtualServices in the cluster | `reconcile`, dispatching to `handle_deletion`, `handle_pending_pod/edge`, `handle_running_pod/edge`, `handle_terminal` | one API call after another on a snapshot that may be stale; every call can fail, or succeed and lose its answer; a crash between any two; two operators during a rolling update |
| Controller runtime `operator/controller.rs` | watch cache, requeue queue | one reconcile at a time per object, requeue after `Ok` and `Err` | what the cache lags behind; what is never requeued |
| Kubernetes client `operator/kube_client.rs` | none | merge patches, create, delete and list, 404 and 409 | `Patch::Merge` without a resourceVersion: last writer wins, omitted fields stay |
| CRD types `operator/crd.rs`, `types.rs` | specs and statuses | serialisation with `skip_serializing_if` | which fields an absent value leaves as they were |
| Analysis reconciler `operator/analysis_reconciler.rs` | `ChaosAnalysisStatus` | `reconcile_analysis` | runs while the experiment runs, ends, is deleted and created again; retries from Failed |
| Impact map reconciler `operator/impact_map_reconciler.rs` | `ChaosImpactMapStatus` | `reconcile_impact_map` | the same, with nine calls between the first read and the patch |
| Impact scoring `crd.rs`, `impact_map_reconciler.rs` | none | `calculate_impact`, `score_error_rate`, `compute_affected_services` | zero baselines, rounding, clamping, averaging |
| Graph builder `operator/graph_builder.rs` | none | `build_service_graph`, `find_edge`, HTTP queries | cycles; a service with several workloads; namespaces |
| VirtualService builder `operator/istio_injector.rs` | none | deterministic name, labels, ownerReference, fault | what conflict check, cleanup and garbage collection go by; cross-namespace ownership |
| Job builder `operator/job_builder.rs` | none | deterministic name, ownerReference, TTL | truncated names, reaped jobs |
| Runner `runner/` | a pod per node | pod killer, CPU stress, network delay | runners on several nodes kill the same pods; nobody tells a runner to stop; a runner starts later than its experiment |
| Runner metrics and HTTP server, entry points, manifests, tests | | | I/O and data |

How they interact: the three controllers share no memory. The experiment
reconciler talks to the runners through Job states, to the mesh through
VirtualServices, and to the report reconcilers through `ChaosExperimentStatus`,
which they read at a time of their own. All of them see their own object through
a watch cache.

What makes each correct:

- *Experiment*: a fault in the mesh always has an owner that still owes its
  cleanup; it is not injected again after the cleanup; overlapping reconciles
  create it once; `cleanupDone` tells the truth; the recorded times span the
  duration; the phase moves forward only; a delete completes and leaves nothing.
- *Reports*: a baseline takes in no more of the faulted time than the delay of
  `startedAt`; a report that can be made is made, and stays made.
- *Impact*: what got worse is listed, in order; Direct is exactly what is
  downstream of the injected service; the search ends.
- *Shared names and namespaces*: an experiment that is Running has its fault, whatever
  the others do; a fault is put in only where the checks allow it, and an experiment
  is turned down only for a cause of its own.
- *Runner*: between them the runners do the whole work although they race; an early
  success is earned by every runner whose Job is still there to be judged; all chaos
  ends by itself.

## 2. Modules

| Module | Contents |
|---|---|
| `ChaosTypes` | spec, status and object of a `ChaosExperiment`; `validate_experiment`; `Merge`, what a status merge patch does |
| `Reconciler` | the experiment controller for one object: user, API server, watch, one or more operators, jobs, VirtualServices, clock, garbage collection |
| `FaultLifecycle` | the abstract specification: what the operator promises about the fault of one experiment |
| `ReconcilerLifecycle` | the refinement mapping from `Reconciler` to `FaultLifecycle` |
| `ExperimentHistory` | the abstract specification of an experiment as its status shows it: the environment of `Reports` |
| `ReconcilerHistory` | `Reconciler` with a history variable, and its mapping to `ExperimentHistory` |
| `SharedNamespace` | several edge experiments in one cluster: names, labels, namespaces, checks, users' VirtualServices, garbage collection |
| `Runner` | the runners of one pod experiment on its nodes, their Jobs, and the operator that creates, judges and deletes these |
| `Reports` | the analysis and impact map controllers next to the experiment they report on |
| `ServiceImpact` | what an impact map computes: scores, service graph, classification |
| `MCReconciler`, `MCHistory`, `MCSharedNamespace`, `MCRunner`, `MCReports`, `MCServiceImpact` | the instances for TLC |
| `ReconcilerProofs`, `ReconcilerRecords`, `ReconcilerOwnership`, `ReconcilerHistoryProofs`, `SharedNamespaceProofs`, `ServiceImpactProofs`, `ReportsProofs`, `RunnerProofs` | theorems and proofs |

An operator whose comment begins with "Mutant" is no part of a specification:
it is the definition below it with a plausible bug, and PROJECT.json says which
property it breaks.

### Reconciler

| Variable | In the code |
|---|---|
| `exp` | the stored object: existence, finalizer, deletionTimestamp, spec, status |
| `jobs[n]` | the runner Job of node `n` (`create_job`, `list_jobs_by_label`) |
| `vs` | the VirtualServices with the managed-by label, by the experiment id in their name |
| `cache[o]`, `events[o]`, `wake[o]` | operator `o`'s watch cache, the versions not yet delivered, whether a reconcile is scheduled |
| `w[o]` | the reconcile in progress: the next call, the snapshot (`Arc<ChaosExperiment>`), the items its loop has left, the status it builds |
| `clock`, `errors`, `crashes` | wall clock; failed calls and restarts so far |

A reconcile is a `Begin...` step, which is the dispatch of `reconcile` on the
snapshot up to the first call, followed by one step per API call
(`AddFinalizer`, `ListNodes`, `CreateJob`, `CheckEdge`, `CreateVs`, `ListJobs`,
`DeleteJob`, `ListVs`, `DeleteVs`, `RemoveFinalizer`, `PatchStatus`). A call is
answered, refused, or carried out with its answer lost; the code after the call
is part of the step. Between two steps anything else may happen.

Abstractions: requeue delays are left out (a scheduled reconcile runs at any
later time). A reconcile that changes nothing and is requeued is a stuttering
step. The order of jobs and VirtualServices in the loops is open. A lost answer
where the result is ignored (`delete_job`) is the same as an answer. `CheckEdge` merges the four
read-only checks of `handle_pending_edge`, since none changes state and what
they find is the environment's. Two operators need not have the same lag. A
watch that falls `MaxLag` versions behind skips to the newest one (a re-list).
Times are whole ticks, a job is known by its node, an id by a number.

### Reports

One report, of either kind, that refers by name to an experiment which is
injected, started, rejected, ended, deleted and created again at any time. These
steps are those of `ExperimentHistory`, and `ImplementsHistory` shows that a
single operator that reads its own writes takes no other ones: Running comes
after the injection and with a time that is no earlier, a verdict comes with a
completion time after the start, and a Failed without one comes from a check. The controller's steps are
`GetExperiment`, `QueryBaseline`, `QueryChaos`, `GetSpec`, `QueryGraph` and
`Patch`; a result is the windows that were asked for (`WindowsOf`), as
what the metrics say is the subject of `ServiceImpact`. A reconcile may begin from a cache
that is behind the last patch: a report that is Completed is then made once more, and may
be patched Failed over its verdict. All errors of a call
patch Failed, except those after which the code returns `Err` (`NoTimes`, an
unparsable window).

### SharedNamespace

| Variable | In the code |
|---|---|
| `exp[u]` | the object of uid `u`: unborn, stored under the name of its slot, gone |
| `mesh` | every VirtualService: name, namespace, its two labels, the uid of its owner |
| `w[s]` | the reconcile of the object in slot `s`, call by call as in `Reconciler` |
| `v.host` of a `v` in `mesh` | the host it is for: `fqdn` of the destination, or a user's own choice |
| `world` | the services with a selector and Prometheus' answer, in its order |
| `held[s]`, `seen[s]` | history: users' VirtualServices in the way of `s` all the time, or at some time, since it was applied |

Here the checks of `handle_pending_edge` are calls of their own (`GetSelector`,
`ListConflicts`, `ResolveEdge`) and find what is there: the VirtualServices of the
whole namespace, as `list_virtual_services_for_host` ignores the host, and the
first metric of the edge. `Selected` is what `cleanup_virtual_services` deletes,
`Collect` the garbage collector, which looks the owner up by uid in the
dependent's namespace. Left to `Reconciler`: lagging caches, times (a run elapses at any time
after it started) and invalid specs. `EachImplementsLifecycle` says that
`FaultLifecycle` holds of every experiment as if there were no other one.

### Runner

`CreateJob`, `RecordRunning`, `Judge`, `DeleteJob` and `RecordCleaned` are the
operator in the order of its handlers; `CreatePod`, `JobEnds` and `JobReaped` the Job
controller (no retry: `backoffLimit` 0, `restartPolicy: Never`; a finished Job is removed
after `ttlSecondsAfterFinished`, here at any time). `Judge` sees the Jobs that are still there,
as `list_jobs` does; the steps of `Run` are those of
a runner process: `Start` reads its configuration, a pod killer lists the pods and deletes
them one by one in the order of the list (`ListPods`, `DeletePod`), CPU stress is one
command with a timer, a network delay is `tc` add, sleep, `tc` del. A target pod that
is deleted is terminating, still listed, and then gone, and its workload starts another
one. `delete_job` sends default parameters, with which Kubernetes leaves the pods of a
`batch/v1` Job to themselves: `DeleteJob` leaves the runner as it is.

### ServiceImpact

`reconcile_impact_map` between its queries and its patch: `Score` computes the
affected services, `StartSearch` resolves the destination service to a workload
key, `Visit` is one round of the loop of `reachable_from`, `Classify` sets the
types. Rates are whole numbers and error rates whole percents, so `Percent` is
the exact round-half-up of what the code computes in `f64`; the queue is a set, which
leaves its order open. When a service has several workloads the code keeps the
one Prometheus lists last: any of them.

## 3. Runs

| Run | Instance | Shows |
|---|---|---|
| `overlap` | 2 operators, 1 failing call, 1 restart, clock to 2, a user who puts the spec right or spoils it; operators symmetric | one VirtualService between them, consistent times, the finalizer stays |
| `fresh` | 1 operator with a current cache, specs edited between edge and pod, 2 failing calls, a restart | the phase moves forward; `ExperimentHistory` is implemented |
| `live` | 1 operator with a lag, 2 nodes, every valid and invalid spec, 2 failing calls, a restart, fairness | the fault is owned, never reinjected; every job is tracked, and no more outlive `cleanupDone` than calls failed; `FaultLifecycle` is implemented; runs end, are cleaned up, deletions complete, orphans are collected |
| `shared` | 2 experiments on one edge, 3 objects, a user's VirtualService, 4 worlds, a failing call or restart | nobody takes, keeps or forbids another one's fault; `FaultLifecycle` for each |
| `runner` | 2 nodes, 3 target pods and a replacement, every scenario, a failure or a killed runner, Jobs that expire, fairness | racing pod killers do the work, early success is earned, chaos ends |
| `reports` | both kinds, a window shorter than the delay, a wide and an unparsable one, 2 generations of the experiment, a lagging cache | a baseline misses the injection by the delay at most, reports are made and stay made |
| `impact` | every graph on 3 workloads with every choice of the serving ones, 4 requests, 4 measurements | who is listed, in which order, who is Direct |
| `leak_overlap` | violation | two operators and a crash leave a fault behind `cleanupDone` for good |
| `remote_report` | violation | a report in another namespace classifies by the wrong workload |
| `other_host` | violation | a user's VirtualService for another host turns an experiment down |
| `cross_namespace` | violation | a `targetNamespace` that is not the experiment's own: the fault is collected while it is Running |
| `orphaned_runner` | violation | a runner that starts late loads its node behind `cleanupDone` |

The violations are disagreements between the documents and the code;
`findings` quotes both sides.

**Bounds.** An experiment's life has one injection, one end and one cleanup, so a
duration of 1 with a clock that goes past it reaches every phase, and one version
of lag is what separates a stale snapshot from a current one, and makes a watch skip
a version when two are written. Two failing calls or restarts let a
retry fail again. Two nodes are the fewest on which a loop over nodes can stop half
way, two operators the fewest that overlap. In `reports` two generations are the
fewest with which a name can change its meaning; half the
shorter window is less than `MaxDelay` and half the wider one more. Three workloads have the cycles, the two paths to one workload and
the unreachable parts that a search can meet; all other graphs are covered by
the proofs. In `shared` two slots on one edge and three objects let an experiment
run next to another one and next to the leftovers of its own predecessor; the worlds are those
in which the edge is observed, its first metric is below the threshold, it is seen
elsewhere only, and the source service is missing. In `runner` two nodes race over three pods:
a list of three has a first, a middle and a last pod, and a fourth name lets a
replacement come up behind or between them. `CHECK_DEADLOCK FALSE` in every run: once the object is gone and
collected, or the report is computed, the system may really stop.

**Fairness.** `live`: what is scheduled runs and a call is answered or fails in the end (`WF` on
`BeginAny` and `Call` of each operator: tokio runs ready tasks, and both
`reconcile_handler` and `error_policy` requeue), the watch is delivered (kube-rs
re-lists after an error), time passes, and Kubernetes collects what has lost
its owner. Nothing is assumed of users or of runner jobs: they may hang. Failing
calls are finitely many, since an API server that refuses for ever lets nothing
complete. `RunEnds` and its like say `[]<>`, so that a clock at its bound does
not make them vacuous. `reports`: the same for the report's controller, nothing for the experiment.
`impact`: the loop is synchronous code that runs on. `runner`: time passes, the operator
goes on, and a runner that is ready takes its next step; calls that fail and pods that are
killed are not assumed away.

**Edits.** `Edits` is the relation of the specs that a user may edit into which, at any time. `overlap`
lets a spec without target be put right and a valid one lose its fault, `fresh` has edge to pod
and back, and `live` none, as some of what it checks holds for specs that stay as they are
(section 4).

**Freshness.** `FreshCache = TRUE` says that a reconcile does not start before
the watch has delivered what its process wrote. The code does not enforce it.
Where it is assumed the property is false without it or the state space too
large. `PhaseMovesForward` needs it: a reconcile from a stale Running snapshot can put a verdict
over a verdict, and only the requeue delay of seconds against a lag of milliseconds makes that
rare. `overlap` takes it for the size of the state space,
and the theorems about its properties do without; so do `live` and `reports`. `ImplementsHistory` takes it like `PhaseMovesForward`, whose
stale verdict it would meet, and the theorems about both are stated for a `FreshCache`. `leak_overlap` takes it to
show that a lag has no part in what it finds;
`shared` and `runner` have no cache.

## 4. Proofs

`tlapm` checks every obligation from nothing: about 7900 of them.

| Theorem | Statement | Hypotheses |
|---|---|---|
| `ReconcilerProofs!TypeCorrect` | `Spec => []TypeOK` | |
| `ReconcilerProofs!FinalizerStays` | `Spec => FinalizerHolds` | any operators, stale caches, edits |
| `ReconcilerRecords!OneFaultCorrect` | `Spec => []OneFault` | any operators, stale caches, edits |
| `ReconcilerRecords!SucceededCorrect` | `Spec => []SucceededRanItsDuration` | specs are not edited |
| `ReconcilerRecords!TurnedDownForGood` | `Spec => []InvalidNeverInjects` | specs are not edited |
| `ReconcilerRecords!JobsRecorded` | `Spec => []JobsTracked` | `Steady`, `InPlace` |
| `ReconcilerRecords!LeftoversBounded` | `Spec => []LeftoversWereRefused` | `Single`, `Steady`, `InPlace` |
| `ReconcilerOwnership!FaultGuarded` | `Spec => []Guarded`: a fault in the mesh of a stored object is behind its finalizer | any operators, stale caches, edits |
| `ReconcilerOwnership!FaultOwned` | `Spec => []FaultIsOwned` | `Sole` |
| `ReconcilerOwnership!NeverReinjected` | `Spec => NoReinjection` | `Sole` |
| `ReconcilerOwnership!LifecycleImplemented` | `Spec => ImplementsLifecycle` | `Sole`, an operator |
| `ReconcilerHistoryProofs!PhaseForward` | `Spec => PhaseMovesForward` | `ReadsItsWrites` |
| `ReconcilerHistoryProofs!HistoryImplemented` | `HistorySpec => ImplementsHistory` | `ReadsItsWrites` |
| `SharedNamespaceProofs!TypeCorrect` | `Spec => []TypeOK` | |
| `SharedNamespaceProofs!FailedOnlyForCause` | `Spec => []FailedHasCause` | |
| `SharedNamespaceProofs!InjectedOnlyWhereItMay` | `Spec => []InjectsOnlyWhereItMay` | `NamesApart` |
| `SharedNamespaceProofs!RunningKeepsFault` | `Spec => []RunningHasFault` | `Apart` |
| `SharedNamespaceProofs!EachLifecycleImplemented` | `Spec => EachImplementsLifecycle` | `Apart` |
| `ServiceImpactProofs!TypeCorrect` | `Spec => []TypeOK` | |
| `ServiceImpactProofs!DirectCorrect` | `Spec => []DirectIffDownstream` | |
| `ServiceImpactProofs!OnlyDegraded` | `Spec => []OnlyDegradedAreListed` | |
| `ServiceImpactProofs!WorseListed` | `Spec => []WorseIsListedToo` | |
| `ReportsProofs!TypeCorrect` | `Spec => []TypeOK` | |
| `ReportsProofs!BaselineMiss` | `Spec => []BaselineMissesByTheDelay` | any windows |
| `RunnerProofs!TypeCorrect` | `Spec => []TypeOK` | |
| `RunnerProofs!PodKillersFinish` | `Spec => []TargetsKilled` | |
| `RunnerProofs!EarlySuccess` | `Spec => []EarlySuccessIsEarned` | |

They hold for every value of the constants that the named `ASSUME`s admit: any
nodes, specs, operators, bounds and lags; any graph and any measurement; any windows; any
pods, in any number, on any nodes; any experiments, namespaces and users' VirtualServices.

What the hypotheses say, and what becomes possible without them:

- `Sole`: one operator runs, and an edit leaves the kind of the spec (its duration, target
  and fault may change at any time). Two operators can leave a fault behind `cleanupDone`, and
  when one of them crashes it stays there (`leak_overlap`); a scenario edited from edge to pod
  while the fault is in the mesh makes `handle_terminal` skip the VirtualServices.
- Specs that are not edited (`~Editable`): an edit of the duration moves the end that a verdict is judged
  by, and a spec that is turned down may have been injected before it was edited.
- `Steady`: specs are not edited, or every one of them runs jobs. `handle_running_edge` and
  `handle_terminal` of a scenario that was a pod scenario before know nothing of its jobs.
- `InPlace`: `list_target_nodes` gives the same nodes each time, at least one. Otherwise a
  creation that fails half way is retried on other nodes and leaves its first jobs in no status.
- `Single`: there is one operator at most. Another one may create jobs from an older snapshot
  after the cleanup.
- `ReadsItsWrites`: `FreshCache` and one operator. A reconcile from a stale Running snapshot,
  one's own or another operator's, puts a verdict over a verdict.
- `NamesApart`: no user's VirtualService bears a generated name, which cleanup would delete.
- `Apart`: `NamesApart`; an experiment injects into its own namespace (`Home`:
  `cross_namespace` shows the loss without it); a name is there once in a namespace (`Keys`,
  which the API server sees to); `virtual_service_name` gives two uids two names
  (`DistinctNames`).

**The argument for the reconciler.** None of the properties is inductive.

1. `ChainInv`: what an operator has in its hands, snapshot, cache, queued
   versions, stored object, is a chain in which finalizer, deletion and leaving
   Pending only move forward. So a reconcile on a snapshot that is being deleted means that
   the stored object is too, and only such a reconcile removes the finalizer:
   `FinalizerStays`.
2. `RecordInv`: every version, and every status still to be patched, is sound:
   its id is unset or the uid, `cleanupDone` comes with a final phase, a Succeeded
   edge status has times that span the duration. The merge of a sound patch
   into a sound status is sound, since the patch of a Succeeded verdict carries
   both the times it was decided on. So there is one VirtualService name and the times stay consistent, even when two
   operators overwrite each other.
3. `OwnerInv`, for one operator: `Held` (a fault in the mesh of a live object is
   behind its finalizer), `GoneForGood` (when the object is gone nothing the
   operator has yet to see would inject), `CleanedForGood` (once `cleanupDone`
   is stored the mesh is clean and the operator has seen the experiment leave
   Pending, so no stale snapshot injects), `CleansUp` (the walk over the
   VirtualServices visits all of them, and the patch that records the cleanup is
   reached only when none is left). The proof uses 1 to say that what a reconcile
   holds is no newer than its cache, and 2 to say that `vs` has one member.
   `Guarded`, the part of `Held` that is about the finalizer, needs 1 only, and so holds for any
   number of operators and any edits.
4. The refinement maps "armed" to "some operator may still inject": a reconcile
   that may is running, or the cache would start one. An injection from a stale
   snapshot is then an ordinary `Inject`, and `OwnerInv` shows that the cleanup is
   recorded only in a "spent" state.
5. `AllowedInv`: what a reconcile is about to create, its snapshot's spec allows. With
   specs that stay as they are, `NewInCluster` (a step that puts something into the cluster is
   one of `CreateJob` and `CreateVs`) gives `InvalidNeverInjects`.
6. `TrackInv`: every version, and every status to be patched, that has left Pending under a
   spec that runs jobs names exactly the placed nodes, and a live job is on one of these.
   `JobsTracked` alone is not inductive: it says nothing of the versions that are still on
   their way, nor of the list that `CreateJob` is half way through.
7. `ClearInv`: of the live jobs that a cleanup does not have ahead of it there are no more than
   calls failed, counted with `FewOf`: by 6 the walk goes over every live job, and each step of it
   removes one or is a failed call. Once `cleanupDone` is stored no reconcile creates any more, by 1
   since the operator has seen the experiment leave Pending. The bound is on all failed calls;
   failed calls of other kinds make it larger than it need be, never too small.
8. `FreshInv`, for an operator that reads its writes: the last version that the cache has yet
   to see is the stored one, a reconcile holds the stored status, and its patch, compared
   with this status, keeps it, rejects it, starts it or ends it (`Keeps`, `Rejects`, `Starts`,
   `Ends`). Each of the four moves the phase forward or not at all: `PhaseMovesForward`.
9. `HistInv`: if a fault is in the cluster, or a Running status is to be patched, then
   `injectedAt` is set, and no later than the `startedAt` of that patch. So `CreateJob` and
   `CreateVs` map to `Inject` or a stutter, `PatchStatus` to `Start`, `Reject`, `End` or a
   stutter according to 8, the step that removes the object to `Delete`, and the clock to the
   clock: `ImplementsHistory`. Whatever `ReportsProofs` shows next to an
   `ExperimentHistory` is thereby shown next to such an operator.

**The argument for several experiments.** `Control`: a slot has at most one stored object,
and a reconcile works on it, in the phase that its call belongs to. `Owned`: a managed
VirtualService lies in the namespace of its experiment and bears its label. From there:

- `CauseInv` carries the reason of a rejection from the check that found it to the patch
  that records it. That a user's VirtualService was in the way is in `seen`. That the
  edge's traffic was too low is a fact about its *first* metric, which exists because
  the order of the metrics is well founded.
- `WaysInv` (`Checked`): what the checks of `handle_pending_edge` have found so far still
  holds at the next call. `held` is the set of users' VirtualServices that were there all the time:
  the conflict check does not promise more, as one may be added after it.
- `FaultInv` (`Cleanup`): the list that a cleanup walks over has only names of its own slot's
  experiments in it, and its own fault's name until this is deleted. So no
  cleanup takes another one's fault, and neither does the garbage collector, as by `Home` the owner
  is in the VirtualService's namespace: `RunningHasFault`.
- `EachImplementsLifecycle` maps every uid to a `FaultLifecycle` of its own; a step of
  one experiment is a stutter of every other one.

**The argument for the impact map.** The scores: integer division by a positive
number keeps the order, clamping keeps it, so each of the three scores, and
their average, grows with the damage (`WorseScoresMore`, `AsBadScoresMore`).
The search: `SearchInv` says that what was visited is downstream of the target
and that the callees of what has left the queue were visited; with an empty
queue the visited set is closed, hence the whole of `Downstream`, which is
defined without reference to a search.

**The argument for the reports.** `TimesInv` holds what `ExperimentHistory` promises of
the times: `startedAt` comes after the injection, by `MaxDelay` at most, `completedAt` after
`startedAt`, both in the past. A result is computed from one reading of them
(`WindowsMiss`, with integer halves), and stays right while it is held, patched and
kept (`ResultsInv`), because injections of other experiments of the name are recorded apart
and the clock only moves forward (`MissesStay`). No window is excluded: the code takes
the time before `startedAt` for the time before the fault, a failed patch makes `startedAt`
later than the injection, and the theorem says by how much each kind of baseline can be wrong.
A window of twice the delay or more keeps the sample of an analysis before the fault; the
baseline rate of an impact map ends at `startedAt` and reaches into the fault by the whole delay.

**The argument for the runners.** Until a runner finds pods, none was touched and the
workload is complete (`UntouchedInv`), so a runner that found nothing was right for
ever. A pod killer has every target that is up still in its list (`TodoInv`), but it may
fail at a pod that another one has finished off, so that is not enough: a target could
be left over when all of them fail. `LeaderInv` says that each target that is up is
reached by some runner (`Reaches`): all dead pods before the target lie behind that
runner's list, so nothing fails it on the way. When another runner deletes a pod ahead
of the leader, that runner has overtaken it and leads from there; this is where the order
of `NextPod` is needed, and without it the proof fails as the run does. `TimeInv` and
`SuccessInv` carry an early success back from the Jobs to the runners' own timers. A Job that
is gone while the experiment is Running has expired, so its runner is over; `Judge` passes it
over, which is all that `EarlySuccessIsEarned` excuses a node for.

**Only model-checked.** Liveness, which with fairness and ENABLED is out of the prover's
reach: `DeletionCompletes`, `RunEnds`, `CleanupCompletes`, `OrphansCollected` (`live`),
`ReportCompletes`, `ImpactMapSettles` (`reports`), `Terminates` (`impact`), `ChaosEnds`
(`runner`). Every other property of a passing run is a theorem. Induction over data is out of
reach too, which is why reachability is a quantification over closed sets and no
definition here is recursive.

## 5. Not modelled

- *Names*: `Reconciler` and `SharedNamespace` assume that the eight characters of the id
  and the 41 of the node name that remain make a name unique.
- *The parameters of a fault or a scenario*: they parse or they do not.
- *Which pods are targets*: `list_target_nodes` answers anything (`Placements`).
- *A request that outlives its object*: a late `remove_finalizer`, sent by name, that reaches a
  successor of the same name; `Reconciler` has one object and `SharedNamespace` one operator.
- *Time before a finished Job expires*: `JobReaped` may happen at once.
- *Jobs of a deleted experiment of the same name*, which `handle_running_pod` would list.
- *What stress-ng and tc do*. The pod template has no `hostNetwork`, so the qdisc of a network
  delay is in the runner pod's own network namespace.
- *The verdict of an analysis* and the order of an impact map's list.
- *Conversions of `duration`* to `i64` and of windows to seconds: clock readings are small.
- *PromQL, HTTP, JSON, schemas, pod templates, permissions, metrics*: I/O and data.

Known without a run of their own, most of them the reason for a hypothesis of section 4:

- A refused `delete_job` leaves a job behind `cleanupDone`, and nothing deletes it later
  (`reconciler.rs:525` drops the error), although `docs/arch.md:220-221` has the Jobs deleted first.
  `LeftoversWereRefused` says how many, `Runner` has the same step.
- A failed Job that expires before the operator lists it is passed over, and the others give an
  early Succeeded, where `docs/arch.md:215-216` has Failed. `EarlySuccessIsEarned` names the case.
- A creation that fails half way, followed by a retry that finds the pods elsewhere, leaves a job
  in no status (`JobsTracked` needs fixed `Placements`).
- A reconcile that begins from a cache behind a Completed report may patch Failed over it. While
  the experiment is stored the report is made again (`ReportCompletes`); when it is gone the report
  stays Failed.
- A baseline takes in as much of the fault as `startedAt` is late (`BaselineMissesByTheDelay`).

## 6. Plan

Done, in the order of importance: the experiment reconciler with its abstract
specification, the reports, the impact computation, several experiments in one cluster, the
runners; the composition of reconciler and reports through `ExperimentHistory`; a theorem for
every property of a passing run that is not a liveness property.

Left:

1. The other half of the composition as a theorem: `BaselineMissesByTheDelay` of a report
   next to the `Reconciler` itself instead of next to an `ExperimentHistory`.
