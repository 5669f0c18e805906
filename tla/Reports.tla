------------------------------ MODULE Reports ------------------------------
(***************************************************************************)
(* The controllers of the two reports on a finished experiment:            *)
(* ChaosAnalysis (src/src/operator/analysis_reconciler.rs) and             *)
(* ChaosImpactMap (src/src/operator/impact_map_reconciler.rs).  One report *)
(* of either kind refers by name to an experiment that runs, ends, is      *)
(* deleted and is created again under the same name at any time.  What the *)
(* metrics say is left out: a result is the windows they were asked for.   *)
(***************************************************************************)
EXTENDS Integers

CONSTANTS
    Windows,      \* the values of prometheus.baselineWindow, NoWindow unparsable
    MaxDelay,     \* bound on the time from the injection to the last startedAt
    MaxClock,     \* bound on the clock
    MaxErrors,    \* bound on the calls that fail
    MaxCrashes,   \* bound on the operator restarts
    MaxGen        \* bound on the experiments created under the name

NoTime == -1
NoWindow == -1

ASSUME WindowsAssumption == Windows \subseteq Nat \cup {NoWindow} /\ Windows # {}
ASSUME BoundAssumption == /\ MaxDelay \in Nat /\ MaxClock \in Nat
                          /\ MaxErrors \in Nat /\ MaxCrashes \in Nat
                          /\ MaxGen \in Nat \ {0}

VARIABLES
    kind,        \* the kind of the report
    window,      \* its spec.prometheus.baselineWindow
    exp,         \* the experiment of that name in the API server
    injectedAt,  \* when the fault of each of them went into the mesh
    report,      \* the report's status in the API server
    cache,       \* the status in the controller's watch cache
    wake,        \* is a reconcile scheduled?
    w,           \* the reconcile in progress
    clock, errors, crashes

vars == <<kind, window, exp, injectedAt, report, cache, wake, w, clock, errors, crashes>>
spec == <<kind, window>>
experiment == <<exp, injectedAt>>
controller == <<report, cache, wake, w, errors, crashes>>

Kinds == {"analysis", "impact_map"}
Terminal == {"Succeeded", "Failed"}

History == INSTANCE ExperimentHistory
Experiment == History!Experiment
NewExperiment(g) == History!NewExperiment(g)

\* A window of time, an instant when both ends are the same.
Span == [lo: Int, hi: Int]
NoResult == [gen |-> 0]
Result == [gen: 1..MaxGen, baseline: Span, chaos: [lo: Int, hi: Nat]]

\* What the status says besides, a score or a message, is left out.
Status == [phase: {"Pending", "Completed", "Failed"}, result: Result \cup {NoResult}]

DefaultStatus == [phase |-> "Pending", result |-> NoResult]

Steps == {"idle", "get_experiment", "query_baseline", "query_chaos",
          "get_spec", "query_graph", "patch"}

\* The call that comes next, the windows in use, the metrics still to be
\* queried, the status to patch.
Worker == [pc: Steps, result: Result \cup {NoResult}, left: 0..3, patch: Status]

IdleWorker == [pc |-> "idle", result |-> NoResult, left |-> 0,
               patch |-> DefaultStatus]

TypeOK ==
    /\ kind \in Kinds /\ window \in Windows
    /\ exp \in Experiment
    /\ injectedAt \in [1..MaxGen -> Nat \cup {NoTime}]
    /\ report \in Status /\ cache \in Status
    /\ wake \in BOOLEAN
    /\ w \in Worker
    /\ clock \in 0..MaxClock /\ errors \in 0..MaxErrors /\ crashes \in 0..MaxCrashes

Init ==
    /\ kind \in Kinds /\ window \in Windows
    /\ exp = NewExperiment(1)
    /\ injectedAt = [g \in 1..MaxGen |-> NoTime]
    /\ report = DefaultStatus /\ cache = DefaultStatus
    /\ wake = TRUE
    /\ w = IdleWorker
    /\ clock = 0 /\ errors = 0 /\ crashes = 0

(***************************************************************************)
(* The referenced experiment: any life that ExperimentHistory admits,      *)
(* which ReconcilerHistory shows the experiment reconciler to implement.   *)
(***************************************************************************)
Inject == History!Inject /\ UNCHANGED <<spec, controller>>
Start == History!Start /\ UNCHANGED <<spec, controller>>
Reject == History!Reject /\ UNCHANGED <<spec, controller>>
End == History!End /\ UNCHANGED <<spec, controller>>
Delete == History!Delete /\ UNCHANGED <<spec, controller>>
Recreate == History!Recreate /\ UNCHANGED <<spec, controller>>

Tick == clock < MaxClock /\ History!Tick /\ UNCHANGED <<spec, controller>>

(***************************************************************************)
(* The controller: one reconcile at a time, requeued whatever its outcome. *)
(***************************************************************************)
Watch ==
    /\ cache # report
    /\ cache' = report /\ wake' = TRUE
    /\ UNCHANGED <<spec, experiment, report, w, clock, errors, crashes>>

Restart ==
    /\ crashes < MaxCrashes /\ crashes' = crashes + 1
    /\ cache' = report /\ wake' = TRUE /\ w' = IdleWorker
    /\ UNCHANGED <<spec, experiment, report, clock, errors>>

\* Mutant: a Failed report is given up.
IsDoneFailed == cache.phase \in {"Completed", "Failed"}

is_completed == cache.phase = "Completed"

\* The reconcile of a Completed report returns at once: a stuttering step.  The
\* cache may lag behind the last patch: the report is then made once more.
Begin ==
    /\ w.pc = "idle" /\ wake /\ ~is_completed
    /\ w' = [IdleWorker EXCEPT !.pc = "get_experiment"]
    /\ wake' = FALSE
    /\ UNCHANGED <<spec, experiment, report, cache, clock, errors, crashes>>

Fail == errors < MaxErrors /\ errors' = errors + 1

\* Both the handler and its error policy requeue.
Finish == w' = IdleWorker /\ wake' = TRUE

GotoPatch(status) == /\ w' = [w EXCEPT !.pc = "patch", !.patch = status]
                     /\ UNCHANGED wake
GotoError == GotoPatch([DefaultStatus EXCEPT !.phase = "Failed"])
GotoWaiting == GotoPatch(DefaultStatus)

\* Mutant: completedAt is not checked.
HasStart(e) == e.startedAt # NoTime

HasTimes(e) == e.startedAt # NoTime /\ e.completedAt # NoTime

\* Mutant: half the window is not subtracted.
BaselineAtStart == [lo |-> exp.startedAt, hi |-> exp.startedAt]

Instant(t) == [lo |-> t, hi |-> t]

\* An analysis takes its baseline in the middle of the window before
\* startedAt, an impact map takes a rate over that window.
Baseline ==
    IF kind = "analysis" THEN Instant(exp.startedAt - window \div 2)
    ELSE [lo |-> exp.startedAt - window, hi |-> exp.startedAt]

\* Likewise the middle of the run, or a rate over it, of a second at least.
ChaosWindow ==
    LET length == exp.completedAt - exp.startedAt
    IN IF kind = "analysis" THEN Instant(exp.startedAt + length \div 2)
       ELSE [lo |-> exp.completedAt - (IF length > 1 THEN length ELSE 1),
             hi |-> exp.completedAt]

WindowsOf == [gen |-> exp.gen, baseline |-> Baseline, chaos |-> ChaosWindow]

\* Mutant: both are an Err.
NoTimesIsErr == Finish

\* What becomes of a finished experiment that lacks a time: an analysis is an
\* Err and is not patched, an impact map is patched Failed.
NoTimes == IF kind = "analysis" THEN Finish ELSE GotoError

GetExperiment ==
    /\ w.pc = "get_experiment"
    /\ \/ /\ exp.exists /\ UNCHANGED errors
          /\ IF exp.phase \notin Terminal THEN GotoWaiting
             ELSE IF ~HasTimes(exp) THEN NoTimes
             ELSE IF window = NoWindow THEN Finish
             ELSE /\ w' = [w EXCEPT !.pc = "query_baseline", !.result = WindowsOf,
                                    !.left = IF kind = "analysis" THEN 1 ELSE 3]
                  /\ UNCHANGED wake
       \/ ~exp.exists /\ GotoError /\ UNCHANGED errors
       \/ Fail /\ GotoError
    /\ UNCHANGED <<spec, experiment, report, cache, clock, crashes>>

CompletedStatus == [phase |-> "Completed", result |-> w.result]

QueryBaseline ==
    /\ w.pc = "query_baseline"
    /\ \/ /\ w' = [w EXCEPT !.pc = "query_chaos"] /\ UNCHANGED <<wake, errors>>
       \/ Fail /\ GotoError
    /\ UNCHANGED <<spec, experiment, report, cache, clock, crashes>>

\* The last query of an analysis; an impact map has three pairs of them.
QueryChaos ==
    /\ w.pc = "query_chaos"
    /\ \/ /\ IF w.left > 1
             THEN /\ w' = [w EXCEPT !.pc = "query_baseline", !.left = @ - 1]
                  /\ UNCHANGED wake
             ELSE IF kind = "analysis" THEN GotoPatch(CompletedStatus)
             ELSE w' = [w EXCEPT !.pc = "get_spec"] /\ UNCHANGED wake
          /\ UNCHANGED errors
       \/ Fail /\ GotoError
    /\ UNCHANGED <<spec, experiment, report, cache, clock, crashes>>

\* Classification is optional: without the experiment's spec or the service
\* graph the services stay unclassified and the report completes.
GetSpec ==
    /\ w.pc = "get_spec"
    /\ \/ /\ exp.exists /\ UNCHANGED <<wake, errors>>
          /\ w' = [w EXCEPT !.pc = "query_graph"]
       \/ ((~exp.exists /\ UNCHANGED errors) \/ Fail) /\ GotoPatch(CompletedStatus)
    /\ UNCHANGED <<spec, experiment, report, cache, clock, crashes>>

QueryGraph ==
    /\ w.pc = "query_graph"
    /\ UNCHANGED errors \/ Fail
    /\ GotoPatch(CompletedStatus)
    /\ UNCHANGED <<spec, experiment, report, cache, clock, crashes>>

\* Patch::Merge: an absent result keeps the stored one.
Merge(stored, p) ==
    [phase |-> p.phase,
     result |-> IF p.result = NoResult THEN stored.result ELSE p.result]

\* A patch that fails may have been carried out all the same.
Patch ==
    /\ w.pc = "patch" /\ Finish
    /\ \/ report' = Merge(report, w.patch) /\ UNCHANGED errors
       \/ Fail /\ report' \in {report, Merge(report, w.patch)}
    /\ UNCHANGED <<spec, experiment, cache, clock, crashes>>

Call == \/ GetExperiment \/ QueryBaseline \/ QueryChaos
        \/ GetSpec \/ QueryGraph \/ Patch

Environment == Inject \/ Start \/ Reject \/ End \/ Delete \/ Recreate \/ Tick

Next == Begin \/ Call \/ Watch \/ Restart \/ Environment

Spec == Init /\ [][Next]_vars

\* The runtime runs what is scheduled and the watch is delivered.
Fairness == WF_vars(Begin) /\ WF_vars(Call) /\ WF_vars(Watch)

FairSpec == Spec /\ Fairness

(***************************************************************************)
(* Properties.                                                             *)
(***************************************************************************)

\* The windows of a report are computed from the startedAt of the last Running
\* patch, and the fault may be MaxDelay older: that much of faulted time and no
\* more gets into what the report takes for its baseline, whatever experiment of
\* that name it is about.  The sample of an analysis comes after the injection by
\* the delay less half the window at most; the rate of an impact map begins the
\* window less the delay before it at least and ends the delay after it at most.
\* The chaos window lies in the run, give or take the second that max(1) adds to
\* an impact map's (calculate_time_windows, reconcile_analysis).
BaselineMissesByTheDelay ==
    report.result # NoResult =>
        LET r == report.result
            injected == injectedAt[r.gen]
            slack == IF kind = "analysis" THEN 0 ELSE 1
        IN /\ injected # NoTime
           /\ IF kind = "analysis"
              THEN r.baseline.hi <= injected + MaxDelay - window \div 2
              ELSE /\ r.baseline.lo <= injected + MaxDelay - window
                   /\ r.baseline.hi <= injected + MaxDelay
           /\ injected - slack <= r.chaos.lo
           /\ r.chaos.hi >= injected /\ r.chaos.hi <= clock

\* A report on an experiment that stays finished with both times is made in
\* the end and stays made, through failed calls, failed patches, restarts and
\* reconciles that begin from a stale cache: Failed is retried, also when such a
\* reconcile has patched it over a verdict (the requeue in
\* reconcile_analysis_handler and the early return on Completed).
ReportCompletes ==
    window # NoWindow /\ <>[](exp.exists /\ exp.phase \in Terminal /\ HasTimes(exp))
        => <>[](report.phase = "Completed")

\* An impact map does not wait for good for an experiment that is gone or
\* over, with times or without (check_experiment_readiness).
ImpactMapSettles ==
    (/\ window # NoWindow /\ kind = "impact_map"
     /\ <>[](~exp.exists \/ exp.phase \in Terminal))
        => <>[](report.phase # "Pending")
=============================================================================
