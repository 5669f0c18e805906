------------------------------- MODULE Runner -------------------------------
(***************************************************************************)
(* One pod experiment's runners (src/src/runner/entry.rs and scenarios/),  *)
(* a pod per node under a Job each (job_builder.rs), next to the operator  *)
(* that creates, judges and deletes the Jobs.                              *)
(*                                                                         *)
(* A runner and the operator never talk: the runner ends by a timer of its *)
(* own, the operator judges by Job states and by a clock that starts       *)
(* before the pods do.  The operator's failed calls, retries and lags are  *)
(* the subject of Reconciler, except the delete_job whose error is dropped.*)
(***************************************************************************)
EXTENDS Integers, FiniteSets

CONSTANTS
    Nodes,      \* the target nodes, a Job and a runner on each
    Scenarios,  \* the scenarios the experiment may ask for
    Pods,       \* names of pods that match the selector, in the order of a list
    Replicas,   \* how many of them the workload runs
    Duration,   \* spec.duration
    MaxClock,   \* bound on the clock
    MaxFaults   \* bound on the calls and commands that fail and the pods killed

ScenarioTypes == {"PodKiller", "CpuStress", "NetworkDelay"}

ASSUME ScenarioAssumption == Scenarios \subseteq ScenarioTypes
ASSUME PodAssumption == Pods \subseteq Nat /\ IsFiniteSet(Pods) /\ Replicas \in Nat
ASSUME TimeAssumption == Duration \in Nat \ {0} /\ MaxClock \in Nat
ASSUME BoundAssumption == MaxFaults \in Nat

VARIABLES
    scenario,  \* spec.scenario
    valid,     \* does parse_config accept the parameters?
    exp,       \* the experiment's status, and the nodes that are left to the
               \* loop which creates the Jobs, or to the one that deletes them
    job,       \* job[n]: the Job of node n
    runner,    \* runner[n]: its pod
    pods,      \* pods[p]: the pods that match the selector
    targets,   \* history: the pods that were up when a runner first listed them
    clock, errors, kills

vars == <<scenario, valid, exp, job, runner, pods, targets, clock, errors, kills>>
spec == <<scenario, valid>>
workload == <<pods, targets>>

NoTime == -1
Phases == {"Pending", "Running", "Succeeded", "Failed"}
Terminal == {"Succeeded", "Failed"}
JobStates == {"absent", "active", "succeeded", "failed"}

\* A runner pod: not there, created, about to list or to add the qdisc, at work,
\* about to remove the qdisc, exited with 0 or not.
Steps == {"none", "created", "list", "delete", "stress", "tc_add", "sleep",
          "tc_del", "ok", "error"}

ExpType == [phase: Phases, startedAt: Nat \cup {NoTime},
            completedAt: Nat \cup {NoTime}, todo: SUBSET Nodes, cleaned: BOOLEAN]

\* The pods its list has left; when its load or its delay began and ended.
RunnerType == [pc: Steps, todo: SUBSET Pods,
               since: Nat \cup {NoTime}, until: Nat \cup {NoTime}]

TypeOK ==
    /\ scenario \in Scenarios /\ valid \in BOOLEAN
    /\ exp \in ExpType
    /\ exp.phase # "Pending" => exp.startedAt \in Nat
    /\ exp.phase \in Terminal => exp.completedAt \in Nat
    /\ job \in [Nodes -> JobStates]
    /\ runner \in [Nodes -> RunnerType]
    /\ pods \in [Pods -> {"unborn", "up", "terminating", "gone"}]
    /\ targets \subseteq Pods
    /\ clock \in 0..MaxClock /\ errors \in Nat /\ kills \in Nat
    /\ errors + kills <= MaxFaults

NoRunner == [pc |-> "none", todo |-> {}, since |-> NoTime, until |-> NoTime]

Up == {p \in Pods : pods[p] = "up"}

Init ==
    /\ scenario \in Scenarios /\ valid \in BOOLEAN
    /\ exp = [phase |-> "Pending", startedAt |-> NoTime, completedAt |-> NoTime,
              todo |-> Nodes, cleaned |-> FALSE]
    /\ job = [n \in Nodes |-> "absent"]
    /\ runner = [n \in Nodes |-> NoRunner]
    /\ pods \in [Pods -> {"unborn", "up"}] /\ Cardinality(Up) = Replicas
    /\ targets = {}
    /\ clock = 0 /\ errors = 0 /\ kills = 0

Fail == errors + kills < MaxFaults /\ errors' = errors + 1

(***************************************************************************)
(* The operator, in the order of handle_pending_pod, handle_running_pod    *)
(* and handle_terminal.                                                    *)
(***************************************************************************)
CreateJob(n) ==
    /\ exp.phase = "Pending" /\ n \in exp.todo
    /\ job' = [job EXCEPT ![n] = "active"]
    /\ exp' = [exp EXCEPT !.todo = @ \ {n}]
    /\ UNCHANGED <<spec, runner, workload, clock, errors, kills>>

RecordRunning ==
    /\ exp.phase = "Pending" /\ exp.todo = {}
    /\ exp' = [exp EXCEPT !.phase = "Running", !.startedAt = clock]
    /\ UNCHANGED <<spec, job, runner, workload, clock, errors, kills>>

\* Mutants: one Job that succeeded is enough; the completion time is left out.
VerdictOfAny(seen) ==
    IF "failed" \in seen THEN "Failed"
    ELSE IF "succeeded" \in seen \/ clock - exp.startedAt >= Duration
         THEN "Succeeded" ELSE "Running"
CompletedWithoutTime(verdict) == [exp EXCEPT !.phase = verdict, !.todo = Nodes]

\* seen are the states of the Jobs that list_jobs returns.
Verdict(seen) ==
    IF "failed" \in seen THEN "Failed"
    ELSE IF seen = {"succeeded"} \/ clock - exp.startedAt >= Duration
         THEN "Succeeded" ELSE "Running"

\* The cleanup will walk over status.runnerJobs.
Completed(verdict) == [exp EXCEPT !.phase = verdict, !.completedAt = clock,
                                  !.todo = Nodes]

Judge ==
    /\ exp.phase = "Running"
    /\ LET verdict == Verdict({job[n] : n \in Nodes} \ {"absent"})
       IN verdict # "Running" /\ exp' = Completed(verdict)
    /\ UNCHANGED <<spec, job, runner, workload, clock, errors, kills>>

\* delete_job with default DeleteParams: the error is dropped, and the pod of a
\* deleted batch/v1 Job is orphaned: it runs on.
DeleteJob(n) ==
    /\ exp.phase \in Terminal /\ n \in exp.todo
    /\ exp' = [exp EXCEPT !.todo = @ \ {n}]
    /\ \/ job' = [job EXCEPT ![n] = "absent"] /\ UNCHANGED errors
       \/ Fail /\ UNCHANGED job
    /\ UNCHANGED <<spec, runner, workload, clock, kills>>

RecordCleaned ==
    /\ exp.phase \in Terminal /\ exp.todo = {} /\ ~exp.cleaned
    /\ exp' = [exp EXCEPT !.cleaned = TRUE]
    /\ UNCHANGED <<spec, job, runner, workload, clock, errors, kills>>

(***************************************************************************)
(* The Job controller.  No retries: backoffLimit 0, restartPolicy Never.   *)
(***************************************************************************)
CreatePod(n) ==
    /\ job[n] = "active" /\ runner[n].pc = "none"
    /\ runner' = [runner EXCEPT ![n].pc = "created"]
    /\ UNCHANGED <<spec, exp, job, workload, clock, errors, kills>>

\* The process exits with 0 when run returns Ok.
JobEnds(n) ==
    /\ job[n] = "active" /\ runner[n].pc \in {"ok", "error"}
    /\ job' = [job EXCEPT ![n] = IF runner[n].pc = "ok" THEN "succeeded" ELSE "failed"]
    /\ UNCHANGED <<spec, exp, runner, workload, clock, errors, kills>>

\* A finished Job is removed after ttlSecondsAfterFinished, whether the operator
\* has listed it by then or not: here at any time.
JobReaped(n) ==
    /\ job[n] \in {"succeeded", "failed"}
    /\ job' = [job EXCEPT ![n] = "absent"]
    /\ UNCHANGED <<spec, exp, runner, workload, clock, errors, kills>>

(***************************************************************************)
(* The runner.                                                             *)
(***************************************************************************)
\* The bounded clock leaves time for what begins now to end.
InTime == clock + Duration <= MaxClock

AtWork(n, pc) == [runner EXCEPT ![n].pc = pc, ![n].since = clock]
Over(n, pc) == [runner EXCEPT ![n] = [@ EXCEPT !.pc = pc, !.todo = {},
                    !.until = IF runner[n].since = NoTime THEN NoTime ELSE clock]]

\* RunnerConfig::from_env, then parse_config of the scenario and, for a pod
\* killer, the Kubernetes client.
Start(n) ==
    /\ runner[n].pc = "created" /\ InTime
    /\ \/ /\ valid /\ UNCHANGED errors
          /\ \/ scenario = "PodKiller" /\ runner' = [runner EXCEPT ![n].pc = "list"]
             \/ scenario = "CpuStress" /\ runner' = AtWork(n, "stress")
             \/ scenario = "NetworkDelay" /\ runner' = [runner EXCEPT ![n].pc = "tc_add"]
       \/ ~valid /\ runner' = Over(n, "error") /\ UNCHANGED errors
       \/ scenario # "NetworkDelay" /\ Fail /\ runner' = Over(n, "error")
    /\ UNCHANGED <<spec, exp, job, workload, clock, kills>>

\* A pod that is being deleted is still listed.
Listed == {p \in Pods : pods[p] \in {"up", "terminating"}}

ListPods(n) ==
    /\ runner[n].pc = "list"
    /\ \/ /\ runner' = IF Listed = {} THEN Over(n, "ok")
                       ELSE [runner EXCEPT ![n].pc = "delete", ![n].todo = Listed]
          /\ targets' = IF targets = {} THEN Up ELSE targets
          /\ UNCHANGED errors
       \/ Fail /\ runner' = Over(n, "error") /\ UNCHANGED targets
    /\ UNCHANGED <<spec, exp, job, pods, clock, kills>>

\* Mutant: the pods are visited in any order.
NextOfAny(n) == runner[n].todo

\* Every runner visits the pods in the order of the API server's list.
NextPod(n) == {p \in runner[n].todo : \A q \in runner[n].todo : p <= q}

\* The first error ends the loop: a pod that is gone by now answers 404.
DeletePod(n) ==
    /\ runner[n].pc = "delete"
    /\ \E p \in NextPod(n) :
         \/ /\ pods[p] # "gone" /\ UNCHANGED errors
            /\ pods' = [pods EXCEPT ![p] = "terminating"]
            /\ runner' = IF runner[n].todo = {p} THEN Over(n, "ok")
                         ELSE [runner EXCEPT ![n].todo = @ \ {p}]
         \/ pods[p] = "gone" /\ runner' = Over(n, "error") /\ UNCHANGED <<pods, errors>>
         \/ /\ Fail /\ runner' = Over(n, "error")
            /\ pods' \in {pods} \cup {[pods EXCEPT ![q] = "terminating"] : q \in {p} \cap Listed}
    /\ UNCHANGED <<spec, exp, job, targets, clock, kills>>

\* Mutant: stress-ng without --timeout.
NoTimeout(n) == n \in Nodes /\ FALSE

\* The timer of stress-ng --timeout, and of the sleep.
TimeIsUp(n) == clock - runner[n].since >= Duration

Stress(n) ==
    /\ runner[n].pc = "stress"
    /\ \/ TimeIsUp(n) /\ runner' = Over(n, "ok") /\ UNCHANGED errors
       \/ Fail /\ runner' = Over(n, "error")
    /\ UNCHANGED <<spec, exp, job, workload, clock, kills>>

AddQdisc(n) ==
    /\ runner[n].pc = "tc_add" /\ InTime
    /\ \/ runner' = AtWork(n, "sleep") /\ UNCHANGED errors
       \/ Fail /\ runner' = Over(n, "error")
    /\ UNCHANGED <<spec, exp, job, workload, clock, kills>>

Sleep(n) ==
    /\ runner[n].pc = "sleep" /\ TimeIsUp(n)
    /\ runner' = [runner EXCEPT ![n].pc = "tc_del"]
    /\ UNCHANGED <<spec, exp, job, workload, clock, errors, kills>>

\* The result of tc qdisc del is dropped.  The qdisc is in the network namespace
\* of the runner's own pod and goes with it.
DelQdisc(n) ==
    /\ runner[n].pc = "tc_del" /\ runner' = Over(n, "ok")
    /\ UNCHANGED <<spec, exp, job, workload, clock, errors, kills>>

(***************************************************************************)
(* The surroundings.                                                       *)
(***************************************************************************)
Kill(n) ==
    /\ runner[n].pc \notin {"none", "ok", "error"}
    /\ errors + kills < MaxFaults /\ kills' = kills + 1
    /\ runner' = Over(n, "error")
    /\ UNCHANGED <<spec, exp, job, workload, clock, errors>>

PodGone(p) ==
    /\ pods[p] = "terminating" /\ pods' = [pods EXCEPT ![p] = "gone"]
    /\ UNCHANGED <<spec, exp, job, runner, targets, clock, errors, kills>>

\* The workload replaces a pod that is being deleted, under any new name.
Replace(p) ==
    /\ pods[p] = "unborn" /\ Cardinality(Up) < Replicas
    /\ pods' = [pods EXCEPT ![p] = "up"]
    /\ UNCHANGED <<spec, exp, job, runner, targets, clock, errors, kills>>

Tick ==
    /\ clock < MaxClock /\ clock' = clock + 1
    /\ UNCHANGED <<spec, exp, job, runner, workload, errors, kills>>

Operate == \/ RecordRunning \/ Judge \/ RecordCleaned
           \/ \E n \in Nodes : CreateJob(n) \/ DeleteJob(n)

Run(n) == \/ Start(n) \/ ListPods(n) \/ DeletePod(n) \/ Stress(n)
          \/ AddQdisc(n) \/ Sleep(n) \/ DelQdisc(n)

Next == \/ Operate
        \/ \E n \in Nodes : CreatePod(n) \/ JobEnds(n) \/ JobReaped(n)
                            \/ Run(n) \/ Kill(n)
        \/ \E p \in Pods : PodGone(p) \/ Replace(p)
        \/ Tick

Spec == Init /\ [][Next]_vars

\* Processes that are ready run and time passes.
FairSpec == Spec /\ WF_vars(Tick) /\ WF_vars(Operate)
            /\ \A n \in Nodes : WF_vars(CreatePod(n)) /\ WF_vars(JobEnds(n))
                                /\ WF_vars(Run(n))

(***************************************************************************)
(* Properties.                                                             *)
(***************************************************************************)

\* Runner n is disturbing its node, or is killing pods.
Disturbs(n) == runner[n].pc \in {"delete", "stress", "sleep", "tc_del"}

\* However the pod killers of several nodes interleave, and although a pod that
\* another one deleted first fails a runner with 404, between them they delete
\* every pod that was up when the first of them listed (delete_pods).
TargetsKilled ==
    (\A n \in Nodes : runner[n].pc \in {"ok", "error"}) /\ errors = 0 /\ kills = 0
        => \A p \in targets : pods[p] # "up"

\* Runner n exited with 0, after a load or a delay of the whole duration, or with
\* none of the pods that were to be killed left.
Earned(n) ==
    /\ runner[n].pc = "ok"
    /\ scenario # "PodKiller" => runner[n].until - runner[n].since >= Duration
    /\ scenario = "PodKiller" => \A p \in targets : pods[p] # "up"

\* An experiment that is recorded as Succeeded before its duration elapsed has done
\* its work: some runner earned it, and each of the others did or else failed and
\* has no Job any more.  When Succeeded is recorded no Job of the experiment has been
\* deleted yet, so a runner that failed is passed over only if its Job expired before
\* the operator listed it (handle_running_pod, ttl_seconds_after_finished).  That this
\* does happen is not what src/docs/arch.md:215-216 says, where one failed Job is
\* enough for Failed.
EarlySuccessIsEarned ==
    exp.phase = "Succeeded" /\ exp.completedAt - exp.startedAt < Duration =>
        /\ \E n \in Nodes : Earned(n)
        /\ \A n \in Nodes : Earned(n) \/ (runner[n].pc = "error" /\ job[n] = "absent")

\* Every disturbance ends, by the runner itself: also when its Job was deleted, a
\* cleanup was refused or the operator saw nothing of it (CpuStress and
\* NetworkDelay::execute).
ChaosEnds == <>[](\A n \in Nodes : ~Disturbs(n))

\* When an experiment is recorded as cleaned up, no load or delay of it has part of
\* its time still to run (handle_terminal, delete_job).
CleanedMeansQuiet ==
    exp.cleaned => \A n \in Nodes : Disturbs(n) => TimeIsUp(n)
=============================================================================
