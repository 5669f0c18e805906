---------------------------- MODULE RunnerProofs ----------------------------
(***************************************************************************)
(* Theorems about Runner, for any nodes, pods, scenarios and bounds.       *)
(***************************************************************************)
EXTENDS Runner, TLAPS

-----------------------------------------------------------------------------
(* Type correctness. *)

LEMMA StepType ==
    ASSUME TypeOK, NEW n \in Nodes, NEW pc \in Steps
    PROVE  /\ AtWork(n, pc) \in [Nodes -> RunnerType]
           /\ Over(n, pc) \in [Nodes -> RunnerType]
           /\ [runner EXCEPT ![n].pc = pc] \in [Nodes -> RunnerType]
<1>1. runner[n] \in RunnerType /\ clock \in Nat
  BY TimeAssumption DEF TypeOK
<1>2. ASSUME NEW s \in Nat \cup {NoTime}
      PROVE  [[runner[n] EXCEPT !.pc = pc] EXCEPT !.since = s] \in RunnerType
  BY <1>1 DEF RunnerType
<1>3. ASSUME NEW u \in Nat \cup {NoTime}
      PROVE  [[[runner[n] EXCEPT !.pc = pc] EXCEPT !.todo = {}] EXCEPT !.until = u]
                 \in RunnerType
  BY <1>1 DEF RunnerType
<1>4. [runner[n] EXCEPT !.pc = pc] \in RunnerType
  BY <1>1 DEF RunnerType
<1>5. AtWork(n, pc) \in [Nodes -> RunnerType]
  BY <1>1, <1>2 DEF AtWork, TypeOK
<1>6. Over(n, pc) \in [Nodes -> RunnerType]
  BY <1>1, <1>3 DEF Over, TypeOK
<1>7. [runner EXCEPT ![n].pc = pc] \in [Nodes -> RunnerType]
  BY <1>4 DEF TypeOK
<1> QED
  BY <1>5, <1>6, <1>7

LEMMA TypeInit == Init => TypeOK
BY TimeAssumption, BoundAssumption
   DEF Init, TypeOK, NoRunner, RunnerType, Steps, Phases, Terminal, JobStates, NoTime, ExpType

LEMMA TodoType ==
    ASSUME TypeOK, NEW n \in Nodes, NEW pc \in Steps, NEW T \in SUBSET Pods
    PROVE  /\ [runner EXCEPT ![n].pc = pc, ![n].todo = T] \in [Nodes -> RunnerType]
           /\ [runner EXCEPT ![n].todo = @ \ T] \in [Nodes -> RunnerType]
<1>1. runner[n] \in RunnerType
  BY DEF TypeOK
<1>2. /\ [[runner[n] EXCEPT !.pc = pc] EXCEPT !.todo = T] \in RunnerType
      /\ [runner[n] EXCEPT !.todo = @ \ T] \in RunnerType
  BY <1>1 DEF RunnerType
<1> QED
  BY <1>2 DEF TypeOK

\* The steps of the operator and of the Job controller.
LEMMA TypeOperator ==
    ASSUME TypeOK,
           \/ RecordRunning \/ Judge \/ RecordCleaned
           \/ \E n \in Nodes : \/ CreateJob(n) \/ DeleteJob(n) \/ CreatePod(n)
                               \/ JobEnds(n) \/ JobReaped(n)
    PROVE  TypeOK'
<1> USE BoundAssumption
<1>0. exp \in ExpType /\ clock \in Nat
  BY TimeAssumption DEF TypeOK
<1>1. ASSUME NEW n \in Nodes, CreateJob(n) PROVE TypeOK'
  <2>1. exp' = [exp EXCEPT !.todo = @ \ {n}]
    BY <1>1 DEF CreateJob
  <2>2. exp' \in ExpType /\ \A f \in {"phase", "startedAt", "completedAt"} : exp'[f] = exp[f]
    BY <1>0, <2>1 DEF ExpType
  <2> QED
    BY <1>1, <2>2 DEF CreateJob, spec, workload, JobStates, TypeOK
<1>2. CASE RecordRunning
  <2>1. exp' = [exp EXCEPT !.phase = "Running", !.startedAt = clock]
    BY <1>2 DEF RecordRunning
  <2>2. /\ exp' \in ExpType
        /\ exp'.phase = "Running" /\ exp'.startedAt \in Nat
    BY <1>0, <2>1 DEF Phases, ExpType
  <2> QED
    BY <1>2, <2>2 DEF RecordRunning, spec, workload, Terminal, TypeOK
<1>3. CASE Judge
  <2>1. PICK verdict \in {"Failed", "Succeeded"} : exp' = Completed(verdict)
    BY <1>3 DEF Judge, Verdict
  <2>2. exp.startedAt \in Nat
    BY <1>3 DEF Judge, TypeOK
  <2>3. /\ exp' \in ExpType
        /\ exp'.startedAt \in Nat /\ exp'.completedAt \in Nat
    BY <1>0, <2>1, <2>2 DEF Completed, Phases, ExpType
  <2> QED
    BY <1>3, <2>3 DEF Judge, spec, workload, TypeOK
<1>4. ASSUME NEW n \in Nodes, DeleteJob(n) PROVE TypeOK'
  <2>1. exp' = [exp EXCEPT !.todo = @ \ {n}]
    BY <1>4 DEF DeleteJob
  <2>2. exp' \in ExpType /\ \A f \in {"phase", "startedAt", "completedAt"} : exp'[f] = exp[f]
    BY <1>0, <2>1 DEF ExpType
  <2>3. job' \in [Nodes -> JobStates]
    BY <1>4 DEF DeleteJob, JobStates, TypeOK
  <2>4. errors' \in Nat /\ errors' + kills <= MaxFaults
    BY <1>4 DEF DeleteJob, Fail, TypeOK
  <2> QED
    BY <1>4, <2>2, <2>3, <2>4 DEF DeleteJob, spec, workload, TypeOK
<1>5. CASE RecordCleaned
  <2>1. exp' = [exp EXCEPT !.cleaned = TRUE]
    BY <1>5 DEF RecordCleaned
  <2>2. exp' \in ExpType /\ \A f \in {"phase", "startedAt", "completedAt"} : exp'[f] = exp[f]
    BY <1>0, <2>1 DEF ExpType
  <2> QED
    BY <1>5, <2>2 DEF RecordCleaned, spec, workload, TypeOK
<1>6. ASSUME NEW n \in Nodes, CreatePod(n) PROVE TypeOK'
  <2>1. runner' \in [Nodes -> RunnerType]
    BY <1>6, StepType DEF CreatePod, Steps
  <2> QED
    BY <1>6, <2>1 DEF CreatePod, spec, workload, TypeOK
<1>7. ASSUME NEW n \in Nodes, JobEnds(n) \/ JobReaped(n) PROVE TypeOK'
  BY <1>7 DEF JobEnds, JobReaped, spec, workload, JobStates, TypeOK
<1> QED
  BY <1>1, <1>2, <1>3, <1>4, <1>5, <1>6, <1>7

\* The steps of a runner.
LEMMA TypeRunner ==
    ASSUME TypeOK, NEW n \in Nodes, Run(n) \/ Kill(n)
    PROVE  TypeOK'
<1> USE BoundAssumption DEF Steps
<1>0. \A pc \in Steps : /\ AtWork(n, pc) \in [Nodes -> RunnerType]
                        /\ Over(n, pc) \in [Nodes -> RunnerType]
                        /\ [runner EXCEPT ![n].pc = pc] \in [Nodes -> RunnerType]
  BY StepType
<1>1. CASE Start(n)
  <2>1. runner' \in [Nodes -> RunnerType]
    BY <1>1, <1>0 DEF Start, Fail, TypeOK
  <2> QED
    BY <1>1, <2>1 DEF Start, Fail, spec, workload, TypeOK
<1>2. CASE ListPods(n)
  <2>1. runner' \in [Nodes -> RunnerType]
    <3>1. [runner EXCEPT ![n].pc = "delete", ![n].todo = Listed] \in [Nodes -> RunnerType]
      BY TodoType DEF Listed
    <3> QED
      BY <1>2, <1>0, <3>1 DEF ListPods, Fail
  <2> QED
    BY <1>2, <2>1 DEF ListPods, Fail, spec, TypeOK, Up
<1>3. CASE DeletePod(n)
  <2>1. PICK p \in NextPod(n) :
             \/ /\ pods[p] # "gone" /\ UNCHANGED errors
                /\ pods' = [pods EXCEPT ![p] = "terminating"]
                /\ runner' = IF runner[n].todo = {p} THEN Over(n, "ok")
                             ELSE [runner EXCEPT ![n].todo = @ \ {p}]
             \/ pods[p] = "gone" /\ runner' = Over(n, "error") /\ UNCHANGED <<pods, errors>>
             \/ /\ Fail /\ runner' = Over(n, "error")
                /\ pods' \in {pods} \cup {[pods EXCEPT ![q] = "terminating"] : q \in {p} \cap Listed}
    BY <1>3 DEF DeletePod
  <2>2. p \in Pods
    BY DEF NextPod, TypeOK, RunnerType
  <2>3. runner' \in [Nodes -> RunnerType]
    <3>1. [runner EXCEPT ![n].todo = @ \ {p}] \in [Nodes -> RunnerType]
      BY <2>2, {p} \in SUBSET Pods, TodoType
    <3> QED
      BY <2>1, <1>0, <3>1
  <2>4. pods' \in [Pods -> {"unborn", "up", "terminating", "gone"}]
    BY <2>1, <2>2 DEF TypeOK, Listed
  <2>5. errors' \in Nat /\ errors' + kills <= MaxFaults
    BY <2>1 DEF TypeOK, Fail
  <2> QED
    BY <1>3, <2>3, <2>4, <2>5 DEF DeletePod, spec, TypeOK
<1>4. CASE Stress(n)
  <2>1. runner' \in [Nodes -> RunnerType]
    BY <1>4, <1>0 DEF Stress, Fail, TypeOK
  <2> QED
    BY <1>4, <2>1 DEF Stress, Fail, spec, workload, TypeOK
<1>5. CASE AddQdisc(n)
  <2>1. runner' \in [Nodes -> RunnerType]
    BY <1>5, <1>0 DEF AddQdisc, Fail, TypeOK
  <2> QED
    BY <1>5, <2>1 DEF AddQdisc, Fail, spec, workload, TypeOK
<1>6. CASE Sleep(n)
  <2>1. runner' \in [Nodes -> RunnerType]
    BY <1>6, <1>0 DEF Sleep, TypeOK
  <2> QED
    BY <1>6, <2>1 DEF Sleep, spec, workload, TypeOK
<1>7. CASE DelQdisc(n)
  <2>1. runner' \in [Nodes -> RunnerType]
    BY <1>7, <1>0 DEF DelQdisc, TypeOK
  <2> QED
    BY <1>7, <2>1 DEF DelQdisc, spec, workload, TypeOK
<1>8. CASE Kill(n)
  <2>1. runner' \in [Nodes -> RunnerType]
    BY <1>8, <1>0 DEF Kill, TypeOK
  <2> QED
    BY <1>8, <2>1 DEF Kill, spec, workload, TypeOK
<1> QED
  BY <1>1, <1>2, <1>3, <1>4, <1>5, <1>6, <1>7, <1>8 DEF Run

LEMMA TypeNext == TypeOK /\ [Next]_vars => TypeOK'
<1> SUFFICES ASSUME TypeOK, [Next]_vars PROVE TypeOK'
  OBVIOUS
<1>1. CASE Operate \/ \E n \in Nodes : CreatePod(n) \/ JobEnds(n) \/ JobReaped(n)
  BY <1>1, TypeOperator DEF Operate
<1>2. ASSUME NEW n \in Nodes, Run(n) \/ Kill(n) PROVE TypeOK'
  BY <1>2, TypeRunner
<1>3. ASSUME NEW p \in Pods, PodGone(p) \/ Replace(p) PROVE TypeOK'
  BY <1>3 DEF PodGone, Replace, spec, TypeOK
<1>4. CASE Tick
  BY <1>4, TimeAssumption DEF Tick, spec, workload, TypeOK
<1>5. CASE UNCHANGED vars
  BY <1>5 DEF vars, TypeOK
<1> QED
  BY <1>1, <1>2, <1>3, <1>4, <1>5 DEF Next

\* Every reachable state has its type: in particular a run that ended has both
\* its times, and the pods a runner has left are pods.
THEOREM TypeCorrect == Spec => []TypeOK
BY TypeInit, TypeNext, PTL DEF Spec

-----------------------------------------------------------------------------
(* The inductive invariants. *)

\* Each step belongs to one scenario.
ProgramInv ==
    \A n \in Nodes :
        /\ runner[n].pc \in {"list", "delete"} => scenario = "PodKiller"
        /\ runner[n].pc = "stress" => scenario = "CpuStress"
        /\ runner[n].pc \in {"tc_add", "sleep", "tc_del"} => scenario = "NetworkDelay"

\* Pods that are being deleted or have been.
Dead == {p \in Pods : pods[p] \in {"terminating", "gone"}}

\* Until a runner found pods, no pod has been touched.  A pod killer that is done by
\* then found none and none will come, the workload being complete.
UntouchedInv ==
    targets = {} =>
        /\ \A n \in Nodes : runner[n].pc # "delete"
        /\ Dead = {} /\ Cardinality(Up) = Replicas
        /\ scenario = "PodKiller" /\ (\E n \in Nodes : runner[n].pc = "ok") => Up = {}

\* A pod killer has the targets that are up still before it.
TodoInv ==
    /\ \A p \in targets : pods[p] # "unborn"
    /\ \A n \in Nodes, p \in targets : pods[p] = "up" =>
           /\ runner[n].pc = "delete" => p \in runner[n].todo
           /\ scenario = "PodKiller" => runner[n].pc # "ok"

\* Runner n will reach target p: no pod before p that is dead is left to it, and
\* only such a pod can fail it.
Reaches(n, p) ==
    /\ runner[n].pc = "delete" /\ p \in runner[n].todo
    /\ \A q \in Dead : q < p => \A y \in runner[n].todo : q < y

LeaderInv ==
    errors = 0 /\ kills = 0 =>
        \A p \in targets : pods[p] = "up" => \E n \in Nodes : Reaches(n, p)

\* A load or a delay has a beginning, and lasts for the duration unless it fails.
TimeInv ==
    \A n \in Nodes :
        /\ runner[n].pc \in {"stress", "sleep", "tc_del"} => runner[n].since \in Nat
        /\ runner[n].pc = "tc_del" => TimeIsUp(n)
        /\ scenario # "PodKiller" /\ runner[n].pc = "ok" =>
               runner[n].until - runner[n].since >= Duration

\* A Job ends by its runner, and one that is gone before the cleanup had ended.  So
\* the Jobs that the operator lists are those of all runners but some that ended, and
\* an early success takes a runner that exited with 0 and none that did not but those.
SuccessInv ==
    /\ \A n \in Nodes : /\ job[n] = "succeeded" => runner[n].pc = "ok"
                        /\ job[n] = "failed" => runner[n].pc = "error"
    /\ \A n \in Nodes :
           /\ exp.phase = "Running" \/ (exp.phase = "Pending" /\ n \notin exp.todo)
           /\ job[n] = "absent"
           => runner[n].pc \in {"ok", "error"}
    /\ exp.phase = "Succeeded" /\ exp.completedAt - exp.startedAt < Duration =>
           /\ \E n \in Nodes : runner[n].pc = "ok"
           /\ \A n \in Nodes : \/ runner[n].pc = "ok"
                               \/ runner[n].pc = "error" /\ job[n] = "absent"

Inv == /\ TypeOK /\ ProgramInv /\ UntouchedInv /\ TodoInv /\ LeaderInv /\ TimeInv
       /\ SuccessInv

LEMMA InvInit == Init => Inv
<1> SUFFICES ASSUME Init PROVE Inv
  OBVIOUS
<1>1. TypeOK
  BY TypeInit
<1>2. \A n \in Nodes : runner[n].pc = "none" /\ job[n] = "absent"
  BY DEF Init, NoRunner
<1>3. Dead = {}
  BY DEF Init, Dead
<1> QED
  BY <1>1, <1>2, <1>3
     DEF Inv, Init, ProgramInv, UntouchedInv, TodoInv, LeaderInv, TimeInv, SuccessInv

\* What the assignments to a runner change.
LEMMA Fields ==
    ASSUME TypeOK, NEW n \in Nodes, NEW pc \in Steps
    PROVE  /\ \A m \in Nodes \ {n} : /\ [runner EXCEPT ![n].pc = pc][m] = runner[m]
                                     /\ AtWork(n, pc)[m] = runner[m]
                                     /\ Over(n, pc)[m] = runner[m]
           /\ [runner EXCEPT ![n].pc = pc][n].pc = pc
           /\ [runner EXCEPT ![n].pc = pc][n].since = runner[n].since
           /\ AtWork(n, pc)[n].pc = pc /\ AtWork(n, pc)[n].since = clock
           /\ Over(n, pc)[n].pc = pc /\ Over(n, pc)[n].since = runner[n].since
           /\ runner[n].since # NoTime => Over(n, pc)[n].until = clock
<1>1. runner[n] \in RunnerType /\ runner \in [Nodes -> RunnerType]
  BY DEF TypeOK
<1> QED
  BY <1>1 DEF AtWork, Over, RunnerType

\* The steps of the operator and of the Job controller that leave the runners alone.
LEMMA InvOperator ==
    ASSUME Inv,
           \/ RecordRunning \/ Judge \/ RecordCleaned
           \/ \E n \in Nodes : CreateJob(n) \/ DeleteJob(n) \/ JobEnds(n) \/ JobReaped(n)
    PROVE  Inv'
<1> USE DEF Inv
<1>1. UNCHANGED <<scenario, runner, pods, targets, clock, kills>>
  BY DEF RecordRunning, Judge, RecordCleaned, CreateJob, DeleteJob, JobEnds, JobReaped,
         spec, workload
<1>2. errors' = 0 => errors = 0
  BY DEF RecordRunning, Judge, RecordCleaned, CreateJob, DeleteJob, JobEnds, JobReaped,
         Fail, TypeOK
<1>3. TypeOK'
  BY TypeOperator
<1>4. ProgramInv' /\ TimeInv'
  BY <1>1 DEF ProgramInv, TimeInv, TimeIsUp
<1>5. UntouchedInv' /\ TodoInv'
  BY <1>1 DEF UntouchedInv, TodoInv, Dead, Up
<1>6. LeaderInv'
  BY <1>1, <1>2 DEF LeaderInv, Reaches, Dead
<1> DEFINE Ended(n) ==
               /\ job'[n] = "succeeded" => runner[n].pc = "ok"
               /\ job'[n] = "failed" => runner[n].pc = "error"
               /\ /\ exp'.phase = "Running" \/ (exp'.phase = "Pending" /\ n \notin exp'.todo)
                  /\ job'[n] = "absent"
                  => runner[n].pc \in {"ok", "error"}
<1>7. ASSUME NEW n \in Nodes PROVE Ended(n)
  <2> USE DEF SuccessInv
  <2>0. exp \in ExpType /\ job \in [Nodes -> JobStates]
    BY DEF TypeOK
  <2>1. CASE RecordRunning
    BY <2>0, <2>1 DEF RecordRunning, ExpType
  <2>2. CASE Judge
    <3>1. PICK verdict \in {"Failed", "Succeeded"} : exp' = Completed(verdict)
      BY <2>2 DEF Judge, Verdict
    <3>2. exp'.phase \notin {"Running", "Pending"} /\ job' = job
      BY <2>0, <2>2, <3>1 DEF Completed, ExpType, Judge
    <3> QED
      BY <3>2
  <2>3. CASE RecordCleaned
    BY <2>0, <2>3 DEF RecordCleaned, ExpType, Terminal
  <2>4. ASSUME NEW m \in Nodes, CreateJob(m) PROVE Ended(n)
    BY <2>0, <2>4 DEF CreateJob, ExpType
  <2>5. ASSUME NEW m \in Nodes, DeleteJob(m) PROVE Ended(n)
    BY <2>0, <2>5 DEF DeleteJob, ExpType, Terminal
  <2>6. ASSUME NEW m \in Nodes, JobEnds(m) \/ JobReaped(m) PROVE Ended(n)
    BY <2>0, <2>6 DEF JobEnds, JobReaped
  <2> QED
    BY <2>1, <2>2, <2>3, <2>4, <2>5, <2>6
<1>8. ASSUME exp'.phase = "Succeeded", exp'.completedAt - exp'.startedAt < Duration
      PROVE  /\ \E n \in Nodes : runner[n].pc = "ok"
             /\ \A n \in Nodes : \/ runner[n].pc = "ok"
                                 \/ runner[n].pc = "error" /\ job'[n] = "absent"
  <2>1. CASE Judge
    <3>1. PICK verdict : /\ verdict = Verdict({job[n] : n \in Nodes} \ {"absent"})
                         /\ exp' = Completed(verdict)
      BY <2>1 DEF Judge
    <3>2. exp'.phase = verdict /\ exp'.completedAt = clock /\ exp'.startedAt = exp.startedAt
      BY <3>1 DEF Completed, TypeOK, ExpType
    <3>3. {job[n] : n \in Nodes} \ {"absent"} = {"succeeded"}
      <4>1. clock - exp.startedAt < Duration
        BY <1>8, <3>2
      <4>2. clock \in Int /\ exp.startedAt \in Int /\ Duration \in Int
        BY <2>1, TimeAssumption DEF Judge, TypeOK
      <4>3. ~(clock - exp.startedAt >= Duration)
        BY <4>1, <4>2
      <4> QED
        BY <1>8, <3>1, <3>2, <4>3 DEF Verdict
    <3>4. /\ \E n \in Nodes : job[n] = "succeeded"
          /\ \A n \in Nodes : job[n] \in {"succeeded", "absent"}
      BY <3>3
    <3>5. exp.phase = "Running" /\ job' = job
      BY <2>1 DEF Judge
    <3> QED
      BY <3>4, <3>5 DEF SuccessInv
  <2>2. CASE ~Judge
    <3>1. exp'.phase = exp.phase /\ exp'.completedAt = exp.completedAt
          /\ exp'.startedAt = exp.startedAt
      BY <1>8, <2>2 DEF RecordRunning, RecordCleaned, CreateJob, DeleteJob, JobEnds,
                        JobReaped, TypeOK, ExpType
    <3>2. \A n \in Nodes : job[n] = "absent" => job'[n] = "absent"
      BY <1>8, <2>2, <3>1 DEF RecordRunning, RecordCleaned, CreateJob, DeleteJob, JobEnds,
                              JobReaped, TypeOK
    <3> QED
      BY <1>8, <3>1, <3>2 DEF SuccessInv
  <2> QED
    BY <2>1, <2>2
<1>9. SuccessInv'
  BY <1>1, <1>7, <1>8 DEF SuccessInv
<1> QED
  BY <1>3, <1>4, <1>5, <1>6, <1>9

\* The steps of a runner that leave the pods alone.
LEMMA QuietStep ==
    ASSUME Inv, NEW n \in Nodes,
           \/ CreatePod(n) \/ Start(n) \/ Stress(n) \/ AddQdisc(n) \/ Sleep(n)
           \/ DelQdisc(n) \/ Kill(n)
    PROVE  /\ UNCHANGED <<scenario, exp, job, pods, targets, clock>>
           /\ errors' = 0 /\ kills' = 0 =>
                  errors = 0 /\ kills = 0 /\ runner[n].pc # "delete"
           /\ \A m \in Nodes \ {n} : runner'[m] = runner[m]
           /\ runner[n].pc \notin {"ok", "error"} /\ runner'[n].pc # "delete"
           /\ scenario = "PodKiller" => runner'[n].pc # "ok"
           /\ runner'[n].pc = "list" => scenario = "PodKiller"
           /\ runner'[n].pc = "stress" => scenario = "CpuStress"
           /\ runner'[n].pc \in {"tc_add", "sleep", "tc_del"} => scenario = "NetworkDelay"
<1> USE DEF Inv, Steps
<1>1. UNCHANGED <<scenario, exp, job, pods, targets, clock>>
  BY DEF CreatePod, Start, Stress, AddQdisc, Sleep, DelQdisc, Kill, spec, workload
<1>2. errors' = 0 /\ kills' = 0 => errors = 0 /\ kills = 0 /\ runner[n].pc # "delete"
  BY DEF CreatePod, Start, Stress, AddQdisc, Sleep, DelQdisc, Kill, Fail, TypeOK
<1>3. runner[n].pc \notin {"ok", "error"}
  BY DEF CreatePod, Start, Stress, AddQdisc, Sleep, DelQdisc, Kill
<1>4. PICK pc \in Steps \ {"delete"} :
          /\ runner' = [runner EXCEPT ![n].pc = pc] \/ runner' = AtWork(n, pc)
             \/ runner' = Over(n, pc)
          /\ pc = "ok" => runner[n].pc \in {"stress", "tc_del"}
          /\ pc = "list" => scenario = "PodKiller"
          /\ pc = "stress" => scenario = "CpuStress"
          /\ pc \in {"tc_add", "sleep", "tc_del"} => scenario = "NetworkDelay"
  BY DEF CreatePod, Start, Stress, AddQdisc, Sleep, DelQdisc, Kill, ProgramInv
<1>5. runner'[n].pc = pc /\ \A m \in Nodes \ {n} : runner'[m] = runner[m]
  <2>1. CASE runner' = [runner EXCEPT ![n].pc = pc]
    BY <2>1, Fields
  <2>2. CASE runner' = AtWork(n, pc)
    BY <2>2, Fields
  <2>3. CASE runner' = Over(n, pc)
    BY <2>3, Fields
  <2> QED
    BY <1>4, <2>1, <2>2, <2>3
<1>6. pc = "ok" => scenario # "PodKiller"
  BY <1>4 DEF ProgramInv
<1> QED
  BY <1>1, <1>2, <1>3, <1>4, <1>5, <1>6

\* A timed scenario keeps its time.
LEMMA TimeStep ==
    ASSUME Inv, NEW n \in Nodes,
           \/ CreatePod(n) \/ Start(n) \/ Stress(n) \/ AddQdisc(n) \/ Sleep(n)
           \/ DelQdisc(n) \/ Kill(n)
    PROVE  /\ runner'[n].pc \in {"stress", "sleep", "tc_del"} => runner'[n].since \in Nat
           /\ runner'[n].pc = "tc_del" => TimeIsUp(n)'
           /\ runner'[n].pc = "ok" => runner'[n].until - runner'[n].since >= Duration
<1> USE DEF Inv, Steps
<1>1. clock \in Nat /\ UNCHANGED clock
  BY QuietStep, TimeAssumption DEF TypeOK
<1>2. ASSUME NEW pc \in Steps, runner' = [runner EXCEPT ![n].pc = pc]
      PROVE  runner'[n].pc = pc /\ runner'[n].since = runner[n].since
  BY <1>2, Fields
<1>3. ASSUME NEW pc \in Steps, runner' = AtWork(n, pc)
      PROVE  runner'[n].pc = pc /\ runner'[n].since = clock
  BY <1>3, Fields
<1>4. ASSUME NEW pc \in Steps, runner' = Over(n, pc), runner[n].since \in Nat
      PROVE  runner'[n].pc = pc /\ runner'[n].since = runner[n].since
             /\ runner'[n].until = clock
  BY <1>4, Fields DEF NoTime
<1>5. ASSUME runner' = Over(n, "error") PROVE runner'[n].pc = "error"
  BY <1>5, Fields
<1>6. CASE CreatePod(n)
  BY <1>2, <1>6 DEF CreatePod
<1>7. CASE Start(n)
  BY <1>1, <1>2, <1>3, <1>5, <1>7 DEF Start, Fail
<1>8. CASE Stress(n)
  BY <1>1, <1>4, <1>5, <1>8 DEF Stress, Fail, TimeInv, TimeIsUp
<1>9. CASE AddQdisc(n)
  BY <1>1, <1>3, <1>5, <1>9 DEF AddQdisc, Fail
<1>10. CASE Sleep(n)
  BY <1>1, <1>2, <1>10 DEF Sleep, TimeInv, TimeIsUp
<1>11. CASE DelQdisc(n)
  BY <1>1, <1>4, <1>11 DEF DelQdisc, TimeInv, TimeIsUp
<1>12. CASE Kill(n)
  BY <1>5, <1>12 DEF Kill
<1> QED
  BY <1>6, <1>7, <1>8, <1>9, <1>10, <1>11, <1>12

LEMMA InvQuiet ==
    ASSUME Inv, NEW n \in Nodes,
           \/ CreatePod(n) \/ Start(n) \/ Stress(n) \/ AddQdisc(n) \/ Sleep(n)
           \/ DelQdisc(n) \/ Kill(n)
    PROVE  Inv'
<1> USE DEF Inv
<1>1. TypeOK'
  BY TypeOperator, TypeRunner DEF Run
<1>2. ProgramInv'
  BY QuietStep DEF ProgramInv
<1>3. UntouchedInv'
  BY QuietStep DEF UntouchedInv, Dead, Up
<1>4. TodoInv'
  BY QuietStep DEF TodoInv
<1>5. LeaderInv'
  BY QuietStep DEF LeaderInv, Reaches, Dead
<1>6. TimeInv'
  BY QuietStep, TimeStep DEF TimeInv, TimeIsUp
<1>7. SuccessInv'
  BY QuietStep DEF SuccessInv
<1> QED
  BY <1>1, <1>2, <1>3, <1>4, <1>5, <1>6, <1>7

\* A list: the first one that finds pods sets the targets.
LEMMA InvList ==
    ASSUME Inv, NEW n \in Nodes, ListPods(n)
    PROVE  Inv'
<1> USE DEF Inv, Steps
<1>1. TypeOK'
  BY TypeRunner DEF Run
<1>2. /\ UNCHANGED <<scenario, exp, job, pods, clock, kills>>
      /\ runner[n].pc = "list" /\ scenario = "PodKiller"
  BY DEF ListPods, spec, ProgramInv
<1>3. \A m \in Nodes \ {n} : runner'[m] = runner[m]
  BY Fields DEF ListPods, TypeOK
<1>4. CASE errors' # 0 /\ UNCHANGED targets /\ runner'[n].pc = "error"
  <2>1. ProgramInv' /\ UntouchedInv' /\ TodoInv' /\ LeaderInv' /\ TimeInv' /\ SuccessInv'
    BY <1>2, <1>3, <1>4 DEF ProgramInv, UntouchedInv, TodoInv, LeaderInv, TimeInv, SuccessInv,
                            Dead, Up, TimeIsUp
  <2> QED
    BY <1>1, <2>1
<1>5. CASE /\ targets' = IF targets = {} THEN Up ELSE targets
           /\ UNCHANGED errors
           /\ Listed = {} => runner'[n].pc = "ok"
           /\ Listed # {} => runner'[n].pc = "delete" /\ runner'[n].todo = Listed
  <2>1. Up \subseteq Listed /\ (targets = {} => Listed = Up)
    BY DEF Up, Listed, UntouchedInv, Dead
  <2>2. ProgramInv' /\ TimeInv' /\ SuccessInv'
    BY <1>2, <1>3, <1>5 DEF ProgramInv, TimeInv, TimeIsUp, SuccessInv
  <2>3. UntouchedInv'
    BY <1>2, <1>3, <1>5, <2>1 DEF UntouchedInv, Dead, Up
  <2>4. TodoInv'
    <3>1. \A p \in targets' : pods[p] # "unborn" /\ (pods[p] = "up" => p \in Listed)
      BY <1>5, <2>1 DEF TodoInv, Up, TypeOK
    <3>2. ASSUME NEW m \in Nodes \ {n}, NEW p \in targets', pods[p] = "up"
          PROVE  runner[m].pc # "ok" /\ (runner[m].pc = "delete" => p \in runner[m].todo)
      BY <1>2, <1>5, <3>2 DEF TodoInv, UntouchedInv
    <3> QED
      BY <1>2, <1>3, <1>5, <3>1, <3>2 DEF TodoInv
  <2>5. LeaderInv'
    <3> SUFFICES ASSUME errors = 0, kills = 0, NEW p \in targets', pods[p] = "up"
                 PROVE  \E m \in Nodes : Reaches(m, p)'
      BY <1>2, <1>5 DEF LeaderInv
    <3>1. CASE targets = {}
      <4>1. Dead' = {} /\ p \in Listed
        BY <1>2, <1>5, <2>1, <3>1 DEF UntouchedInv, Dead
      <4> QED
        BY <1>5, <4>1 DEF Reaches
    <3>2. CASE targets # {}
      <4>1. PICK m \in Nodes : Reaches(m, p)
        BY <1>5, <3>2 DEF LeaderInv
      <4>2. runner'[m] = runner[m]
        BY <1>2, <1>3, <4>1 DEF Reaches
      <4> QED
        BY <1>2, <4>1, <4>2 DEF Reaches, Dead
    <3> QED
      BY <3>1, <3>2
  <2> QED
    BY <1>1, <2>2, <2>3, <2>4, <2>5
<1>6. CASE Fail /\ runner' = Over(n, "error") /\ UNCHANGED targets
  <2>1. errors' # 0 /\ runner'[n].pc = "error"
    BY <1>6, Fields DEF Fail, TypeOK
  <2> QED
    BY <1>4, <1>6, <2>1
<1>7. CASE /\ runner' = IF Listed = {} THEN Over(n, "ok")
                        ELSE [runner EXCEPT ![n].pc = "delete", ![n].todo = Listed]
           /\ targets' = IF targets = {} THEN Up ELSE targets
           /\ UNCHANGED errors
  <2>1. Listed = {} => runner'[n].pc = "ok"
    BY <1>7, Fields
  <2>2. runner[n] \in RunnerType /\ runner \in [Nodes -> RunnerType]
    BY DEF TypeOK
  <2>3. Listed # {} => runner'[n].pc = "delete" /\ runner'[n].todo = Listed
    BY <1>7, <2>2 DEF RunnerType
  <2> QED
    BY <1>5, <1>7, <2>1, <2>3
<1> QED
  BY <1>6, <1>7 DEF ListPods

\* A runner that goes on from pod p, which is dead from now on.
LEMMA InvDeleted ==
    ASSUME Inv, NEW n \in Nodes, NEW p \in NextPod(n), DeletePod(n),
           pods[p] # "gone", UNCHANGED errors,
           pods' = [pods EXCEPT ![p] = "terminating"],
           runner' = IF runner[n].todo = {p} THEN Over(n, "ok")
                     ELSE [runner EXCEPT ![n].todo = @ \ {p}]
    PROVE  Inv'
<1> USE DEF Inv, Steps
<1>1. TypeOK'
  BY TypeRunner DEF Run
<1>2. /\ UNCHANGED <<scenario, exp, job, targets, clock, kills>>
      /\ runner[n].pc = "delete" /\ scenario = "PodKiller" /\ targets # {}
  BY DEF DeletePod, spec, ProgramInv, UntouchedInv
<1>3. \A m \in Nodes \ {n} : runner'[m] = runner[m]
  BY Fields DEF TypeOK
<1>4. /\ runner[n].todo = {p} => runner'[n].pc = "ok"
      /\ runner[n].todo # {p} => /\ runner'[n].pc = "delete"
                                 /\ runner'[n].todo = runner[n].todo \ {p}
  <2>1. runner[n].todo = {p} => runner'[n].pc = "ok"
    BY Fields
  <2>2. runner[n] \in RunnerType /\ runner \in [Nodes -> RunnerType]
    BY DEF TypeOK
  <2>3. runner[n].todo # {p} => /\ runner'[n].pc = "delete"
                                /\ runner'[n].todo = runner[n].todo \ {p}
    BY <1>2, <2>2 DEF RunnerType
  <2> QED
    BY <2>1, <2>3
<1>5. /\ p \in Pods /\ p \in runner[n].todo /\ runner[n].todo \subseteq Pods
      /\ \A y \in runner[n].todo : p <= y
  BY DEF NextPod, TypeOK, RunnerType
<1>6. /\ pods'[p] = "terminating" /\ \A q \in Pods \ {p} : pods'[q] = pods[q]
      /\ Dead' = Dead \cup {p}
  BY <1>5 DEF TypeOK, Dead
<1>7. targets \subseteq Pods /\ Pods \subseteq Nat
  BY PodAssumption DEF TypeOK
<1>8. ProgramInv' /\ UntouchedInv' /\ TimeInv' /\ SuccessInv'
  BY <1>2, <1>3, <1>4 DEF ProgramInv, UntouchedInv, TimeInv, TimeIsUp, SuccessInv
<1>9. TodoInv'
  BY <1>2, <1>3, <1>4, <1>6, <1>7 DEF TodoInv
<1>10. LeaderInv'
  <2> SUFFICES ASSUME errors = 0, kills = 0, NEW t \in targets, pods'[t] = "up"
               PROVE  \E m \in Nodes : Reaches(m, t)'
    BY <1>2 DEF LeaderInv
  <2>1. t # p /\ pods[t] = "up" /\ t \in runner[n].todo /\ runner[n].todo # {p}
    BY <1>2, <1>6, <1>7 DEF TodoInv
  <2>2. PICK m \in Nodes : Reaches(m, t)
    BY <2>1 DEF LeaderInv
  <2>3. runner[m].todo \subseteq Pods /\ Dead \subseteq Pods
    BY DEF TypeOK, RunnerType, Dead
  <2>4. CASE m # n /\ \A y \in runner[m].todo : p < y
    BY <1>3, <1>6, <2>2, <2>4 DEF Reaches
  <2>5. CASE m = n \/ \E y \in runner[m].todo : ~(p < y)
    <3>1. runner'[n].pc = "delete" /\ t \in runner'[n].todo
      BY <1>4, <2>1
    <3>2. ASSUME NEW q \in Dead', q < t, NEW y \in runner'[n].todo
          PROVE  q < y
      <4>1. p < y /\ y \in Nat /\ p \in Nat
        BY <1>4, <1>5, <1>7, <2>1
      <4>2. CASE q = p
        BY <4>1, <4>2
      <4>3. CASE q \in Dead
        <5>1. PICK z \in runner[m].todo : z <= y
          <6>1. CASE m = n
            BY <1>4, <1>5, <1>7, <2>1, <4>1, <6>1
          <6>2. CASE m # n
            BY <1>7, <2>3, <2>5, <4>1, <6>2
          <6> QED
            BY <6>1, <6>2
        <5>2. q < z
          BY <2>2, <3>2, <4>3 DEF Reaches
        <5> QED
          BY <1>7, <2>3, <4>1, <4>3, <5>1, <5>2
      <4> QED
        BY <1>6, <4>2, <4>3
    <3> QED
      BY <3>1, <3>2 DEF Reaches
  <2> QED
    BY <2>4, <2>5
<1> QED
  BY <1>1, <1>8, <1>9, <1>10

\* A runner that ends with an error, at a pod that is gone or by a failed call that
\* may have deleted the pod.
LEMMA InvDeleteFails ==
    ASSUME Inv, NEW n \in Nodes, NEW p \in NextPod(n), DeletePod(n),
           runner' = Over(n, "error"),
           \/ pods[p] = "gone" /\ UNCHANGED <<pods, errors>>
           \/ Fail /\ pods' \in {pods} \cup {[pods EXCEPT ![q] = "terminating"] :
                                                 q \in {p} \cap Listed}
    PROVE  Inv'
<1> USE DEF Inv, Steps
<1>1. TypeOK'
  BY TypeRunner DEF Run
<1>2. /\ UNCHANGED <<scenario, exp, job, targets, clock, kills>>
      /\ runner[n].pc = "delete" /\ scenario = "PodKiller" /\ targets # {}
  BY DEF DeletePod, spec, ProgramInv, UntouchedInv
<1>3. (\A m \in Nodes \ {n} : runner'[m] = runner[m]) /\ runner'[n].pc = "error"
  BY Fields
<1>4. targets \subseteq Pods /\ \A q \in Pods : pods'[q] # pods[q] => pods'[q] = "terminating"
  BY DEF TypeOK, Listed
<1>5. ProgramInv' /\ UntouchedInv' /\ TimeInv' /\ SuccessInv'
  BY <1>2, <1>3 DEF ProgramInv, UntouchedInv, TimeInv, TimeIsUp, SuccessInv
<1>6. TodoInv'
  BY <1>2, <1>3, <1>4 DEF TodoInv
<1>7. LeaderInv'
  <2>1. CASE Fail
    BY <2>1 DEF LeaderInv, Fail, TypeOK
  <2>2. CASE pods[p] = "gone" /\ UNCHANGED <<pods, errors>>
    <3> SUFFICES ASSUME errors = 0, kills = 0, NEW t \in targets, pods[t] = "up"
                 PROVE  \E m \in Nodes : Reaches(m, t)'
      BY <1>2, <2>2 DEF LeaderInv
    <3>1. PICK m \in Nodes : Reaches(m, t)
      BY DEF LeaderInv
    <3>2. m # n
      <4>1. t \in runner[n].todo
        BY <1>2 DEF TodoInv
      <4>2. p \in Dead /\ p \in runner[n].todo /\ p # t /\ p <= t /\ p \in Nat /\ t \in Nat
        BY <1>4, <2>2, <4>1, PodAssumption DEF NextPod, Dead, TypeOK, RunnerType
      <4> QED
        BY <3>1, <4>2 DEF Reaches
    <3> QED
      BY <1>3, <2>2, <3>1, <3>2 DEF Reaches, Dead
  <2> QED
    BY <2>1, <2>2
<1> QED
  BY <1>1, <1>5, <1>6, <1>7

\* The workload and the clock.
LEMMA InvSurroundings ==
    ASSUME Inv, Tick \/ \E p \in Pods : PodGone(p) \/ Replace(p)
    PROVE  Inv'
<1> USE DEF Inv
<1>1. TypeOK'
  BY TypeNext DEF Next
<1>2. UNCHANGED <<scenario, exp, job, runner, targets, errors, kills>>
  BY DEF Tick, PodGone, Replace, spec, workload
<1>3. ProgramInv' /\ SuccessInv'
  BY <1>2 DEF ProgramInv, SuccessInv
<1>4. TimeInv'
  <2>1. clock \in Nat /\ (clock' = clock \/ clock' = clock + 1)
    BY TimeAssumption DEF Tick, PodGone, Replace, TypeOK
  <2>2. \A n \in Nodes : runner[n].pc = "tc_del" => TimeIsUp(n)'
    BY <1>2, <2>1, TimeAssumption DEF TimeInv, TimeIsUp
  <2> QED
    BY <1>2, <2>2 DEF TimeInv
<1>5. CASE Tick
  <2>1. pods' = pods
    BY <1>5 DEF Tick, workload
  <2> QED
    BY <1>1, <1>2, <1>3, <1>4, <2>1
       DEF UntouchedInv, TodoInv, LeaderInv, Reaches, Dead, Up
<1>6. ASSUME NEW p \in Pods, PodGone(p) PROVE Inv'
  <2>1. /\ Dead' = Dead /\ p \in Dead /\ Up' = Up
        /\ \A q \in Pods : (pods'[q] = "up") = (pods[q] = "up")
        /\ \A q \in Pods : (pods'[q] = "unborn") = (pods[q] = "unborn")
    BY <1>6 DEF PodGone, Dead, Up, TypeOK
  <2>2. targets \subseteq Pods
    BY DEF TypeOK
  <2>3. UntouchedInv' /\ TodoInv' /\ LeaderInv'
    BY <1>2, <2>1, <2>2 DEF UntouchedInv, TodoInv, LeaderInv, Reaches
  <2> QED
    BY <1>1, <1>3, <1>4, <2>3
<1>7. ASSUME NEW p \in Pods, Replace(p) PROVE Inv'
  <2>1. targets # {} /\ p \notin targets /\ targets \subseteq Pods
    BY <1>7, PodAssumption DEF Replace, UntouchedInv, TodoInv, TypeOK
  <2>2. Dead' = Dead /\ \A q \in Pods \ {p} : pods'[q] = pods[q]
    BY <1>7 DEF Replace, Dead, TypeOK
  <2>3. UntouchedInv' /\ TodoInv' /\ LeaderInv'
    BY <1>2, <2>1, <2>2 DEF UntouchedInv, TodoInv, LeaderInv, Reaches
  <2> QED
    BY <1>1, <1>3, <1>4, <2>3
<1> QED
  BY <1>5, <1>6, <1>7

LEMMA InvNext == Inv /\ [Next]_vars => Inv'
<1> SUFFICES ASSUME Inv, [Next]_vars PROVE Inv'
  OBVIOUS
<1>1. CASE Operate \/ \E n \in Nodes : JobEnds(n) \/ JobReaped(n)
  BY <1>1, InvOperator DEF Operate
<1>2. ASSUME NEW n \in Nodes, CreatePod(n) \/ Run(n) \/ Kill(n) PROVE Inv'
  <2>1. ASSUME DeletePod(n) PROVE Inv'
    BY <2>1, InvDeleted, InvDeleteFails DEF DeletePod
  <2> QED
    BY <1>2, <2>1, InvList, InvQuiet DEF Run
<1>3. CASE Tick \/ \E p \in Pods : PodGone(p) \/ Replace(p)
  BY <1>3, InvSurroundings
<1>4. CASE UNCHANGED vars
  BY <1>4 DEF vars, spec, workload, Inv, TypeOK, ProgramInv, UntouchedInv, TodoInv,
              LeaderInv, TimeInv, SuccessInv, Reaches, Dead, Up, TimeIsUp
<1> QED
  BY <1>1, <1>2, <1>3, <1>4 DEF Next

-----------------------------------------------------------------------------
(* The theorems. *)

\* However many pod killers race over however many pods, those that were up when the
\* first of them listed are all deleted when the last one ends, unless a call failed
\* or a runner was killed (delete_pods).
THEOREM PodKillersFinish == Spec => []TargetsKilled
<1>1. Inv => TargetsKilled
  BY DEF Inv, TargetsKilled, LeaderInv, Reaches
<1> QED
  BY <1>1, InvInit, InvNext, PTL DEF Spec

\* Success before the duration is up means that a runner did its work, and every other
\* one too but those whose Jobs had failed and expired, whatever the operator saw and
\* when (handle_running_pod, run).
THEOREM EarlySuccess == Spec => []EarlySuccessIsEarned
<1>1. ASSUME Inv, NEW n \in Nodes, runner[n].pc = "ok" PROVE Earned(n)
  BY <1>1 DEF Inv, Earned, TimeInv, TodoInv
<1>2. Inv => EarlySuccessIsEarned
  BY <1>1 DEF Inv, EarlySuccessIsEarned, SuccessInv
<1> QED
  BY <1>2, InvInit, InvNext, PTL DEF Spec
=============================================================================
