---------------------------- MODULE ReportsProofs ----------------------------
(***************************************************************************)
(* Theorems about Reports, for any windows, delays and bounds.             *)
(***************************************************************************)
EXTENDS Reports, TLAPS

-----------------------------------------------------------------------------
(* Type correctness. *)

LEMMA StatusTypes ==
    /\ DefaultStatus \in Status
    /\ [DefaultStatus EXCEPT !.phase = "Failed"] \in Status
    /\ IdleWorker \in Worker
<1>1. DefaultStatus \in Status
  BY DEF DefaultStatus, Status
<1>2. [DefaultStatus EXCEPT !.phase = "Failed"] \in Status
  BY DEF DefaultStatus, Status
<1>3. IdleWorker \in Worker
  BY <1>1 DEF IdleWorker, Worker, Steps
<1> QED
  BY <1>1, <1>2, <1>3

LEMMA MergeType ==
    ASSUME NEW s \in Status, NEW p \in Status
    PROVE  Merge(s, p) \in Status
BY DEF Merge, Status

LEMMA TypeInit == Init => TypeOK
<1> SUFFICES ASSUME Init PROVE TypeOK
  OBVIOUS
<1>1. exp \in Experiment
  BY BoundAssumption DEF Init, Experiment, NewExperiment, History!Experiment,
     History!NewExperiment, History!Time, History!NoTime
<1> QED
  BY <1>1, StatusTypes, BoundAssumption DEF Init, TypeOK, NoTime

\* What the experiment does.
LEMMA TypeEnvironment == ASSUME TypeOK, Environment PROVE TypeOK'
<1> USE DEF spec, experiment, controller
<1>0. /\ exp \in [exists: BOOLEAN, gen: 1..MaxGen,
                  phase: {"Pending", "Running", "Succeeded", "Failed"},
                  startedAt: Nat \cup {NoTime}, completedAt: Nat \cup {NoTime}]
      /\ clock \in Nat /\ MaxGen \in Nat /\ clock <= MaxClock /\ MaxClock \in Nat
      /\ injectedAt \in [1..MaxGen -> Nat \cup {NoTime}]
  BY BoundAssumption DEF TypeOK, Experiment, History!Experiment, History!Terminal,
                         History!Time, History!NoTime, NoTime
<1>1. UNCHANGED <<kind, window, report, cache, wake, w, errors, crashes>>
  BY DEF Environment, Inject, Start, Reject, End, Delete, Recreate, Tick
<1>2. clock' \in 0..MaxClock
  <2>1. clock' = clock \/ (clock < MaxClock /\ clock' = clock + 1)
    <3>1. CASE Tick
      BY <3>1 DEF Tick, History!Tick
    <3>2. CASE Inject \/ Start \/ Reject
      BY <3>2 DEF Inject, Start, Reject, History!Inject, History!Start, History!Reject
    <3>3. CASE End \/ Delete \/ Recreate
      BY <3>3 DEF End, Delete, Recreate, History!End, History!Delete, History!Recreate
    <3> QED
      BY <3>1, <3>2, <3>3 DEF Environment
  <2> QED
    BY <1>0, <2>1
<1>3. injectedAt' \in [1..MaxGen -> Nat \cup {NoTime}]
  BY <1>0 DEF Environment, Inject, Start, Reject, End, Delete, Recreate, Tick,
     History!Inject, History!Start, History!Reject, History!End, History!Delete,
     History!Recreate, History!Tick
<1>4. exp' \in [exists: BOOLEAN, gen: 1..MaxGen,
                phase: {"Pending", "Running", "Succeeded", "Failed"},
                startedAt: Nat \cup {NoTime}, completedAt: Nat \cup {NoTime}]
  <2>1. CASE Start
    <3>1. PICK t \in injectedAt[exp.gen]..clock :
              exp' = [exp EXCEPT !.phase = "Running", !.startedAt = t]
      BY <2>1 DEF Start, History!Start
    <3>2. t \in Nat
      <4>1. injectedAt[exp.gen] \in Nat
        BY <1>0, <2>1 DEF Start, History!Start, History!NoTime, NoTime
      <4> QED
        BY <1>0, <3>1, <4>1
    <3> QED
      BY <1>0, <3>1, <3>2
  <2>2. CASE End
    <3>1. PICK p \in {"Succeeded", "Failed"}, t \in exp.startedAt..clock :
              exp' = [exp EXCEPT !.phase = p, !.completedAt = t]
      BY <2>2 DEF End, History!End, History!Terminal
    <3>2. t \in Nat \cup {NoTime}
      BY <1>0, <3>1 DEF NoTime
    <3> QED
      BY <1>0, <3>1, <3>2
  <2>3. CASE Recreate
    BY <1>0, <2>3 DEF Recreate, History!Recreate, History!NewExperiment, History!NoTime, NoTime
  <2>4. CASE Inject \/ Reject \/ Delete \/ Tick
    BY <1>0, <2>4 DEF Inject, Reject, Delete, Tick, History!Inject, History!Reject,
                      History!Delete, History!Tick
  <2> QED
    BY <2>1, <2>2, <2>3, <2>4 DEF Environment
<1>5. exp' \in Experiment
  BY <1>4 DEF Experiment, History!Experiment, History!Terminal, History!Time,
              History!NoTime, NoTime
<1> QED
  BY <1>1, <1>2, <1>3, <1>5 DEF TypeOK

LEMMA WindowsType ==
    ASSUME TypeOK, HasTimes(exp)
    PROVE  WindowsOf \in Result
<1>1. /\ exp.startedAt \in Nat /\ exp.completedAt \in Nat /\ exp.gen \in 1..MaxGen
      /\ window \in Int
  BY WindowsAssumption DEF TypeOK, HasTimes, Experiment, History!Experiment,
     History!Time, History!NoTime, NoTime, NoWindow
<1>2. Baseline \in Span
  <2>1. window \div 2 \in Int
    BY <1>1
  <2> QED
    BY <1>1, <2>1 DEF Baseline, Instant, Span
<1>3. ChaosWindow \in [lo: Int, hi: Nat]
  <2> DEFINE length == exp.completedAt - exp.startedAt
  <2>1. length \in Int /\ length \div 2 \in Int
    BY <1>1
  <2>2. exp.startedAt + length \div 2 \in Nat
    BY <1>1, <2>1
  <2> QED
    BY <1>1, <2>1, <2>2 DEF ChaosWindow, Instant
<1> QED
  BY <1>1, <1>2, <1>3 DEF WindowsOf, Result

\* What the controller does.
LEMMA TypeCall == ASSUME TypeOK, Call PROVE TypeOK'
<1> USE StatusTypes, BoundAssumption
<1>0. w \in Worker /\ report \in Status /\ w.patch \in Status /\ w.result \in Result \cup {NoResult}
  BY DEF TypeOK, Worker
<1>1. UNCHANGED <<kind, window, exp, injectedAt, cache, clock, crashes>>
  BY DEF Call, GetExperiment, QueryBaseline, QueryChaos, GetSpec, QueryGraph, Patch,
         spec, experiment
<1>2. errors' \in 0..MaxErrors
  <2>1. errors' = errors \/ (errors < MaxErrors /\ errors' = errors + 1)
    <3>1. CASE GetExperiment
      BY <3>1 DEF GetExperiment, Fail
    <3>2. CASE QueryBaseline \/ QueryChaos
      BY <3>2 DEF QueryBaseline, QueryChaos, Fail
    <3>3. CASE GetSpec
      BY <3>3 DEF GetSpec, Fail
    <3>4. CASE QueryGraph \/ Patch
      BY <3>4 DEF QueryGraph, Patch, Fail
    <3> QED
      BY <3>1, <3>2, <3>3, <3>4 DEF Call
  <2> QED
    BY <2>1 DEF TypeOK
<1>3. wake' \in BOOLEAN
  BY DEF Call, GetExperiment, QueryBaseline, QueryChaos, GetSpec, QueryGraph, Patch,
         NoTimes, GotoError, GotoWaiting, GotoPatch, Finish, TypeOK
<1>4. report' \in Status
  BY <1>0, MergeType DEF Call, GetExperiment, QueryBaseline, QueryChaos, GetSpec,
                         QueryGraph, Patch
<1>5. \A s \in Status : GotoPatch(s) => w' \in Worker
  BY <1>0 DEF GotoPatch, Worker, Steps
<1>6. CompletedStatus \in Status
  BY <1>0 DEF CompletedStatus, Status
<1>7. w' \in Worker
  <2>1. CASE GetExperiment
    <3>1. CASE /\ HasTimes(exp)
               /\ w' = [w EXCEPT !.pc = "query_baseline", !.result = WindowsOf,
                                 !.left = IF kind = "analysis" THEN 1 ELSE 3]
      <4>1. WindowsOf \in Result /\ (IF kind = "analysis" THEN 1 ELSE 3) \in 0..3
        BY <3>1, WindowsType
      <4>2. \A r \in Result, n \in 0..3 :
                [w EXCEPT !.pc = "query_baseline", !.result = r, !.left = n] \in Worker
        BY <1>0 DEF Worker, Steps
      <4> QED
        BY <3>1, <4>1, <4>2
    <3>2. CASE GotoError \/ GotoWaiting \/ Finish
      BY <1>5, <3>2 DEF GotoError, GotoWaiting, Finish
    <3> QED
      BY <2>1, <3>1, <3>2 DEF GetExperiment, NoTimes
  <2>2. CASE QueryBaseline
    BY <1>0, <1>5, <2>2 DEF QueryBaseline, GotoError, Worker, Steps
  <2>3. CASE QueryChaos
    <3>1. w.left > 1 => [w EXCEPT !.pc = "query_baseline", !.left = @ - 1] \in Worker
      <4>1. w.left \in 0..3 /\ (w.left > 1 => w.left - 1 \in 0..3)
        BY <1>0 DEF Worker
      <4>2. \A n \in 0..3 : [w EXCEPT !.pc = "query_baseline", !.left = n] \in Worker
        BY <1>0 DEF Worker, Steps
      <4> QED
        BY <4>1, <4>2
    <3>2. [w EXCEPT !.pc = "get_spec"] \in Worker
      BY <1>0 DEF Worker, Steps
    <3> QED
      BY <1>5, <1>6, <2>3, <3>1, <3>2 DEF QueryChaos, GotoError
  <2>4. CASE GetSpec
    BY <1>0, <1>5, <1>6, <2>4 DEF GetSpec, Worker, Steps
  <2>5. CASE QueryGraph
    BY <1>5, <1>6, <2>5 DEF QueryGraph
  <2>6. CASE Patch
    BY <2>6 DEF Patch, Finish
  <2> QED
    BY <2>1, <2>2, <2>3, <2>4, <2>5, <2>6 DEF Call
<1> QED
  BY <1>1, <1>2, <1>3, <1>4, <1>7 DEF TypeOK

LEMMA TypeNext == TypeOK /\ [Next]_vars => TypeOK'
<1> SUFFICES ASSUME TypeOK, [Next]_vars PROVE TypeOK'
  OBVIOUS
<1> USE StatusTypes, BoundAssumption DEF TypeOK, spec, experiment
<1>1. CASE Begin
  <2>1. w' \in Worker
    BY <1>1 DEF Begin, Worker, Steps
  <2> QED
    BY <1>1, <2>1 DEF Begin
<1>2. CASE Call
  BY <1>2, TypeCall
<1>3. CASE Watch
  BY <1>3 DEF Watch
<1>4. CASE Restart
  BY <1>4 DEF Restart
<1>5. CASE Environment
  BY <1>5, TypeEnvironment
<1>6. CASE UNCHANGED vars
  BY <1>6 DEF vars
<1> QED
  BY <1>1, <1>2, <1>3, <1>4, <1>5, <1>6 DEF Next

\* Every reachable state has its type: the windows of a result are windows, its
\* experiment one that was created.
THEOREM TypeCorrect == Spec => []TypeOK
BY TypeInit, TypeNext, PTL DEF Spec

-----------------------------------------------------------------------------
(* The windows of a result. *)

\* The times of the experiment: of a run that began after the injection, by MaxDelay
\* at most, and ended after it began.
TimesInv ==
    /\ exp.startedAt # NoTime =>
          /\ injectedAt[exp.gen] # NoTime
          /\ injectedAt[exp.gen] <= exp.startedAt
          /\ exp.startedAt <= injectedAt[exp.gen] + MaxDelay
          /\ exp.startedAt <= clock
    /\ exp.completedAt # NoTime =>
          /\ exp.phase \in Terminal
          /\ exp.startedAt <= exp.completedAt /\ exp.completedAt <= clock
    /\ exp.phase = "Running" => exp.startedAt # NoTime
    /\ \A g \in 1..MaxGen : injectedAt[g] <= clock

\* BaselineMissesByTheDelay of any result.
Misses(r) ==
    LET injected == injectedAt[r.gen]
        slack == IF kind = "analysis" THEN 0 ELSE 1
    IN /\ injected # NoTime
       /\ IF kind = "analysis"
          THEN r.baseline.hi <= injected + MaxDelay - window \div 2
          ELSE /\ r.baseline.lo <= injected + MaxDelay - window
               /\ r.baseline.hi <= injected + MaxDelay
       /\ injected - slack <= r.chaos.lo
       /\ r.chaos.hi >= injected /\ r.chaos.hi <= clock

\* What the reconcile holds, will patch or has patched.
ResultsInv ==
    \A r \in {report.result, w.result, w.patch.result} : r # NoResult => Misses(r)

WindowsInv == TypeOK /\ TimesInv /\ ResultsInv

LEMMA ExperimentTypes ==
    ASSUME TypeOK
    PROVE  /\ exp \in [exists: BOOLEAN, gen: 1..MaxGen,
                       phase: {"Pending", "Running", "Succeeded", "Failed"},
                       startedAt: Nat \cup {-1}, completedAt: Nat \cup {-1}]
           /\ injectedAt \in [1..MaxGen -> Nat \cup {-1}]
           /\ clock \in Nat /\ MaxGen \in Nat /\ MaxDelay \in Nat
BY BoundAssumption DEF TypeOK, Experiment, History!Experiment, History!Terminal,
                       History!Time, History!NoTime, NoTime

\* A result is of a run that is over: the experiment has both times.
LEMMA WindowsMiss ==
    ASSUME WindowsInv, HasTimes(exp), window # NoWindow
    PROVE  Misses(WindowsOf)
<1> DEFINE i == injectedAt[exp.gen]
           s == exp.startedAt
           c == exp.completedAt
<1>1. /\ i \in Nat /\ s \in Nat /\ c \in Nat /\ clock \in Nat
      /\ i <= s /\ s <= i + MaxDelay /\ s <= c /\ c <= clock /\ MaxDelay \in Nat
  BY ExperimentTypes DEF WindowsInv, TimesInv, HasTimes, NoTime
<1>2. window \in Nat /\ window \div 2 \in Nat
  <2>1. window \in Windows \ {NoWindow}
    BY DEF WindowsInv, TypeOK
  <2>2. window \in Nat
    BY <2>1, WindowsAssumption
  <2> QED
    BY <2>2
<1>3. WindowsOf.gen = exp.gen /\ WindowsOf.baseline = Baseline /\ WindowsOf.chaos = ChaosWindow
  BY DEF WindowsOf
<1>4. kind \in {"analysis", "impact_map"}
  BY DEF WindowsInv, TypeOK, Kinds
<1>5. CASE kind = "analysis"
  <2>1. Baseline.lo = s - window \div 2 /\ Baseline.hi = s - window \div 2
    BY <1>5 DEF Baseline, Instant
  <2>2. ChaosWindow.lo = s + (c - s) \div 2 /\ ChaosWindow.hi = s + (c - s) \div 2
    BY <1>5 DEF ChaosWindow, Instant
  <2>3. (c - s) \div 2 \in Nat /\ (c - s) \div 2 <= c - s
    BY <1>1
  <2> HIDE DEF i, s, c
  <2>4. /\ s - window \div 2 <= i + MaxDelay - window \div 2
        /\ i - 0 <= s + (c - s) \div 2 /\ s + (c - s) \div 2 <= clock
    BY <1>1, <1>2, <2>3
  <2>5. i # NoTime
    BY <1>1 DEF NoTime
  <2> USE DEF i
  <2> QED
    BY <1>1, <1>3, <1>5, <2>1, <2>2, <2>3, <2>4, <2>5 DEF Misses
<1>6. CASE kind = "impact_map"
  <2> DEFINE length == IF c - s > 1 THEN c - s ELSE 1
  <2>1. Baseline.lo = s - window /\ Baseline.hi = s
    BY <1>6 DEF Baseline
  <2>2. ChaosWindow.lo = c - length /\ ChaosWindow.hi = c
    BY <1>6 DEF ChaosWindow
  <2> HIDE DEF i, s, c
  <2>3. /\ s - window <= i + MaxDelay - window /\ s <= i + MaxDelay
        /\ i - 1 <= c - length /\ c >= i /\ c <= clock
    BY <1>1, <1>2
  <2>4. i # NoTime
    BY <1>1 DEF NoTime
  <2> HIDE DEF length
  <2> USE DEF i
  <2> QED
    BY <1>3, <1>6, <2>1, <2>2, <2>3, <2>4 DEF Misses
<1> QED
  BY <1>4, <1>5, <1>6

\* An injection stays where it is, and time passes: a window misses it as it did.
LEMMA MissesStay ==
    ASSUME TypeOK, TimesInv, Environment, NEW r \in Result, Misses(r)
    PROVE  Misses(r)'
<1>1. kind' = kind /\ window' = window
  BY DEF Environment, Inject, Start, Reject, End, Delete, Recreate, Tick, spec
<1>2. clock \in Nat /\ clock' \in Nat /\ clock' >= clock
  <2>1. clock \in Nat
    BY ExperimentTypes
  <2>2. clock' = clock \/ clock' = clock + 1
    <3>1. CASE Tick
      BY <3>1 DEF Tick, History!Tick
    <3>2. CASE Inject \/ Start \/ Reject
      BY <3>2 DEF Inject, Start, Reject, History!Inject, History!Start, History!Reject
    <3>3. CASE End \/ Delete \/ Recreate
      BY <3>3 DEF End, Delete, Recreate, History!End, History!Delete, History!Recreate
    <3> QED
      BY <3>1, <3>2, <3>3 DEF Environment
  <2> QED
    BY <2>1, <2>2
<1>3. injectedAt'[r.gen] = injectedAt[r.gen]
  <2>1. CASE Inject
    <3>1. injectedAt[exp.gen] = NoTime /\ injectedAt' = [injectedAt EXCEPT ![exp.gen] = clock]
      BY <2>1 DEF Inject, History!Inject, History!NoTime, NoTime
    <3>2. r.gen # exp.gen /\ r.gen \in 1..MaxGen
      BY <3>1 DEF Misses, Result
    <3> QED
      BY <3>1, <3>2, ExperimentTypes
  <2>2. CASE ~Inject
    BY <2>2 DEF Environment, Start, Reject, End, Delete, Recreate, Tick, History!Start,
       History!Reject, History!End, History!Delete, History!Recreate, History!Tick
  <2> QED
    BY <2>1, <2>2
<1>4. r.chaos.hi \in Nat
  BY DEF Result
<1> QED
  BY <1>1, <1>2, <1>3, <1>4 DEF Misses

LEMMA TimesEnvironment ==
    ASSUME TypeOK, TimesInv, Environment
    PROVE  TimesInv'
<1> DEFINE T(e, i, c) ==
             /\ e.startedAt # NoTime =>
                   /\ i[e.gen] # NoTime
                   /\ i[e.gen] <= e.startedAt
                   /\ e.startedAt <= i[e.gen] + MaxDelay
                   /\ e.startedAt <= c
             /\ e.completedAt # NoTime =>
                   /\ e.phase \in {"Succeeded", "Failed"}
                   /\ e.startedAt <= e.completedAt /\ e.completedAt <= c
             /\ e.phase = "Running" => e.startedAt # NoTime
             /\ \A g \in 1..MaxGen : i[g] <= c
<1> USE ExperimentTypes DEF NoTime
<1>0. T(exp, injectedAt, clock)
  BY DEF TimesInv, Terminal
<1>1. ASSUME T(exp', injectedAt', clock') PROVE TimesInv'
  BY <1>1 DEF TimesInv, Terminal
<1>2. CASE Inject
  <2>1. exp' = exp /\ clock' = clock /\ injectedAt[exp.gen] = NoTime
        /\ injectedAt' = [injectedAt EXCEPT ![exp.gen] = clock]
    BY <1>2 DEF Inject, History!Inject, History!NoTime
  <2>2. T(exp', injectedAt', clock')
    BY <1>0, <2>1
  <2> QED
    BY <1>1, <2>2
<1>3. CASE Start
  <2>1. PICK t \in injectedAt[exp.gen]..clock :
            /\ t - injectedAt[exp.gen] <= MaxDelay
            /\ exp' = [exp EXCEPT !.phase = "Running", !.startedAt = t]
    BY <1>3 DEF Start, History!Start
  <2>2. /\ injectedAt' = injectedAt /\ clock' = clock /\ injectedAt[exp.gen] # NoTime
        /\ exp.phase \in {"Pending", "Running"}
    BY <1>3 DEF Start, History!Start, History!Unfinished, History!NoTime
  <2>3. /\ exp'.startedAt = t /\ exp'.phase = "Running" /\ exp'.gen = exp.gen
        /\ exp'.completedAt = exp.completedAt
    BY <2>1
  <2>4. T(exp', injectedAt', clock')
    BY <1>0, <2>1, <2>2, <2>3
  <2> QED
    BY <1>1, <2>4
<1>4. CASE Reject
  <2>1. /\ exp' = [exp EXCEPT !.phase = "Failed"] /\ exp.phase \in {"Pending", "Running"}
        /\ injectedAt' = injectedAt /\ clock' = clock
    BY <1>4 DEF Reject, History!Reject, History!Unfinished
  <2>2. T(exp', injectedAt', clock')
    BY <1>0, <2>1
  <2> QED
    BY <1>1, <2>2
<1>5. CASE End
  <2>1. PICK p \in {"Succeeded", "Failed"}, t \in exp.startedAt..clock :
            exp' = [exp EXCEPT !.phase = p, !.completedAt = t]
    BY <1>5 DEF End, History!End, History!Terminal
  <2>2. injectedAt' = injectedAt /\ clock' = clock /\ exp.phase = "Running"
    BY <1>5 DEF End, History!End
  <2>3. /\ exp'.startedAt = exp.startedAt /\ exp'.completedAt = t /\ exp'.phase = p
        /\ exp'.gen = exp.gen
    BY <2>1
  <2>4. T(exp', injectedAt', clock')
    BY <1>0, <2>1, <2>2, <2>3
  <2> QED
    BY <1>1, <2>4
<1>6. CASE Delete
  <2>1. /\ exp' = [exp EXCEPT !.exists = FALSE]
        /\ injectedAt' = injectedAt /\ clock' = clock
    BY <1>6 DEF Delete, History!Delete
  <2>2. T(exp', injectedAt', clock')
    BY <1>0, <2>1
  <2> QED
    BY <1>1, <2>2
<1>7. CASE Recreate
  <2>1. /\ exp'.startedAt = NoTime /\ exp'.completedAt = NoTime /\ exp'.phase = "Pending"
        /\ injectedAt' = injectedAt /\ clock' = clock
    BY <1>7 DEF Recreate, History!Recreate, History!NewExperiment, History!NoTime
  <2>2. \A g \in 1..MaxGen : injectedAt'[g] <= clock'
    BY <1>0, <2>1
  <2>3. T(exp', injectedAt', clock')
    BY <2>1, <2>2
  <2> QED
    BY <1>1, <2>3
<1>8. CASE Tick
  <2>1. exp' = exp /\ injectedAt' = injectedAt /\ clock' = clock + 1
    BY <1>8 DEF Tick, History!Tick
  <2>2. \A t \in Nat \cup {-1} : t <= clock => t <= clock'
    BY <2>1
  <2>3. \A g \in 1..MaxGen : injectedAt[g] <= clock'
    BY <1>0, <2>2
  <2>4. T(exp', injectedAt', clock')
    BY <1>0, <2>1, <2>2, <2>3
  <2> QED
    BY <1>1, <2>4
<1> QED
  BY <1>2, <1>3, <1>4, <1>5, <1>6, <1>7, <1>8 DEF Environment

LEMMA WindowsInit == Init => WindowsInv
<1> SUFFICES ASSUME Init PROVE WindowsInv
  OBVIOUS
<1>1. TimesInv
  BY DEF Init, TimesInv, NewExperiment, History!NewExperiment, History!NoTime, NoTime
<1>2. ResultsInv
  BY DEF Init, ResultsInv, IdleWorker, DefaultStatus
<1> QED
  BY <1>1, <1>2, TypeInit DEF WindowsInv

\* A reconcile measures an experiment that is over or hands on what it has.
LEMMA WindowsCall ==
    ASSUME WindowsInv, Call
    PROVE  ResultsInv'
<1> USE DEF WindowsInv
<1>1. /\ UNCHANGED <<kind, window, injectedAt, clock>>
      /\ w \in Worker /\ report \in Status /\ w.patch \in Status
  BY DEF Call, GetExperiment, QueryBaseline, QueryChaos, GetSpec, QueryGraph, Patch,
         spec, experiment, TypeOK, Worker
<1>2. \A r : Misses(r)' = Misses(r)
  BY <1>1 DEF Misses
<1>3. SUFFICES \A r \in {report'.result, w'.result, w'.patch.result} :
                   r \in {NoResult, report.result, w.result, w.patch.result} \/ Misses(r)
  BY <1>2 DEF ResultsInv
<1>4. /\ DefaultStatus.result = NoResult
      /\ [DefaultStatus EXCEPT !.phase = "Failed"].result = NoResult
      /\ CompletedStatus.result = w.result
      /\ IdleWorker.result = NoResult /\ IdleWorker.patch.result = NoResult
  BY DEF DefaultStatus, CompletedStatus, IdleWorker
<1>5. \A s : GotoPatch(s) => w'.result = w.result /\ w'.patch = s
  BY <1>1 DEF GotoPatch, Worker
<1>6. CASE Patch
  <2>1. report'.result \in {report.result, w.patch.result}
    BY <1>6 DEF Patch, Merge
  <2> QED
    BY <1>4, <1>6, <2>1 DEF Patch, Finish
<1>7. CASE ~Patch
  <2>1. report' = report
    BY <1>7 DEF Call, GetExperiment, QueryBaseline, QueryChaos, GetSpec, QueryGraph
  <2>2. /\ w'.result \in {NoResult, w.result} \/ Misses(w'.result)
        /\ w'.patch.result \in {NoResult, w.result, w.patch.result}
    <3>1. CASE GotoError \/ GotoWaiting \/ GotoPatch(CompletedStatus)
      BY <1>4, <1>5, <3>1 DEF GotoError, GotoWaiting
    <3>2. CASE Finish
      BY <1>4, <3>2 DEF Finish
    <3>3. CASE \E pc \in Steps, n \in 0..3 :
                   w' \in {[w EXCEPT !.pc = pc, !.left = n], [w EXCEPT !.pc = pc]}
      BY <1>1, <3>3 DEF Worker
    <3>4. CASE /\ HasTimes(exp) /\ window # NoWindow
               /\ w' = [w EXCEPT !.pc = "query_baseline", !.result = WindowsOf,
                                 !.left = IF kind = "analysis" THEN 1 ELSE 3]
      <4>1. w'.result = WindowsOf /\ w'.patch = w.patch
        BY <1>1, <3>4 DEF Worker
      <4> QED
        BY <3>4, <4>1, WindowsMiss
    <3>5. CASE GetExperiment
      BY <3>1, <3>2, <3>4, <3>5 DEF GetExperiment, NoTimes
    <3>6. CASE QueryBaseline
      BY <3>1, <3>3, <3>6 DEF QueryBaseline, Steps
    <3>7. CASE QueryChaos
      <4>1. w.left > 1 => w.left - 1 \in 0..3
        BY <1>1 DEF Worker
      <4>2. CASE w.left > 1 /\ w' = [w EXCEPT !.pc = "query_baseline", !.left = @ - 1]
        BY <3>3, <4>1, <4>2 DEF Steps
      <4>3. CASE w' = [w EXCEPT !.pc = "get_spec"]
        BY <3>3, <4>3 DEF Steps
      <4> QED
        BY <3>1, <4>1, <4>2, <4>3, <3>7 DEF QueryChaos
    <3>8. CASE GetSpec \/ QueryGraph
      BY <3>1, <3>3, <3>8 DEF GetSpec, QueryGraph, Steps
    <3> QED
      BY <1>7, <3>5, <3>6, <3>7, <3>8 DEF Call
  <2> QED
    BY <2>1, <2>2
<1> QED
  BY <1>6, <1>7

LEMMA WindowsNext ==
    ASSUME WindowsInv, [Next]_vars
    PROVE  WindowsInv'
<1> USE DEF WindowsInv
<1>1. TypeOK'
  BY TypeNext
<1>2. CASE Environment
  <2>1. UNCHANGED <<report, w>>
    BY <1>2 DEF Environment, Inject, Start, Reject, End, Delete, Recreate, Tick, controller
  <2>2. {report.result, w.result, w.patch.result} \subseteq Result \cup {NoResult}
    BY DEF TypeOK, Status, Worker
  <2>3. ResultsInv'
    BY <1>2, <2>1, <2>2, MissesStay DEF ResultsInv
  <2> QED
    BY <1>1, <1>2, <2>3, TimesEnvironment
<1>3. CASE ~Environment
  <2>1. UNCHANGED <<kind, window, exp, injectedAt, clock>>
    BY <1>3 DEF Next, Begin, Call, GetExperiment, QueryBaseline, QueryChaos, GetSpec,
       QueryGraph, Patch, Watch, Restart, spec, experiment, vars
  <2>2. TimesInv'
    BY <2>1 DEF TimesInv
  <2>3. ResultsInv'
    <3>1. CASE Call
      BY <3>1, WindowsCall
    <3>2. CASE Begin \/ Restart
      <4>1. report' = report /\ w'.result = NoResult /\ w'.patch.result = NoResult
        BY <3>2 DEF Begin, Restart, IdleWorker, DefaultStatus
      <4> QED
        BY <2>1, <4>1 DEF ResultsInv, Misses
    <3>3. CASE Watch \/ UNCHANGED vars
      <4>1. UNCHANGED <<report, w>>
        BY <3>3 DEF Watch, vars
      <4> QED
        BY <2>1, <4>1 DEF ResultsInv, Misses
    <3> QED
      BY <1>3, <3>1, <3>2, <3>3 DEF Next
  <2> QED
    BY <1>1, <2>2, <2>3
<1> QED
  BY <1>2, <1>3

\* Whatever run of whatever experiment of that name a report is about, and however
\* short its window, no more of the faulted time than the delay of startedAt gets into
\* its baseline, and its chaos window lies in the run (calculate_time_windows,
\* reconcile_analysis).
THEOREM BaselineMiss == Spec => []BaselineMissesByTheDelay
<1>1. WindowsInv => BaselineMissesByTheDelay
  BY DEF WindowsInv, ResultsInv, Misses, BaselineMissesByTheDelay
<1>2. WindowsInv /\ [Next]_vars => WindowsInv'
  BY WindowsNext
<1> QED
  BY <1>1, <1>2, WindowsInit, PTL DEF Spec
=============================================================================
