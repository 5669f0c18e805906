-------------------------- MODULE ReconcilerRecords --------------------------
(***************************************************************************)
(* What every stored version of the experiment, and every patch on its way *)
(* to the API server, says of the run: the id of the injected fault, the   *)
(* times of a run that succeeded, the runner jobs and their cleanup.  All  *)
(* but the last hold for any number of operators that work on the same     *)
(* object, from caches of any age.                                         *)
(***************************************************************************)
EXTENDS ReconcilerProofs, FiniteSetTheorems

\* A status of an experiment with this spec that is sound on its own.
Sound(s, spec) ==
    /\ s.experimentId \in {NoId, Uid}
    /\ s.cleanupDone => s.phase \in Terminal
    /\ ~Editable /\ spec.kind = "edge" /\ s.phase = "Succeeded" =>
         /\ s.startedAt # NoTime
         /\ s.completedAt >= s.startedAt + spec.duration

GoodVersion(v) == Sound(v.status, v.spec)

\* The versions operator o has seen or will see are good.
GoodQueue(o) == /\ GoodVersion(cache[o])
                /\ \A i \in 1..Len(events[o]) : GoodVersion(events[o][i])

\* So is the snapshot of its reconcile, and the status that is being built.
\* Only a pod experiment is judged by its jobs.
GoodWork(o) == /\ GoodVersion(w[o].snap) /\ Sound(w[o].patch, w[o].snap.spec)
               /\ w[o].pc = "list_jobs" => /\ w[o].snap.spec.kind = "pod"
                                           /\ w[o].snap.status.phase = "Running"
               /\ w[o].pc = "create_vs" => w[o].patch.experimentId = Uid
               /\ w[o].pc \in {"create_jobs", "create_vs"} =>
                    w[o].patch.phase = "Running"

RecordInv == /\ GoodVersion(exp) /\ vs \subseteq {Uid}
             /\ \A o \in Operators : GoodQueue(o) /\ GoodWork(o)

-----------------------------------------------------------------------------
(* The patches.                                                            *)

LEMMA Fields ==
    /\ \A s \in StatusType : s.completedAt \in Nat \cup {NoTime}
    /\ \A s \in StatusType : s.startedAt \in Nat \cup {NoTime}
    /\ \A v \in Object : v.status \in StatusType /\ v.spec.duration \in Nat
BY SpecsAssumption DEF StatusType, Object, ObjectType, SpecType

LEMMA PendingSound == \A spec : /\ Sound(DefaultStatus, spec)
                                /\ Sound(FailedPatch, spec)
                                /\ DefaultStatus.phase = "Pending"
BY DEF Sound, DefaultStatus, FailedPatch

LEMMA NewSound == \A s : GoodVersion(NewExperiment(s)) /\ Sound(IdleWorker.patch, s)
                         /\ GoodVersion(IdleWorker.snap)
BY PendingSound DEF GoodVersion, NewExperiment, IdleWorker

LEMMA RunningSound ==
    ASSUME NEW s, GoodVersion(s), NEW found
    PROVE  /\ RunningPatch(s, found).experimentId = Uid
           /\ RunningPatch(s, found).phase = "Running"
           /\ \A spec : Sound(RunningPatch(s, found), spec)
BY DEF RunningPatch, DefaultStatus, Sound, GoodVersion, ExperimentId

LEMMA StartedSound ==
    ASSUME NEW p \in StatusType, p.phase # "Succeeded", NEW spec, Sound(p, spec)
    PROVE  /\ Sound([p EXCEPT !.startedAt = clock], spec)
           /\ [p EXCEPT !.startedAt = clock].phase = p.phase
<1> DEFINE q == [p EXCEPT !.startedAt = clock]
<1>1. /\ q.phase = p.phase /\ q.experimentId = p.experimentId
      /\ q.cleanupDone = p.cleanupDone
  BY DEF StatusType
<1> QED
  BY <1>1 DEF Sound

\* A run that is completed when it has lasted, or whose kind is judged by
\* its jobs, has sound times.
LEMMA CompletedSound ==
    ASSUME NEW s \in Object, GoodVersion(s), clock \in Nat, NEW phase \in Terminal,
           \/ s.spec.kind = "pod"
           \/ is_duration_elapsed(s, clock)
    PROVE  Sound(Completed(s, phase), s.spec)
<1> DEFINE c == Completed(s, phase)
<1>1. s.spec \in SpecType /\ s.status \in StatusType
  BY SpecsAssumption DEF Object, ObjectType
<1>2. /\ c.phase = phase /\ c.completedAt = clock
      /\ c.startedAt = s.status.startedAt /\ c.experimentId = s.status.experimentId
  BY <1>1 DEF Completed, StatusType
<1>3. s.status.startedAt \in Nat \cup {NoTime} /\ s.spec.duration \in Nat
  BY <1>1 DEF StatusType, SpecType
<1> QED
  BY <1>2, <1>3 DEF Sound, GoodVersion, is_duration_elapsed

LEMMA CleanedSound ==
    ASSUME NEW s \in Object, GoodVersion(s), s.status.phase \in Terminal
    PROVE  Sound([s.status EXCEPT !.cleanupDone = TRUE], s.spec)
<1> DEFINE c == [s.status EXCEPT !.cleanupDone = TRUE]
<1>1. s.status \in StatusType
  BY DEF Object, ObjectType
<1>2. /\ c.phase = s.status.phase /\ c.experimentId = s.status.experimentId
      /\ c.startedAt = s.status.startedAt /\ c.completedAt = s.status.completedAt
  BY <1>1 DEF StatusType
<1> QED
  BY <1>2 DEF Sound, GoodVersion

\* Merging a sound patch keeps the stored status sound: a patch that says
\* Succeeded brings both times with it.
LEMMA MergeSound ==
    ASSUME NEW s \in StatusType, NEW p \in StatusType, NEW spec \in SpecType,
           Sound(s, spec), Sound(p, spec)
    PROVE  Sound(Merge(s, p), spec)
<1> DEFINE m == Merge(s, p)
<1>1. /\ p.startedAt \in Nat \cup {NoTime} /\ p.completedAt \in Nat \cup {NoTime}
      /\ spec.duration \in Nat
  BY DEF StatusType, SpecType
<1>2. /\ m.phase = p.phase
      /\ m.startedAt = IF p.startedAt = NoTime THEN s.startedAt ELSE p.startedAt
      /\ m.completedAt = IF p.completedAt = NoTime THEN s.completedAt
                                                   ELSE p.completedAt
      /\ m.cleanupDone = p.cleanupDone
      /\ m.experimentId = IF p.experimentId = NoId THEN s.experimentId
                                                   ELSE p.experimentId
  BY DEF Merge
<1> HIDE DEF m
<1>3. m.experimentId \in {NoId, Uid} /\ (m.cleanupDone => m.phase \in Terminal)
  BY <1>2 DEF Sound
<1>4. ASSUME ~Editable, spec.kind = "edge", m.phase = "Succeeded"
      PROVE  m.startedAt # NoTime /\ m.completedAt >= m.startedAt + spec.duration
  <2>1. p.startedAt # NoTime /\ p.completedAt >= p.startedAt + spec.duration
    BY <1>2, <1>4 DEF Sound
  <2>2. p.completedAt # NoTime
    BY <1>1, <2>1 DEF NoTime
  <2> QED
    BY <1>2, <2>1, <2>2
<1> QED
  BY <1>3, <1>4 DEF Sound, m

-----------------------------------------------------------------------------
(* The steps.                                                              *)

LEMMA RecordInit == Init => RecordInv
<1> SUFFICES ASSUME Init PROVE RecordInv
  OBVIOUS
<1>1. GoodVersion(exp)
  BY NewSound DEF Init
<1>2. \A o \in Operators : cache[o] = exp /\ events[o] = <<>> /\ w[o] = IdleWorker
  BY DEF Init
<1>3. IdleWorker.pc = "idle" /\ vs = {}
  BY DEF IdleWorker, Init
<1> QED
  BY <1>1, <1>2, <1>3, NewSound DEF RecordInv, GoodQueue, GoodWork

LEMMA StoreGood ==
    ASSUME TypeOK, NEW o \in Operators, GoodQueue(o), NEW e \in Object,
           GoodVersion(e), Store(e), UNCHANGED cache
    PROVE  GoodQueue(o)' /\ GoodVersion(exp')
<1> USE BoundAssumption
<1> DEFINE q == events[o]
<1>1. q \in Seq(Object) /\ Len(q) <= MaxLag /\ exp' = e /\ cache' = cache
  BY DEF TypeOK, Store
<1>2. \A i \in 1..Len(q) : GoodVersion(q[i])
  BY DEF GoodQueue
<1>3. \A i \in 1..Len(events'[o]) : GoodVersion(events'[o][i])
  <2>1. CASE e = exp
    BY <1>2, <2>1 DEF Store
  <2>2. CASE e # exp /\ Len(q) < MaxLag
    <3>1. events'[o] = Append(q, e)
      BY <2>2 DEF Store
    <3> HIDE DEF q
    <3> QED
      BY <1>1, <1>2, <3>1
  <2>3. CASE e # exp /\ ~(Len(q) < MaxLag)
    <3>1. events'[o] = [q EXCEPT ![MaxLag] = e]
      BY <2>3 DEF Store
    <3> HIDE DEF q
    <3> QED
      BY <1>1, <1>2, <3>1
  <2> QED
    BY <2>1, <2>2, <2>3
<1> QED
  BY <1>1, <1>3 DEF GoodQueue

\* What the step of one reconcile leaves alone.
LEMMA RecordFrame ==
    ASSUME RecordInv, NEW o \in Operators, GoodWork(o)', vs' \subseteq {Uid},
           UNCHANGED <<exp, cache, events>>,
           \A x \in Operators : x # o => w'[x] = w[x]
    PROVE  RecordInv'
BY DEF RecordInv, GoodQueue, GoodWork

LEMMA BeginGood ==
    ASSUME TypeOK, RecordInv, NEW o \in Operators, NEW pc, NEW todo, NEW p,
           Begin(o, pc, todo, p), Sound(p, cache[o].spec),
           pc = "list_jobs" => /\ cache[o].spec.kind = "pod"
                               /\ cache[o].status.phase = "Running",
           pc \notin {"create_jobs", "create_vs"}
    PROVE  RecordInv'
<1> DEFINE new == [pc |-> pc, snap |-> cache[o], jobs |-> todo,
                   vs |-> {}, patch |-> p]
<1>1. /\ w' = [w EXCEPT ![o] = new] /\ w \in [Operators -> Worker]
      /\ UNCHANGED <<exp, cache, events, vs>>
  BY DEF Begin, TypeOK, store, cluster
<1>2. new.pc = pc /\ new.snap = cache[o] /\ new.patch = p
  OBVIOUS
<1> HIDE DEF new
<1>3. w'[o] = new /\ \A x \in Operators : x # o => w'[x] = w[x]
  BY <1>1
<1>4. GoodWork(o)'
  BY <1>2, <1>3 DEF GoodWork, RecordInv, GoodQueue
<1>5. vs' \subseteq {Uid}
  BY <1>1 DEF RecordInv
<1> QED
  BY <1>1, <1>3, <1>4, <1>5, RecordFrame

LEMMA FinishGood ==
    ASSUME TypeOK, NEW o \in Operators, NEW again, Finish(o, again)
    PROVE  GoodWork(o)' /\ \A x \in Operators : x # o => w'[x] = w[x]
<1>1. w'[o] = IdleWorker /\ \A x \in Operators : x # o => w'[x] = w[x]
  BY DEF Finish, TypeOK
<1>2. IdleWorker.pc = "idle"
  BY DEF IdleWorker
<1> QED
  BY <1>1, <1>2, NewSound DEF GoodWork

LEMMA ContinueGood ==
    ASSUME TypeOK, NEW o \in Operators, GoodWork(o),
           NEW pc, NEW todo, NEW found, NEW p, Continue(o, pc, todo, found, p),
           Sound(p, w[o].snap.spec), pc # "list_jobs",
           pc = "create_vs" => p.experimentId = Uid,
           pc \in {"create_jobs", "create_vs"} => p.phase = "Running"
    PROVE  GoodWork(o)' /\ \A x \in Operators : x # o => w'[x] = w[x]
<1> DEFINE new == [pc |-> pc, snap |-> w[o].snap, jobs |-> todo,
                   vs |-> found, patch |-> p]
<1>1. w' = [w EXCEPT ![o] = new] /\ w \in [Operators -> Worker]
  BY DEF Continue, TypeOK
<1>2. new.pc = pc /\ new.snap = w[o].snap /\ new.patch = p
  OBVIOUS
<1> HIDE DEF new
<1>3. w'[o] = new /\ \A x \in Operators : x # o => w'[x] = w[x]
  BY <1>1
<1> QED
  BY <1>2, <1>3 DEF GoodWork

LEMMA BeginRecord ==
    ASSUME TypeOK, RecordInv, NEW o \in Operators, BeginAny(o)
    PROVE  RecordInv'
<1>1. cache[o] \in Object /\ GoodVersion(cache[o]) /\ clock \in Nat
  BY BoundAssumption DEF TypeOK, RecordInv, GoodQueue
<1>2. CASE BeginAddFinalizer(o)
  BY <1>2, BeginGood, PendingSound DEF BeginAddFinalizer
<1>3. CASE BeginDeletion(o)
  BY <1>3, BeginGood, PendingSound
     DEF BeginDeletion, CleanupStart, AfterJobs, AfterVs
<1>4. CASE BeginPending(o)
  BY <1>4, BeginGood, PendingSound DEF BeginPending
<1>5. CASE BeginRunning(o)
  <2>1. CASE /\ is_duration_elapsed(cache[o], clock)
             /\ Begin(o, "patch", {}, Completed(cache[o], "Succeeded"))
    BY <1>1, <2>1, BeginGood, CompletedSound DEF Terminal
  <2>2. CASE /\ cache[o].spec.kind = "pod" /\ cache[o].status.phase = "Running"
             /\ Begin(o, "list_jobs", {}, DefaultStatus)
    BY <2>2, BeginGood, PendingSound
  <2> QED
    BY <1>5, <2>1, <2>2 DEF BeginRunning
<1>6. CASE BeginTerminal(o)
  <2>1. Sound([cache[o].status EXCEPT !.cleanupDone = TRUE], cache[o].spec)
    BY <1>1, <1>6, CleanedSound DEF BeginTerminal
  <2>2. CleanupStart(cache[o]) \notin {"list_jobs", "create_jobs", "create_vs"}
    BY DEF CleanupStart, AfterJobs, AfterVs
  <2>3. Begin(o, CleanupStart(cache[o]), cache[o].status.runnerJobs,
              [cache[o].status EXCEPT !.cleanupDone = TRUE])
    BY <1>6 DEF BeginTerminal
  <2> QED
    BY <2>1, <2>2, <2>3, BeginGood
<1>7. CASE TerminalDone(o)
  BY <1>7 DEF TerminalDone, store, cluster, RecordInv, GoodQueue, GoodWork
<1> QED
  BY <1>2, <1>3, <1>4, <1>5, <1>6, <1>7 DEF BeginAny

LEMMA StoreCallRecord ==
    ASSUME ChainInv, RecordInv, NEW o \in Operators,
           AddFinalizer(o) \/ RemoveFinalizer(o) \/ PatchStatus(o)
    PROVE  RecordInv'
<1>1. TypeOK /\ UNCHANGED <<cache, vs>> /\ GoodVersion(exp)
  BY DEF ChainInv, TypeInv, AddFinalizer, RemoveFinalizer, PatchStatus, cluster,
         RecordInv
<1>2. exp \in [exists: BOOLEAN, finalizer: BOOLEAN, deleting: BOOLEAN,
               spec: Specs, status: StatusType]
  BY <1>1 DEF TypeOK, Object, ObjectType
<1>3. ASSUME NEW r, NEW e \in Object, NEW again, StoreIfExists(r, e),
             Finish(o, again), GoodVersion(e)
      PROVE  RecordInv'
  <2>1. GoodWork(o)' /\ \A x \in Operators : x # o => w'[x] = w[x]
    BY <1>1, <1>3, FinishGood
  <2>2. CASE Store(e)
    BY <1>1, <1>3, <2>1, <2>2, StoreGood DEF RecordInv, GoodWork
  <2>3. CASE UNCHANGED store
    BY <1>1, <2>1, <2>3, RecordFrame DEF RecordInv, store
  <2> QED
    BY <1>3, <2>2, <2>3 DEF StoreIfExists
<1>4. CASE AddFinalizer(o)
  <2> DEFINE e == [exp EXCEPT !.finalizer = TRUE]
  <2>1. e \in Object /\ e.status = exp.status /\ e.spec = exp.spec
    BY <1>2 DEF Object, ObjectType
  <2>2. GoodVersion(e)
    BY <1>1, <2>1 DEF GoodVersion
  <2> QED
    BY <1>3, <1>4, <2>1, <2>2 DEF AddFinalizer
<1>5. CASE RemoveFinalizer(o)
  <2> DEFINE e == [exp EXCEPT !.finalizer = FALSE, !.exists = ~exp.deleting]
  <2>1. e \in Object /\ e.status = exp.status /\ e.spec = exp.spec
    BY <1>2 DEF Object, ObjectType
  <2>2. GoodVersion(e)
    BY <1>1, <2>1 DEF GoodVersion
  <2>3. PICK r \in Answers :
          StoreIfExists(r, e) /\ Finish(o, ~(r = "ok" /\ exp.exists))
    BY <1>5 DEF RemoveFinalizer
  <2> HIDE DEF e
  <2> QED
    BY <1>3, <2>1, <2>2, <2>3
<1>6. CASE PatchStatus(o)
  <2> DEFINE m == Merge(exp.status, w[o].patch)
             e == [exp EXCEPT !.status = m]
  <2>1. w[o].pc = "patch" /\ w[o].patch \in StatusType /\ w[o].snap \in Object
    BY <1>6, WorkerFields DEF PatchStatus, ChainInv
  <2>2. exp.status \in StatusType /\ exp.spec \in SpecType /\ m \in StatusType
    BY <1>2, <2>1, MergeType, SpecsAssumption
  <2>3. ~Editable => w[o].snap.spec = exp.spec
    BY <2>1 DEF ChainInv, Queue, Work, Forward
  <2>4. Sound(w[o].patch, exp.spec)
    BY <2>3 DEF RecordInv, GoodWork, Sound
  <2>5. Sound(m, exp.spec)
    BY <1>1, <2>1, <2>2, <2>4, MergeSound DEF GoodVersion
  <2> HIDE DEF m
  <2>6. e \in Object /\ e.status = m /\ e.spec = exp.spec
    BY <1>2, <2>2 DEF Object, ObjectType
  <2>7. GoodVersion(e)
    BY <2>5, <2>6 DEF GoodVersion
  <2> QED
    BY <1>3, <1>6, <2>6, <2>7 DEF PatchStatus, m
<1> QED
  BY <1>4, <1>5, <1>6

LEMMA OtherCallRecord ==
    ASSUME ChainInv, RecordInv, NEW o \in Operators,
           \/ ListNodes(o) \/ CreateJob(o) \/ ListJobs(o) \/ DeleteJob(o)
           \/ CheckEdge(o) \/ CreateVs(o) \/ ListVs(o) \/ DeleteVs(o)
    PROVE  RecordInv'
<1>1. /\ TypeOK /\ GoodWork(o) /\ UNCHANGED <<exp, cache, events>>
      /\ clock \in Nat
  <2>1. TypeOK /\ GoodWork(o)
    BY DEF ChainInv, TypeInv, RecordInv
  <2>2. UNCHANGED <<exp, cache, events>>
    BY DEF ListNodes, CreateJob, ListJobs, DeleteJob, CheckEdge, CreateVs, ListVs,
           DeleteVs, store
  <2> QED
    BY <2>1, <2>2, BoundAssumption DEF TypeOK
<1>2. w[o].patch \in StatusType /\ w[o].snap \in Object
  BY WorkerFields DEF ChainInv
<1>3. GoodVersion(w[o].snap) /\ Sound(w[o].patch, w[o].snap.spec)
  BY <1>1 DEF GoodWork
<1>4. vs' \subseteq {Uid}
  <2>1. CASE CreateVs(o)
    <3>1. w[o].patch.experimentId = Uid
      BY <1>1, <2>1 DEF CreateVs, GoodWork
    <3> QED
      BY <2>1, <3>1 DEF CreateVs, RecordInv
  <2>2. CASE DeleteVs(o)
    BY <2>2 DEF DeleteVs, RecordInv
  <2>3. CASE UNCHANGED vs
    BY <2>3 DEF RecordInv
  <2> QED
    BY <2>1, <2>2, <2>3
       DEF ListNodes, CreateJob, ListJobs, DeleteJob, CheckEdge, ListVs, cluster
<1> DEFINE Good == GoodWork(o)' /\ \A x \in Operators : x # o => w'[x] = w[x]
<1>5. \A again : Finish(o, again) => Good
  BY <1>1, FinishGood
<1>6. ASSUME NEW pc, NEW todo, NEW found, NEW p, Continue(o, pc, todo, found, p),
             Sound(p, w[o].snap.spec), pc # "list_jobs",
             pc = "create_vs" => p.experimentId = Uid,
             pc \in {"create_jobs", "create_vs"} => p.phase = "Running"
      PROVE  Good
  BY <1>1, <1>6, ContinueGood
<1> HIDE DEF Good
<1>7. ASSUME NEW p, Sound(p, w[o].snap.spec), GotoPatch(o, p)
      PROVE  Good
  BY <1>6, <1>7 DEF GotoPatch
<1>8. ASSUME \/ Goto(o, AfterJobs(w[o].snap)) \/ Goto(o, AfterVs(w[o].snap))
             \/ CleanupFailed(o)
      PROVE  Good
  <2>1. /\ AfterJobs(w[o].snap) \in {"list_vs", "remove_finalizer", "patch"}
        /\ AfterVs(w[o].snap) \in {"remove_finalizer", "patch"}
    BY DEF AfterJobs, AfterVs
  <2>2. ASSUME NEW pc \in {"list_vs", "remove_finalizer", "patch"}, Goto(o, pc)
        PROVE  Good
    BY <1>3, <1>6, <2>2 DEF Goto
  <2> QED
    BY <1>5, <1>8, <2>1, <2>2 DEF CleanupFailed
<1>9. Sound(FailedPatch, w[o].snap.spec)
  BY PendingSound
<1>10. \A found : /\ RunningPatch(w[o].snap, found).experimentId = Uid
                  /\ RunningPatch(w[o].snap, found).phase = "Running"
                  /\ Sound(RunningPatch(w[o].snap, found), w[o].snap.spec)
  BY <1>3, RunningSound
<1>11. Good
  <2>1. CASE ListNodes(o)
    BY <1>5, <1>6, <1>7, <1>9, <1>10, <2>1 DEF ListNodes
  <2>2. ASSUME CreateJob(o) \/ CreateVs(o)
        PROVE  /\ w[o].patch.phase = "Running"
               /\ Sound([w[o].patch EXCEPT !.startedAt = clock], w[o].snap.spec)
    <3>1. w[o].patch.phase = "Running"
      BY <1>1, <2>2 DEF CreateJob, CreateVs, GoodWork
    <3> QED
      BY <1>2, <1>3, <3>1, StartedSound
  <2>3. CASE CreateJob(o)
    BY <1>3, <1>5, <1>6, <1>7, <2>2, <2>3 DEF CreateJob
  <2>4. CASE ListJobs(o)
    <3>1. w[o].snap.spec.kind = "pod"
      BY <1>1, <2>4 DEF ListJobs, GoodWork
    <3>2. \A phase \in Terminal :
            Sound(Completed(w[o].snap, phase), w[o].snap.spec)
      BY <1>1, <1>2, <1>3, <3>1, CompletedSound
    <3> DEFINE v == JobVerdict(w[o].snap, {jobs[n] : n \in Nodes} \ {"absent"})
    <3>3. \/ Finish(o, TRUE)
          \/ v # "Running" /\ GotoPatch(o, Completed(w[o].snap, v))
      BY <2>4 DEF ListJobs
    <3>4. v # "Running" => v \in Terminal
      BY DEF JobVerdict, Terminal
    <3> HIDE DEF v
    <3> QED
      BY <1>5, <1>7, <3>2, <3>3, <3>4
  <2>5. CASE DeleteJob(o)
    BY <1>3, <1>6, <1>8, <2>5 DEF DeleteJob
  <2>6. CASE CheckEdge(o)
    BY <1>5, <1>6, <1>7, <1>9, <1>10, <2>6 DEF CheckEdge
  <2>7. CASE CreateVs(o)
    BY <1>5, <1>7, <2>2, <2>7 DEF CreateVs
  <2>8. CASE ListVs(o)
    BY <1>3, <1>6, <1>8, <2>8 DEF ListVs
  <2>9. CASE DeleteVs(o)
    BY <1>3, <1>6, <1>8, <2>9 DEF DeleteVs
  <2> QED
    BY <2>1, <2>3, <2>4, <2>5, <2>6, <2>7, <2>8, <2>9
<1> QED
  BY <1>1, <1>4, <1>11, RecordFrame DEF Good

LEMMA SurroundingsRecord ==
    ASSUME ChainInv, RecordInv, (\E o \in Operators : Watch(o) \/ Crash(o)) \/ Cluster
    PROVE  RecordInv'
<1>1. TypeOK /\ GoodVersion(exp) /\ vs \subseteq {Uid}
  BY DEF ChainInv, TypeInv, RecordInv
<1>2. CASE \E o \in Operators : Watch(o)
  <2>1. PICK o \in Operators : Watch(o)
    BY <1>2
  <2> DEFINE q == events[o]
  <2>2. q \in Seq(Object) /\ q # <<>> /\ \A i \in 1..Len(q) : GoodVersion(q[i])
    BY <1>1, <2>1 DEF TypeOK, Watch, RecordInv, GoodQueue
  <2>3. cache'[o] = Head(q) /\ events'[o] = Tail(q)
    BY <1>1, <2>1 DEF TypeOK, Watch
  <2> HIDE DEF q
  <2>4. GoodQueue(o)'
    BY <2>2, <2>3 DEF GoodQueue
  <2>5. \A x \in Operators : x # o => cache'[x] = cache[x] /\ events'[x] = events[x]
    BY <1>1, <2>1 DEF Watch, TypeOK
  <2>6. UNCHANGED <<exp, vs, w>>
    BY <2>1 DEF Watch, cluster
  <2> QED
    BY <2>4, <2>5, <2>6 DEF RecordInv, GoodQueue, GoodWork
<1>3. CASE \E o \in Operators : Crash(o)
  <2>1. PICK o \in Operators : Crash(o)
    BY <1>3
  <2>2. cache'[o] = exp /\ events'[o] = <<>> /\ w'[o] = IdleWorker
    BY <1>1, <2>1 DEF Crash, TypeOK
  <2>3. \A x \in Operators : x # o => /\ cache'[x] = cache[x] /\ events'[x] = events[x]
                                      /\ w'[x] = w[x]
    BY <1>1, <2>1 DEF Crash, TypeOK
  <2>4. UNCHANGED <<exp, vs>>
    BY <2>1 DEF Crash, cluster
  <2>5. GoodQueue(o)'
    BY <1>1, <2>2 DEF GoodQueue
  <2>6. GoodWork(o)'
    <3>1. IdleWorker.pc = "idle"
      BY DEF IdleWorker
    <3> QED
      BY <2>2, <3>1, NewSound DEF GoodWork
  <2> QED
    BY <2>3, <2>4, <2>5, <2>6 DEF RecordInv, GoodQueue, GoodWork
<1>4. CASE Cluster
  <2>1. UNCHANGED <<cache, w>> /\ vs' \subseteq vs
    BY <1>4
       DEF Cluster, RequestDelete, EditSpec, JobFinishes, JobReaped, VsCollected,
           Tick, cluster
  <2>2. ASSUME NEW e \in Object, GoodVersion(e), Store(e)
        PROVE  RecordInv'
    <3>1. ASSUME NEW o \in Operators
          PROVE  GoodQueue(o)' /\ GoodWork(o)'
      BY <1>1, <2>1, <2>2, StoreGood DEF RecordInv, GoodWork
    <3>2. GoodVersion(exp')
      BY <2>2 DEF Store
    <3> QED
      BY <1>1, <2>1, <3>1, <3>2 DEF RecordInv
  <2>3. exp \in [exists: BOOLEAN, finalizer: BOOLEAN, deleting: BOOLEAN,
                 spec: Specs, status: StatusType]
    BY <1>1 DEF TypeOK, Object, ObjectType
  <2>4. CASE RequestDelete
    <3> DEFINE e == IF exp.finalizer THEN [exp EXCEPT !.deleting = TRUE]
                                     ELSE [exp EXCEPT !.exists = FALSE]
    <3>1. /\ e \in Object /\ Store(e)
          /\ e.status = exp.status /\ e.spec = exp.spec
      BY <2>3, <2>4 DEF RequestDelete, Object, ObjectType
    <3> HIDE DEF e
    <3> QED
      BY <1>1, <2>2, <3>1 DEF GoodVersion
  <2>5. CASE EditSpec
    <3>1. PICK s \in Specs : Store([exp EXCEPT !.spec = s]) /\ Editable
      BY <2>5 DEF EditSpec, Editable
    <3> DEFINE e == [exp EXCEPT !.spec = s]
    <3>2. e \in Object /\ e.status = exp.status
      BY <2>3, <3>1 DEF Object, ObjectType
    <3>3. GoodVersion(e)
      BY <1>1, <3>1, <3>2 DEF GoodVersion, Sound
    <3> QED
      BY <2>2, <3>1, <3>2, <3>3
  <2>6. CASE UNCHANGED store
    BY <2>1, <2>6 DEF RecordInv, GoodQueue, GoodWork, store
  <2> QED
    BY <1>4, <2>4, <2>5, <2>6
       DEF Cluster, JobFinishes, JobReaped, VsCollected, Tick
<1> QED
  BY <1>2, <1>3, <1>4

LEMMA RecordNext == ChainInv /\ RecordInv /\ [Next]_vars => RecordInv'
<1> SUFFICES ASSUME ChainInv, RecordInv, [Next]_vars PROVE RecordInv'
  OBVIOUS
<1>1. CASE \E o \in Operators : BeginAny(o) \/ Call(o) \/ Watch(o) \/ Crash(o)
  <2>1. TypeOK
    BY DEF ChainInv, TypeInv
  <2> QED
    BY <1>1, <2>1, BeginRecord, StoreCallRecord, OtherCallRecord, SurroundingsRecord
       DEF Call
<1>2. CASE Cluster
  BY <1>2, SurroundingsRecord
<1>3. CASE UNCHANGED vars
  BY <1>3 DEF vars, RecordInv, GoodQueue, GoodWork
<1> QED
  BY <1>1, <1>2, <1>3 DEF Next

LEMMA RecordCorrect == Spec => []RecordInv
BY ChainCorrect, RecordInit, RecordNext, PTL DEF Spec

-----------------------------------------------------------------------------

\* Any number of operators, restarts and stale reconciles create one
\* VirtualService, whether or not the spec is edited.
THEOREM OneFaultCorrect == Spec => []OneFault
<1>1. RecordInv => OneFault
  BY DEF RecordInv, OneFault
<1> QED
  BY <1>1, RecordCorrect, PTL

\* When the spec is not edited, an edge experiment that is recorded as
\* Succeeded ran for its duration by its own record, whatever the operators
\* merged over each other.
THEOREM SucceededCorrect == ~Editable => (Spec => []SucceededRanItsDuration)
<1> SUFFICES ASSUME ~Editable PROVE Spec => []SucceededRanItsDuration
  OBVIOUS
<1>1. RecordInv => SucceededRanItsDuration
  BY DEF RecordInv, GoodVersion, Sound, SucceededRanItsDuration
<1> QED
  BY <1>1, RecordCorrect, PTL

-----------------------------------------------------------------------------
(* What a reconcile may create.                                            *)

\* The spec of an experiment that starts runner jobs.
Runs(spec) == spec.kind = "pod" /\ spec.duration > 0

\* What the reconcile of o is about to create, the spec of its snapshot allows.
Allowed(o) ==
    /\ w[o].pc \in {"list_nodes", "create_jobs"} => Runs(w[o].snap.spec)
    /\ w[o].pc \in {"check_edge", "create_vs"} => w[o].snap.spec.kind = "edge"
    /\ w[o].pc = "check_edge" /\ w[o].snap.spec.hasFault =>
         ~InvalidSpec(w[o].snap.spec)
    /\ w[o].pc = "create_vs" => ~InvalidSpec(w[o].snap.spec)

AllowedInv == \A o \in Operators : Allowed(o)

\* The steps that come after a step of the cleanup.
LEMMA CleanupSteps ==
    /\ \A s : AfterVs(s) \in {"remove_finalizer", "patch"}
    /\ \A s : AfterJobs(s) \in {"list_vs", "remove_finalizer", "patch"}
    /\ \A s : CleanupStart(s) \in {"delete_jobs", "list_vs", "remove_finalizer", "patch"}
BY DEF AfterVs, AfterJobs, CleanupStart

LEMMA AllowedBegin ==
    ASSUME TypeOK, AllowedInv, NEW o \in Operators, BeginAny(o)
    PROVE  Allowed(o)'
<1>1. cache[o].spec \in SpecType
  BY SpecsAssumption DEF TypeOK, Object, ObjectType
<1>2. CASE BeginPending(o)
  <2>1. CASE /\ validate_experiment(cache[o].spec)
             /\ cache[o].spec.kind = "edge" /\ Begin(o, "check_edge", {}, DefaultStatus)
    BY <1>1, <2>1, Moved
       DEF Allowed, InvalidSpec, validate_experiment, SpecType
  <2>2. CASE /\ validate_experiment(cache[o].spec)
             /\ cache[o].spec.kind # "edge" /\ Begin(o, "list_nodes", {}, DefaultStatus)
    BY <1>1, <2>2, Moved DEF Allowed, Runs, validate_experiment, SpecType
  <2>3. CASE Begin(o, "patch", {}, FailedPatch)
    BY <2>3, Moved DEF Allowed
  <2> QED
    BY <1>2, <2>1, <2>2, <2>3 DEF BeginPending
<1>3. CASE BeginAddFinalizer(o) \/ BeginRunning(o)
  BY <1>3, Moved DEF BeginAddFinalizer, BeginRunning, Allowed
<1>4. CASE BeginDeletion(o) \/ BeginTerminal(o)
  BY <1>4, Moved, CleanupSteps DEF BeginDeletion, BeginTerminal, Allowed
<1>5. CASE TerminalDone(o)
  BY <1>5 DEF TerminalDone, AllowedInv, Allowed
<1> QED
  BY <1>2, <1>3, <1>4, <1>5 DEF BeginAny

LEMMA AllowedCall ==
    ASSUME TypeOK, AllowedInv, NEW o \in Operators, Call(o)
    PROVE  Allowed(o)'
<1>1. Allowed(o)
  BY DEF AllowedInv
<1>2. \A again : Finish(o, again) => Allowed(o)'
  BY Moved DEF Allowed
<1>3. ASSUME NEW pc, NEW todo, NEW found, NEW p, Continue(o, pc, todo, found, p),
             pc \notin {"list_nodes", "create_jobs", "check_edge", "create_vs"}
      PROVE  Allowed(o)'
  BY <1>3, Moved DEF Allowed
<1>4. \A p : GotoPatch(o, p) => Allowed(o)'
  BY <1>3 DEF GotoPatch
<1>5. /\ Goto(o, AfterVs(w[o].snap)) => Allowed(o)'
      /\ Goto(o, AfterJobs(w[o].snap)) => Allowed(o)'
      /\ Goto(o, "remove_finalizer") => Allowed(o)'
  BY <1>3, CleanupSteps DEF Goto
<1>6. CASE AddFinalizer(o) \/ RemoveFinalizer(o) \/ PatchStatus(o) \/ ListJobs(o)
  BY <1>2, <1>4, <1>6 DEF AddFinalizer, RemoveFinalizer, PatchStatus, ListJobs
<1>7. CASE ListNodes(o)
  <2>1. ASSUME NEW todo, NEW p, Continue(o, "create_jobs", todo, {}, p)
        PROVE  Allowed(o)'
    BY <1>1, <1>7, <2>1, Moved DEF ListNodes, Allowed
  <2> QED
    BY <1>2, <1>4, <1>7, <2>1 DEF ListNodes
<1>8. CASE CreateJob(o)
  <2>1. ASSUME NEW todo, NEW p, Continue(o, "create_jobs", todo, {}, p)
        PROVE  Allowed(o)'
    BY <1>1, <1>8, <2>1, Moved DEF CreateJob, Allowed
  <2> QED
    BY <1>2, <1>4, <1>8, <2>1 DEF CreateJob
<1>9. CASE CheckEdge(o)
  <2>1. ASSUME NEW p, Continue(o, "create_vs", {}, {}, p), w[o].snap.spec.hasFault
        PROVE  Allowed(o)'
    BY <1>1, <1>9, <2>1, Moved DEF CheckEdge, Allowed
  <2> QED
    BY <1>2, <1>4, <1>9, <2>1 DEF CheckEdge
<1>10. CASE CreateVs(o)
  BY <1>2, <1>4, <1>10 DEF CreateVs
<1>11. CASE DeleteJob(o)
  <2>1. \A n : Continue(o, "delete_jobs", w[o].jobs \ {n}, {}, w[o].patch) => Allowed(o)'
    BY <1>3
  <2> QED
    BY <1>5, <1>11, <2>1 DEF DeleteJob
<1>12. CASE ListVs(o) \/ DeleteVs(o)
  <2>1. \A found : Continue(o, "delete_vs", {}, found, w[o].patch) => Allowed(o)'
    BY <1>3
  <2> QED
    BY <1>2, <1>5, <1>12, <2>1 DEF ListVs, DeleteVs, CleanupFailed
<1> QED
  BY <1>6, <1>7, <1>8, <1>9, <1>10, <1>11, <1>12 DEF Call

\* The reconciles outside of a step of o's are as they were, or idle.
LEMMA Surroundings ==
    ASSUME TypeOK, NEW o \in Operators,
           (\E x \in Operators : Watch(x) \/ Crash(x)) \/ Cluster \/ UNCHANGED vars
    PROVE  w'[o] = w[o] \/ w'[o] = IdleWorker
<1>1. ASSUME NEW x \in Operators, Crash(x)
      PROVE  w'[o] = w[o] \/ w'[o] = IdleWorker
  BY <1>1 DEF Crash, TypeOK
<1>2. ASSUME NEW x \in Operators, Watch(x)
      PROVE  w' = w
  BY <1>2 DEF Watch
<1>3. Cluster \/ UNCHANGED vars => w' = w
  BY DEF Cluster, RequestDelete, EditSpec, JobFinishes, JobReaped, VsCollected, Tick,
         vars
<1> QED
  BY <1>1, <1>2, <1>3

LEMMA AllowedNext == TypeOK /\ AllowedInv /\ [Next]_vars => AllowedInv'
<1> SUFFICES ASSUME TypeOK, AllowedInv, [Next]_vars, NEW o \in Operators
             PROVE  Allowed(o)'
  BY DEF AllowedInv
<1>1. CASE BeginAny(o) \/ Call(o)
  BY <1>1, AllowedBegin, AllowedCall
<1>2. ASSUME NEW x \in Operators, x # o, BeginAny(x) \/ Call(x)
      PROVE  Allowed(o)'
  <2>1. w'[o] = w[o]
    BY <1>2, OthersStay
  <2> QED
    BY <2>1 DEF AllowedInv, Allowed
<1>3. CASE (\E x \in Operators : Watch(x) \/ Crash(x)) \/ Cluster \/ UNCHANGED vars
  <2>1. w'[o] = w[o] \/ w'[o] = IdleWorker
    BY <1>3, Surroundings
  <2> QED
    BY <2>1, Moved DEF AllowedInv, Allowed
<1> QED
  BY <1>1, <1>2, <1>3 DEF Next

LEMMA AllowedCorrect == Spec => []AllowedInv
<1>1. Init => AllowedInv
  BY DEF Init, AllowedInv, Allowed, IdleWorker
<1>2. ChainInv => TypeOK
  BY DEF ChainInv, TypeInv
<1> QED
  BY <1>1, <1>2, AllowedNext, ChainCorrect, PTL DEF Spec

\* What is new in the cluster was allowed by the snapshot of the reconcile that
\* made it, and only an edit changes the spec.
LEMMA NewInCluster ==
    ASSUME TypeOK, AllowedInv, [Next]_vars
    PROVE  /\ ~(vs' \subseteq vs) => \E o \in Operators :
                w[o].pc = "create_vs" /\ ~InvalidSpec(w[o].snap.spec)
           /\ \A n \in Nodes : Live(n)' /\ ~Live(n) => \E o \in Operators :
                w[o].pc = "create_jobs" /\ n \in w[o].jobs /\ Runs(w[o].snap.spec)
           /\ exp'.spec # exp.spec => Editable /\ UNCHANGED cluster
<1>1. ASSUME NEW o \in Operators, CreateVs(o)
      PROVE  /\ w[o].pc = "create_vs" /\ ~InvalidSpec(w[o].snap.spec)
             /\ UNCHANGED <<exp, jobs>>
  BY <1>1 DEF CreateVs, AllowedInv, Allowed, store
<1>2. ASSUME NEW o \in Operators, CreateJob(o)
      PROVE  /\ w[o].pc = "create_jobs" /\ Runs(w[o].snap.spec) /\ UNCHANGED <<exp, vs>>
             /\ \A n \in Nodes : Live(n)' /\ ~Live(n) => n \in w[o].jobs
  <2>1. PICK n \in w[o].jobs : jobs' = jobs \/ jobs' = [jobs EXCEPT ![n] = "active"]
    BY <1>2 DEF CreateJob
  <2>2. \A m \in Nodes : m # n => jobs'[m] = jobs[m]
    BY <2>1 DEF TypeOK
  <2> QED
    BY <1>2, <2>2 DEF CreateJob, AllowedInv, Allowed, store, Live
<1>3. ASSUME NEW o \in Operators, DeleteJob(o)
      PROVE  UNCHANGED <<exp, vs>> /\ \A n \in Nodes : Live(n)' => Live(n)
  BY <1>3 DEF DeleteJob, Live, TypeOK, store
<1>4. ASSUME NEW o \in Operators, DeleteVs(o)
      PROVE  UNCHANGED <<exp, jobs>> /\ vs' \subseteq vs
  BY <1>4 DEF DeleteVs, store
<1>5. ASSUME NEW o \in Operators,
             \/ BeginAny(o) \/ Watch(o) \/ Crash(o) \/ ListNodes(o) \/ ListJobs(o)
             \/ CheckEdge(o) \/ ListVs(o)
      PROVE  UNCHANGED <<exp, jobs, vs>>
  BY <1>5 DEF BeginAny, BeginAddFinalizer, BeginDeletion, BeginPending, BeginRunning,
              BeginTerminal, TerminalDone, Begin, Watch, Crash, ListNodes, ListJobs,
              CheckEdge, ListVs, store, cluster
<1>6. ASSUME NEW o \in Operators, AddFinalizer(o) \/ RemoveFinalizer(o) \/ PatchStatus(o)
      PROVE  UNCHANGED <<jobs, vs>> /\ exp'.spec = exp.spec
  <2>1. exp \in [exists: BOOLEAN, finalizer: BOOLEAN, deleting: BOOLEAN,
                 spec: Specs, status: StatusType]
    BY DEF TypeOK, Object, ObjectType
  <2> QED
    BY <1>6, <2>1 DEF AddFinalizer, RemoveFinalizer, PatchStatus, StoreIfExists, Store,
                      store, cluster
<1>7. CASE Cluster
  <2>1. exp \in [exists: BOOLEAN, finalizer: BOOLEAN, deleting: BOOLEAN,
                 spec: Specs, status: StatusType]
    BY DEF TypeOK, Object, ObjectType
  <2>2. CASE RequestDelete
    BY <2>1, <2>2 DEF RequestDelete, Store, cluster, Live
  <2>3. CASE EditSpec
    BY <2>3 DEF EditSpec, Editable, cluster, Live
  <2>4. CASE Tick \/ \E v \in vs : VsCollected(v)
    BY <2>4 DEF Tick, VsCollected, store, cluster, Live
  <2>5. CASE \E n \in Nodes : JobFinishes(n) \/ JobReaped(n)
    BY <2>5 DEF JobFinishes, JobReaped, store, Live, TypeOK
  <2> QED
    BY <1>7, <2>2, <2>3, <2>4, <2>5 DEF Cluster
<1>8. CASE UNCHANGED vars
  BY <1>8 DEF vars, Live
<1> QED
  BY <1>1, <1>2, <1>3, <1>4, <1>5, <1>6, <1>7, <1>8 DEF Next, Call, Live

\* A spec that the validation of Pending turns down injects nothing, now or
\* later, whatever the number of operators and the age of their caches.
THEOREM TurnedDownForGood == ~Editable => (Spec => []InvalidNeverInjects)
<1> SUFFICES ASSUME ~Editable PROVE Spec => []InvalidNeverInjects
  OBVIOUS
<1>1. Init => InvalidNeverInjects
  BY DEF Init, InvalidNeverInjects, Live
<1>2. /\ ChainInv /\ AllowedInv /\ InvalidNeverInjects /\ [Next]_vars
      => InvalidNeverInjects'
  <2> SUFFICES ASSUME ChainInv, AllowedInv, InvalidNeverInjects, [Next]_vars,
                      InvalidSpec(exp.spec)'
               PROVE  vs' = {} /\ \A n \in Nodes : ~Live(n)'
    BY DEF InvalidNeverInjects
  <2>1. TypeOK
    BY DEF ChainInv, TypeInv
  <2>2. exp'.spec = exp.spec
    BY <2>1, NewInCluster
  <2>3. InvalidSpec(exp.spec) /\ vs = {} /\ \A n \in Nodes : ~Live(n)
    BY <2>2 DEF InvalidSpec, InvalidNeverInjects
  <2>4. \A o \in Operators : w[o].pc # "idle" => w[o].snap.spec = exp.spec
    BY DEF ChainInv, Work, Queue, Forward
  <2>5. exp.spec \in SpecType
    BY <2>1, SpecsAssumption DEF TypeOK, Object, ObjectType
  <2>6. ~Runs(exp.spec)
    BY <2>3, <2>5 DEF InvalidSpec, Runs, SpecType
  <2> QED
    BY <2>1, <2>3, <2>4, <2>6, NewInCluster
<1> QED
  BY <1>1, <1>2, AllowedCorrect, ChainCorrect, PTL DEF Spec
-----------------------------------------------------------------------------
(* The record of the runner jobs.                                          *)

\* The experiment stays a pod experiment, or its spec is not edited at all.
Steady == ~Editable \/ \A s \in Specs : Runs(s)

Placed == UNION Placements

\* The target pods stay where they are.
InPlace == \A p \in Placements : p # {} /\ p = Placed

\* A status of an experiment with this spec that knows its jobs.
Tracks(s, spec) == /\ s.runnerJobs \subseteq Placed
                   /\ s.phase # "Pending" /\ Runs(spec) => s.runnerJobs = Placed

TrackedVersion(v) == Tracks(v.status, v.spec)

TrackedQueue(o) == /\ TrackedVersion(cache[o])
                   /\ \A i \in 1..Len(events[o]) : TrackedVersion(events[o][i])

TrackedWork(o) == /\ TrackedVersion(w[o].snap) /\ Tracks(w[o].patch, w[o].snap.spec)
                  /\ w[o].pc = "create_jobs" => w[o].jobs \subseteq Placed

TrackInv == /\ TrackedVersion(exp)
            /\ \A n \in Nodes : Live(n) => n \in Placed /\ Runs(exp.spec)
            /\ \A o \in Operators : TrackedQueue(o) /\ TrackedWork(o)

LEMMA NewTracks == /\ \A spec : Tracks(DefaultStatus, spec)
                   /\ \A s : TrackedVersion(NewExperiment(s))
                   /\ \A spec : Tracks(IdleWorker.patch, spec)
                   /\ TrackedVersion(IdleWorker.snap)
                   /\ \A spec : ~Runs(spec) => Tracks(FailedPatch, spec)
                   /\ \A p, found, spec : Tracks(p, spec) /\ p \in StatusType =>
                        Tracks([p EXCEPT !.startedAt = clock], spec)
<1>1. \A p \in StatusType : LET q == [p EXCEPT !.startedAt = clock]
                            IN  q.phase = p.phase /\ q.runnerJobs = p.runnerJobs
  BY DEF StatusType
<1> QED
  BY <1>1 DEF Tracks, TrackedVersion, DefaultStatus, NewExperiment, IdleWorker, FailedPatch

\* The patches of a later phase keep the jobs of the snapshot.
LEMMA LaterTracks ==
    ASSUME NEW s \in Object, TrackedVersion(s), s.status.phase # "Pending"
    PROVE  /\ \A phase : Tracks(Completed(s, phase), s.spec)
           /\ Tracks([s.status EXCEPT !.cleanupDone = TRUE], s.spec)
<1>1. s.status \in StatusType
  BY DEF Object, ObjectType
<1>2. \A phase : Completed(s, phase).runnerJobs = s.status.runnerJobs
  BY <1>1 DEF Completed, StatusType
<1>3. [s.status EXCEPT !.cleanupDone = TRUE].runnerJobs = s.status.runnerJobs
  BY <1>1 DEF StatusType
<1> QED
  BY <1>2, <1>3 DEF Tracks, TrackedVersion

LEMMA MergeTracks ==
    ASSUME NEW s \in StatusType, NEW p \in StatusType, NEW spec,
           Tracks(s, spec), Tracks(p, spec)
    PROVE  Tracks(Merge(s, p), spec)
<1>1. /\ Merge(s, p).phase = p.phase
      /\ Merge(s, p).runnerJobs = IF p.runnerJobs = {} THEN s.runnerJobs
                                                       ELSE p.runnerJobs
  BY DEF Merge
<1> QED
  BY <1>1 DEF Tracks

\* The spec a reconcile works from runs jobs just when the stored one does.
LEMMA SameSpec ==
    ASSUME Steady, ChainInv, NEW o \in Operators
    PROVE  /\ Runs(cache[o].spec) <=> Runs(exp.spec)
           /\ w[o].pc # "idle" => (Runs(w[o].snap.spec) <=> Runs(exp.spec))
<1>1. CASE ~Editable
  BY <1>1 DEF ChainInv, Queue, Work, Forward
<1>2. CASE \A s \in Specs : Runs(s)
  BY <1>2 DEF ChainInv, TypeInv, TypeOK, Object, ObjectType, Worker
<1> QED
  BY <1>1, <1>2 DEF Steady

LEMMA TrackBegin ==
    ASSUME TypeOK, TrackInv, NEW o \in Operators, BeginAny(o)
    PROVE  TrackedWork(o)'
<1>1. TrackedVersion(cache[o]) /\ cache[o] \in Object /\ cache[o].spec \in SpecType
  BY SpecsAssumption DEF TypeOK, Object, ObjectType, TrackInv, TrackedQueue
<1>2. ASSUME NEW pc, NEW todo, NEW p, Begin(o, pc, todo, p), pc # "create_jobs",
             Tracks(p, cache[o].spec)
      PROVE  TrackedWork(o)'
  BY <1>1, <1>2, Moved DEF TrackedWork
<1>3. CASE BeginAddFinalizer(o)
  BY <1>2, <1>3, NewTracks DEF BeginAddFinalizer
<1>4. CASE BeginDeletion(o)
  BY <1>2, <1>4, NewTracks, CleanupSteps DEF BeginDeletion
<1>5. CASE BeginPending(o)
  <2>1. ~validate_experiment(cache[o].spec) => ~Runs(cache[o].spec)
    BY <1>1 DEF validate_experiment, Runs, SpecType
  <2> QED
    BY <1>2, <1>5, <2>1, NewTracks DEF BeginPending
<1>6. CASE BeginRunning(o)
  BY <1>1, <1>2, <1>6, NewTracks, LaterTracks DEF BeginRunning
<1>7. CASE BeginTerminal(o)
  BY <1>1, <1>2, <1>7, LaterTracks, CleanupSteps DEF BeginTerminal, Terminal
<1>8. CASE TerminalDone(o)
  BY <1>8 DEF TerminalDone, TrackInv, TrackedWork
<1> QED
  BY <1>3, <1>4, <1>5, <1>6, <1>7, <1>8 DEF BeginAny

LEMMA TrackCall ==
    ASSUME InPlace, TypeInv, RecordInv, AllowedInv, TrackInv, NEW o \in Operators, Call(o)
    PROVE  TrackedWork(o)'
<1>1. /\ TypeOK /\ TrackedWork(o) /\ Allowed(o) /\ w[o].patch \in StatusType
      /\ w[o].snap \in Object /\ GoodWork(o)
  BY WorkerFields DEF TypeInv, AllowedInv, TrackInv, RecordInv
<1>2. \A again : Finish(o, again) => TrackedWork(o)'
  BY <1>1, Moved, NewTracks DEF TrackedWork
<1>3. ASSUME NEW pc, NEW todo, NEW found, NEW p, Continue(o, pc, todo, found, p),
             pc = "create_jobs" => todo \subseteq Placed,
             Tracks(p, w[o].snap.spec)
      PROVE  TrackedWork(o)'
  BY <1>1, <1>3, Moved DEF TrackedWork
<1>4. \A p : GotoPatch(o, p) /\ Tracks(p, w[o].snap.spec) => TrackedWork(o)'
  BY <1>3 DEF GotoPatch
<1>5. Tracks(w[o].patch, w[o].snap.spec)
  BY <1>1 DEF TrackedWork
<1>6. \A pc : Goto(o, pc) /\ pc # "create_jobs" => TrackedWork(o)'
  BY <1>3, <1>5 DEF Goto
<1>7. Tracks([w[o].patch EXCEPT !.startedAt = clock], w[o].snap.spec)
  BY <1>1, <1>5, NewTracks
<1>8. \A found \in SUBSET Placed : (Runs(w[o].snap.spec) => found = Placed) =>
        Tracks(RunningPatch(w[o].snap, found), w[o].snap.spec)
  BY DEF RunningPatch, DefaultStatus, Tracks
<1>9. CASE AddFinalizer(o) \/ RemoveFinalizer(o) \/ PatchStatus(o)
  BY <1>2, <1>9 DEF AddFinalizer, RemoveFinalizer, PatchStatus
<1>10. CASE ListNodes(o)
  <2>1. ASSUME NEW found \in Placements \ {{}},
               Continue(o, "create_jobs", found, {}, RunningPatch(w[o].snap, found))
        PROVE  TrackedWork(o)'
    BY <1>3, <1>8, <2>1 DEF InPlace
  <2>2. {} \notin Placements
    BY DEF InPlace
  <2> QED
    BY <1>2, <1>10, <2>1, <2>2 DEF ListNodes
<1>11. CASE CreateJob(o)
  <2>1. \A n : Continue(o, "create_jobs", w[o].jobs \ {n}, {}, w[o].patch)
                 => TrackedWork(o)'
    BY <1>1, <1>3, <1>5, <1>11 DEF TrackedWork, CreateJob
  <2> QED
    BY <1>2, <1>4, <1>7, <1>11, <2>1 DEF CreateJob
<1>12. CASE CheckEdge(o)
  <2>1. ~Runs(w[o].snap.spec)
    BY <1>1, <1>12 DEF CheckEdge, Allowed, Runs
  <2>2. /\ Tracks(RunningPatch(w[o].snap, {}), w[o].snap.spec)
        /\ Tracks(FailedPatch, w[o].snap.spec)
    BY <1>8, <2>1, NewTracks
  <2>3. Continue(o, "create_vs", {}, {}, RunningPatch(w[o].snap, {})) => TrackedWork(o)'
    BY <1>3, <2>2
  <2> QED
    BY <1>2, <1>4, <1>12, <2>2, <2>3 DEF CheckEdge
<1>13. CASE CreateVs(o)
  BY <1>2, <1>4, <1>7, <1>13 DEF CreateVs
<1>14. CASE ListJobs(o)
  <2>1. w[o].snap.status.phase # "Pending" /\ TrackedVersion(w[o].snap)
    BY <1>1, <1>14 DEF ListJobs, GoodWork, TrackedWork
  <2>2. \A phase : Tracks(Completed(w[o].snap, phase), w[o].snap.spec)
    BY <1>1, <2>1, LaterTracks
  <2> QED
    BY <1>2, <1>4, <1>14, <2>2 DEF ListJobs
<1>15. CASE DeleteJob(o)
  <2>1. \A n : Continue(o, "delete_jobs", w[o].jobs \ {n}, {}, w[o].patch)
                 => TrackedWork(o)'
    BY <1>3, <1>5
  <2> QED
    BY <1>6, <1>15, <2>1, CleanupSteps DEF DeleteJob
<1>16. CASE ListVs(o) \/ DeleteVs(o)
  <2>1. \A found : Continue(o, "delete_vs", {}, found, w[o].patch) => TrackedWork(o)'
    BY <1>3, <1>5
  <2> QED
    BY <1>2, <1>6, <1>16, <2>1, CleanupSteps DEF ListVs, DeleteVs, CleanupFailed
<1> QED
  BY <1>9, <1>10, <1>11, <1>12, <1>13, <1>14, <1>15, <1>16 DEF Call

\* The version e is stored: by a patch, or with the status as it was.
Stores(e) ==
    /\ Store(e) /\ UNCHANGED cache
    /\ e.spec = exp.spec \/ Editable
    /\ \/ e.status = exp.status
       \/ \E o \in Operators : /\ w[o].pc = "patch" /\ e.spec = exp.spec
                               /\ e.status = Merge(exp.status, w[o].patch)

\* What becomes of the stored version, the caches and the queues in a step.
LEMMA VersionSteps ==
    ASSUME TypeOK, [Next]_vars
    PROVE  \/ UNCHANGED <<exp, cache, events>>
           \/ \E e \in Object : Stores(e)
           \/ exp' = exp /\ \E o \in Operators : Watch(o) \/ Crash(o)
<1>1. exp \in [exists: BOOLEAN, finalizer: BOOLEAN, deleting: BOOLEAN,
               spec: Specs, status: StatusType]
  BY DEF TypeOK, Object, ObjectType
<1> DEFINE Goal == UNCHANGED <<exp, cache, events>> \/ \E e \in Object : Stores(e)
<1>2. ASSUME NEW o \in Operators, AddFinalizer(o) \/ RemoveFinalizer(o)
      PROVE  Goal
  <2> DEFINE e1 == [exp EXCEPT !.finalizer = TRUE]
             e2 == [exp EXCEPT !.finalizer = FALSE, !.exists = ~exp.deleting]
  <2>1. /\ e1 \in Object /\ e1.status = exp.status /\ e1.spec = exp.spec
        /\ e2 \in Object /\ e2.status = exp.status /\ e2.spec = exp.spec
    BY <1>1 DEF Object, ObjectType
  <2>2. UNCHANGED store \/ Store(e1) \/ Store(e2)
    BY <1>2 DEF AddFinalizer, RemoveFinalizer, StoreIfExists
  <2>3. UNCHANGED cache
    BY <1>2 DEF AddFinalizer, RemoveFinalizer
  <2> HIDE DEF e1, e2
  <2> QED
    BY <2>1, <2>2, <2>3 DEF store, Stores
<1>3. ASSUME NEW o \in Operators, PatchStatus(o)
      PROVE  Goal
  <2> DEFINE m == Merge(exp.status, w[o].patch)
             e == [exp EXCEPT !.status = m]
  <2>1. w[o].patch \in StatusType
    BY DEF TypeOK, Worker
  <2>2. m \in StatusType
    BY <1>1, <2>1, MergeType
  <2> HIDE DEF m
  <2>3. e \in Object /\ e.status = m /\ e.spec = exp.spec
    BY <1>1, <2>2 DEF Object, ObjectType
  <2>4. /\ UNCHANGED store \/ Store(e)
        /\ UNCHANGED cache /\ w[o].pc = "patch"
    BY <1>3 DEF PatchStatus, StoreIfExists, m
  <2> HIDE DEF e
  <2> QED
    BY <2>3, <2>4 DEF store, m, Stores
<1>4. CASE RequestDelete
  <2> DEFINE e == IF exp.finalizer THEN [exp EXCEPT !.deleting = TRUE]
                                   ELSE [exp EXCEPT !.exists = FALSE]
  <2>1. e \in Object /\ e.status = exp.status /\ e.spec = exp.spec
    BY <1>1 DEF Object, ObjectType
  <2>2. Store(e) /\ UNCHANGED cache
    BY <1>4 DEF RequestDelete
  <2> HIDE DEF e
  <2> QED
    BY <2>1, <2>2 DEF Stores
<1>5. CASE EditSpec
  <2>1. PICK s \in Specs : Store([exp EXCEPT !.spec = s]) /\ Editable /\ UNCHANGED cache
    BY <1>5 DEF EditSpec, Editable
  <2> DEFINE e == [exp EXCEPT !.spec = s]
  <2>2. e \in Object /\ e.status = exp.status
    BY <1>1 DEF Object, ObjectType
  <2> HIDE DEF e
  <2> QED
    BY <2>1, <2>2 DEF e, Stores
<1>6. ASSUME NEW o \in Operators,
             \/ BeginAny(o) \/ ListNodes(o) \/ CreateJob(o) \/ ListJobs(o)
             \/ DeleteJob(o) \/ CheckEdge(o) \/ CreateVs(o) \/ ListVs(o) \/ DeleteVs(o)
      PROVE  UNCHANGED <<exp, cache, events>>
  BY <1>6 DEF BeginAny, BeginAddFinalizer, BeginDeletion, BeginPending, BeginRunning,
              BeginTerminal, TerminalDone, Begin, ListNodes, CreateJob, ListJobs,
              DeleteJob, CheckEdge, CreateVs, ListVs, DeleteVs, store
<1>7. Cluster => RequestDelete \/ EditSpec \/ UNCHANGED <<exp, cache, events>>
  BY DEF Cluster, JobFinishes, JobReaped, VsCollected, Tick, store
<1>8. \A o : Watch(o) \/ Crash(o) => exp' = exp
  BY DEF Watch, Crash
<1>9. UNCHANGED vars => UNCHANGED <<exp, cache, events>>
  BY DEF vars
<1>10. ASSUME NEW o \in Operators, Call(o)
       PROVE  Goal
  BY <1>2, <1>3, <1>6, <1>10 DEF Call
<1> QED
  BY <1>4, <1>5, <1>6, <1>7, <1>8, <1>9, <1>10 DEF Next

LEMMA TrackInit == Init => TrackInv
<1> SUFFICES ASSUME Init PROVE TrackInv
  OBVIOUS
<1>1. PICK s \in Specs : exp = NewExperiment(s)
  BY DEF Init
<1>2. \A o \in Operators : cache[o] = exp /\ events[o] = <<>> /\ w[o] = IdleWorker
  BY DEF Init
<1>3. \A n \in Nodes : ~Live(n)
  BY DEF Init, Live
<1>4. IdleWorker.pc # "create_jobs"
  BY DEF IdleWorker
<1>5. TrackedVersion(exp) /\ TrackedVersion(IdleWorker.snap)
      /\ Tracks(IdleWorker.patch, IdleWorker.snap.spec)
  BY <1>1, NewTracks
<1> QED
  BY <1>2, <1>3, <1>4, <1>5 DEF TrackInv, TrackedQueue, TrackedWork

LEMMA TrackVersions ==
    ASSUME Steady, ChainInv, TrackInv, [Next]_vars
    PROVE  TrackedVersion(exp)' /\ \A o \in Operators : TrackedQueue(o)'
<1>1. TypeOK /\ TrackedVersion(exp) /\ \A o \in Operators : TrackedQueue(o)
  BY DEF ChainInv, TypeInv, TrackInv
<1>2. CASE UNCHANGED <<exp, cache, events>>
  BY <1>1, <1>2 DEF TrackedVersion, TrackedQueue
<1>3. ASSUME NEW e \in Object, Stores(e)
      PROVE  TrackedVersion(exp)' /\ \A o \in Operators : TrackedQueue(o)'
  <2>1. TrackedVersion(e)
    <3>1. Runs(e.spec) <=> Runs(exp.spec)
      <4>1. exp.spec \in Specs /\ e.spec \in Specs
        BY <1>1 DEF TypeOK, Object, ObjectType
      <4> QED
        BY <1>3, <4>1 DEF Steady, Stores
    <3>2. CASE e.status = exp.status
      BY <1>1, <3>1, <3>2 DEF TrackedVersion, Tracks
    <3>3. ASSUME NEW o \in Operators, w[o].pc = "patch", e.spec = exp.spec,
                 e.status = Merge(exp.status, w[o].patch)
          PROVE  TrackedVersion(e)
      <4>1. exp.status \in StatusType /\ w[o].patch \in StatusType
        BY <1>1 DEF TypeOK, Object, ObjectType, Worker
      <4>2. Tracks(w[o].patch, w[o].snap.spec)
        BY DEF TrackInv, TrackedWork
      <4>3. Runs(w[o].snap.spec) <=> Runs(exp.spec)
        BY <3>3, SameSpec
      <4>4. Tracks(w[o].patch, exp.spec) /\ Tracks(exp.status, exp.spec)
        BY <1>1, <4>2, <4>3 DEF Tracks, TrackedVersion
      <4> QED
        BY <3>3, <4>1, <4>4, MergeTracks DEF TrackedVersion
    <3> QED
      BY <1>3, <3>2, <3>3 DEF Stores
  <2>2. exp' = e /\ cache' = cache /\ Store(e)
    BY <1>3 DEF Stores, Store
  <2>3. ASSUME NEW o \in Operators
        PROVE  TrackedQueue(o)'
    <3>1. \A i \in 1..Len(events'[o]) : TrackedVersion(events'[o][i])
      BY <1>1, <2>1, <2>2, QueuedVersions DEF TrackedQueue
    <3> QED
      BY <1>1, <2>2, <3>1 DEF TrackedQueue, TrackedVersion
  <2> QED
    BY <2>1, <2>2, <2>3 DEF TrackedVersion
<1>4. ASSUME NEW o \in Operators, Watch(o)
      PROVE  TrackedVersion(exp)' /\ \A x \in Operators : TrackedQueue(x)'
  <2> DEFINE q == events[o]
  <2>1. q \in Seq(Object) /\ q # <<>> /\ \A i \in 1..Len(q) : TrackedVersion(q[i])
    BY <1>1, <1>4 DEF TypeOK, Watch, TrackedQueue
  <2>2. cache'[o] = Head(q) /\ events'[o] = Tail(q)
    BY <1>1, <1>4 DEF TypeOK, Watch
  <2> HIDE DEF q
  <2>3. TrackedQueue(o)'
    BY <2>1, <2>2 DEF TrackedQueue
  <2>4. \A x \in Operators : x # o => cache'[x] = cache[x] /\ events'[x] = events[x]
    BY <1>1, <1>4 DEF Watch, TypeOK
  <2>5. exp' = exp
    BY <1>4 DEF Watch
  <2> QED
    BY <1>1, <2>3, <2>4, <2>5 DEF TrackedQueue, TrackedVersion
<1>5. ASSUME NEW o \in Operators, Crash(o)
      PROVE  TrackedVersion(exp)' /\ \A x \in Operators : TrackedQueue(x)'
  <2>1. cache'[o] = exp /\ events'[o] = <<>> /\ exp' = exp
    BY <1>1, <1>5 DEF Crash, TypeOK
  <2>2. \A x \in Operators : x # o => cache'[x] = cache[x] /\ events'[x] = events[x]
    BY <1>1, <1>5 DEF Crash, TypeOK
  <2> QED
    BY <1>1, <2>1, <2>2 DEF TrackedQueue, TrackedVersion
<1> QED
  BY <1>1, <1>2, <1>3, <1>4, <1>5, VersionSteps

LEMMA TrackNext ==
    ASSUME Steady, InPlace, ChainInv, RecordInv, AllowedInv, TrackInv, [Next]_vars
    PROVE  TrackInv'
<1>1. TypeInv /\ TypeOK
  BY DEF ChainInv, TypeInv
<1>2. TrackedVersion(exp)' /\ \A o \in Operators : TrackedQueue(o)'
  BY TrackVersions
<1>3. ASSUME NEW n \in Nodes, Live(n)'
      PROVE  n \in Placed /\ Runs(exp.spec)'
  <2>1. n \in Placed /\ Runs(exp.spec)
    <3>1. CASE Live(n)
      BY <3>1 DEF TrackInv
    <3>2. CASE ~Live(n)
      <4>1. PICK o \in Operators : /\ w[o].pc = "create_jobs" /\ n \in w[o].jobs
                                   /\ Runs(w[o].snap.spec)
        BY <1>1, <1>3, <3>2, NewInCluster
      <4>2. Runs(exp.spec)
        BY <4>1, SameSpec
      <4> QED
        BY <4>1, <4>2 DEF TrackInv, TrackedWork
    <3> QED
      BY <3>1, <3>2
  <2>2. exp'.spec = exp.spec \/ \A s \in Specs : Runs(s)
    BY <1>1, NewInCluster DEF Steady
  <2>3. exp'.spec \in Specs
    BY <1>1, TypeNext DEF TypeInv, TypeOK, Object, ObjectType
  <2> QED
    BY <2>1, <2>2, <2>3 DEF Runs
<1>4. ASSUME NEW o \in Operators
      PROVE  TrackedWork(o)'
  <2>1. CASE BeginAny(o) \/ Call(o)
    BY <1>1, <2>1, TrackBegin, TrackCall
  <2>2. CASE w'[o] = w[o] \/ w'[o] = IdleWorker
    BY <1>1, <2>2, NewTracks, Moved DEF TrackInv, TrackedWork, TrackedVersion
  <2>3. ASSUME NEW x \in Operators, x # o, BeginAny(x) \/ Call(x)
        PROVE  w'[o] = w[o]
    BY <1>1, <2>3, OthersStay
  <2> QED
    BY <1>1, <2>1, <2>2, <2>3, Surroundings DEF Next
<1> QED
  BY <1>2, <1>3, <1>4 DEF TrackInv, Live

LEMMA TrackCorrect == Steady /\ InPlace => (Spec => []TrackInv)
<1> SUFFICES ASSUME Steady, InPlace PROVE Spec => []TrackInv
  OBVIOUS
<1>1. ChainInv /\ RecordInv /\ AllowedInv /\ TrackInv /\ [Next]_vars => TrackInv'
  BY TrackNext
<1> QED
  BY <1>1, TrackInit, ChainCorrect, RecordCorrect, AllowedCorrect, PTL DEF Spec

\* Once the experiment left Pending its status names every runner job there is,
\* through failed creations, lost answers and restarts, and for any number of
\* operators with caches of any age, as long as the target pods stay on their
\* nodes and the experiment stays a valid pod experiment.
THEOREM JobsRecorded == Steady /\ InPlace => (Spec => []JobsTracked)
<1> SUFFICES ASSUME Steady, InPlace PROVE Spec => []JobsTracked
  OBVIOUS
<1>1. TrackInv => JobsTracked
  BY DEF TrackInv, TrackedVersion, Tracks, JobsTracked
<1> QED
  BY <1>1, TrackCorrect, PTL

-----------------------------------------------------------------------------
(* The cleanup of the runner jobs.  delete_job's result is ignored, so each*)
(* call that fails may leave one job behind cleanupDone: never more, when a*)
(* single operator works on the object.                                    *)

Single == \A o, p \in Operators : o = p

\* The reconcile of o may create a job.
Creating(o) == w[o].pc \in {"list_nodes", "create_jobs"}

\* Of the jobs J, at most e are left outside T.
FewOf(J, T, e) == Cardinality({n \in Nodes : J[n] # "absent" /\ n \notin T}) <= e

\* The jobs that the cleanup of o has still to visit.
Left(o) == IF w[o].pc = "delete_jobs" THEN w[o].jobs ELSE {}

\* A cleanup has the jobs that there are still to visit, but for one for each failed
\* call, and no others are left when it is recorded.
Clears(o) ==
    /\ w[o].pc \in {"delete_jobs", "list_vs", "delete_vs"} /\ ~w[o].snap.deleting =>
         /\ cache[o].status.phase # "Pending"
         /\ FewOf(jobs, Left(o), errors)
    /\ w[o].pc = "patch" /\ w[o].patch.cleanupDone =>
         FewOf(jobs, {}, errors) /\ cache[o].status.phase # "Pending"

ClearedForGood ==
    exp.status.cleanupDone =>
        /\ FewOf(jobs, {}, errors)
        /\ \A o \in Operators : ~Creating(o) /\ cache[o].status.phase # "Pending"

ClearInv == ClearedForGood /\ \A o \in Operators : Clears(o)

\* What the proofs below rest on.
BaseInv == ChainInv /\ RecordInv /\ AllowedInv /\ TrackInv

\* Fewer jobs, more to visit and more errors are no harm.
LEMMA FewStay ==
    ASSUME NEW J, NEW K, NEW S, NEW T, NEW d \in Nat, NEW e \in Nat, d <= e,
           \A n \in Nodes : K[n] # "absent" /\ n \notin T => J[n] # "absent" /\ n \notin S,
           FewOf(J, S, d)
    PROVE  FewOf(K, T, e)
<1> DEFINE A == {n \in Nodes : J[n] # "absent" /\ n \notin S}
           B == {n \in Nodes : K[n] # "absent" /\ n \notin T}
<1>1. B \in SUBSET A
  OBVIOUS
<1>2. IsFiniteSet(A)
  BY NodesAssumption, FS_Subset, A \in SUBSET Nodes
<1>3. Cardinality(B) <= Cardinality(A) /\ IsFiniteSet(B)
  BY <1>1, <1>2, FS_Subset
<1>4. Cardinality(A) \in Nat /\ Cardinality(B) \in Nat
  BY <1>2, <1>3, FS_CardinalityType
<1>5. Cardinality(A) <= d
  BY DEF FewOf
<1> HIDE DEF A, B
<1>6. Cardinality(B) <= e
  BY <1>3, <1>4, <1>5
<1> QED
  BY <1>6 DEF FewOf, B

\* A job that was to be visited and is not deleted is one more.
LEMMA FewMore ==
    ASSUME NEW J, NEW S, NEW n, NEW d \in Nat, FewOf(J, S, d)
    PROVE  FewOf(J, S \ {n}, d + 1)
<1> DEFINE A == {m \in Nodes : J[m] # "absent" /\ m \notin S}
           B == {m \in Nodes : J[m] # "absent" /\ m \notin S \ {n}}
<1>1. IsFiniteSet(A)
  BY NodesAssumption, FS_Subset, A \in SUBSET Nodes
<1>2. /\ IsFiniteSet(A \cup {n}) /\ Cardinality(A) \in Nat
      /\ Cardinality(A \cup {n}) \in {Cardinality(A), Cardinality(A) + 1}
  BY <1>1, FS_AddElement, FS_CardinalityType
<1>3. B \in SUBSET (A \cup {n})
  OBVIOUS
<1>4. Cardinality(B) <= Cardinality(A \cup {n}) /\ IsFiniteSet(B)
  BY <1>2, <1>3, FS_Subset
<1>5. Cardinality(B) \in Nat
  BY <1>4, FS_CardinalityType
<1>6. Cardinality(A) <= d
  BY DEF FewOf
<1> HIDE DEF A, B
<1>7. Cardinality(B) <= d + 1
  BY <1>2, <1>4, <1>5, <1>6
<1> QED
  BY <1>7 DEF FewOf, B

LEMMA FewNone ==
    ASSUME NEW J, NEW T, NEW e \in Nat, \A n \in Nodes : J[n] # "absent" => n \in T
    PROVE  FewOf(J, T, e)
<1>1. {n \in Nodes : J[n] # "absent" /\ n \notin T} = {}
  OBVIOUS
<1> QED
  BY <1>1, FS_EmptySet DEF FewOf

LEMMA ErrorsGrow ==
    ASSUME TypeOK, [Next]_vars
    PROVE  errors \in Nat /\ errors' \in Nat /\ errors <= errors'
<1>1. errors \in Nat
  BY BoundAssumption DEF TypeOK
<1>2. ASSUME NEW r, Charge(r) PROVE errors' = errors \/ errors' = errors + 1
  BY <1>2 DEF Charge
<1>3. ASSUME NEW o \in Operators, BeginAny(o) PROVE errors' = errors
  BY <1>3 DEF BeginAny, BeginAddFinalizer, BeginDeletion, BeginPending, BeginRunning,
              BeginTerminal, TerminalDone, Begin, budget
<1>4. ASSUME NEW o \in Operators, Call(o) PROVE errors' = errors \/ errors' = errors + 1
  <2>1. CASE AddFinalizer(o) \/ RemoveFinalizer(o) \/ PatchStatus(o)
    BY <1>2, <2>1 DEF AddFinalizer, RemoveFinalizer, PatchStatus
  <2>2. CASE ListNodes(o) \/ CreateJob(o) \/ CheckEdge(o) \/ CreateVs(o)
    BY <1>2, <2>2 DEF ListNodes, CreateJob, CheckEdge, CreateVs
  <2>3. CASE ListJobs(o) \/ DeleteJob(o) \/ ListVs(o) \/ DeleteVs(o)
    BY <1>2, <2>3 DEF ListJobs, DeleteJob, ListVs, DeleteVs
  <2> QED
    BY <1>4, <2>1, <2>2, <2>3 DEF Call
<1>5. ASSUME (\E o \in Operators : Watch(o) \/ Crash(o)) \/ Cluster \/ UNCHANGED vars
      PROVE  errors' = errors
  BY <1>5 DEF Watch, Crash, Cluster, RequestDelete, EditSpec, JobFinishes, JobReaped, Tick,
              VsCollected, budget, vars
<1>6. errors' = errors \/ errors' = errors + 1
  BY <1>3, <1>4, <1>5 DEF Next
<1> QED
  BY <1>1, <1>6

\* While no job is created, what is left stays few.
LEMMA LeftStayFew ==
    ASSUME TypeOK, AllowedInv, [Next]_vars, \A x \in Operators : w[x].pc # "create_jobs"
    PROVE  \A T : FewOf(jobs, T, errors) => FewOf(jobs', T, errors')
<1>1. \A n \in Nodes : jobs'[n] # "absent" => jobs[n] # "absent"
  BY NewInCluster DEF Live
<1> QED
  BY <1>1, ErrorsGrow, FewStay

LEMMA ClearFinish ==
    ASSUME TypeOK, NEW o \in Operators, w'[o].pc = "idle"
    PROVE  Clears(o)' /\ ~Creating(o)'
BY DEF Clears, Creating

\* The status of a run is not that of an experiment that is cleaned up.
LEMMA RunNotCleaned ==
    ASSUME BaseInv, NEW o \in Operators
    PROVE  /\ ~FailedPatch.cleanupDone
           /\ \A s, found : ~RunningPatch(s, found).cleanupDone
           /\ w[o].pc \in {"create_jobs", "create_vs"} =>
                ~[w[o].patch EXCEPT !.startedAt = clock].cleanupDone
           /\ w[o].pc = "list_jobs" =>
                \A phase : ~Completed(w[o].snap, phase).cleanupDone
           /\ cache[o].status.phase = "Running" =>
                \A phase : ~Completed(cache[o], phase).cleanupDone
<1>1. /\ w[o].patch \in StatusType /\ w[o].snap.status \in StatusType
      /\ cache[o].status \in StatusType
      /\ GoodWork(o) /\ GoodQueue(o)
  BY WorkerFields
     DEF BaseInv, ChainInv, RecordInv, Object, ObjectType, TypeInv, TypeOK
<1>2. w[o].pc \in {"create_jobs", "create_vs"} => ~w[o].patch.cleanupDone
  BY <1>1 DEF GoodWork, Sound, Terminal
<1>3. w[o].pc = "list_jobs" => ~w[o].snap.status.cleanupDone
  BY <1>1 DEF GoodWork, GoodVersion, Sound, Terminal
<1>4. cache[o].status.phase = "Running" => ~cache[o].status.cleanupDone
  BY <1>1 DEF GoodQueue, GoodVersion, Sound, Terminal
<1>5. [w[o].patch EXCEPT !.startedAt = clock].cleanupDone = w[o].patch.cleanupDone
  BY <1>1 DEF StatusType
<1>6. \A phase : Completed(w[o].snap, phase).cleanupDone = w[o].snap.status.cleanupDone
  BY <1>1 DEF Completed, StatusType
<1>7. \A phase : Completed(cache[o], phase).cleanupDone = cache[o].status.cleanupDone
  BY <1>1 DEF Completed, StatusType
<1>8. ~FailedPatch.cleanupDone /\ \A s, found : ~RunningPatch(s, found).cleanupDone
  BY DEF FailedPatch, RunningPatch, DefaultStatus
<1> QED
  BY <1>2, <1>3, <1>4, <1>5, <1>6, <1>7, <1>8

LEMMA ClearBegin ==
    ASSUME Steady, BaseInv, ClearInv, NEW o \in Operators, BeginAny(o)
    PROVE  /\ Clears(o)'
           /\ Creating(o)' => Creating(o) \/ cache[o].status.phase = "Pending"
<1>1. /\ TypeOK /\ UNCHANGED <<cache, jobs, errors>> /\ Clears(o) /\ errors \in Nat
  BY BoundAssumption
     DEF BaseInv, ChainInv, TypeInv, TypeOK, ClearInv, BeginAny, BeginAddFinalizer,
         BeginDeletion, BeginPending, BeginRunning, BeginTerminal, TerminalDone, Begin,
         cluster, budget
<1>2. ASSUME NEW pc, NEW todo, NEW p, Begin(o, pc, todo, p),
             pc \in {"list_nodes", "create_jobs"} => cache[o].status.phase = "Pending",
             pc \in {"delete_jobs", "list_vs", "delete_vs"} /\ ~cache[o].deleting =>
               /\ cache[o].status.phase # "Pending"
               /\ FewOf(jobs, IF pc = "delete_jobs" THEN todo ELSE {}, errors),
             pc = "patch" /\ p.cleanupDone =>
               FewOf(jobs, {}, errors) /\ cache[o].status.phase # "Pending"
      PROVE  /\ Clears(o)'
             /\ Creating(o)' => Creating(o) \/ cache[o].status.phase = "Pending"
  BY <1>1, <1>2, Moved DEF Clears, Creating, Left
<1>3. CASE BeginAddFinalizer(o)
  BY <1>2, <1>3 DEF BeginAddFinalizer
<1>4. CASE BeginDeletion(o)
  <2>1. /\ cache[o].deleting /\ CleanupStart(cache[o]) # "patch"
        /\ CleanupStart(cache[o]) \in {"delete_jobs", "list_vs", "remove_finalizer"}
    BY <1>4 DEF BeginDeletion, CleanupStart, AfterJobs, AfterVs, is_being_deleted
  <2> QED
    BY <1>2, <1>4, <2>1 DEF BeginDeletion
<1>5. CASE BeginPending(o)
  BY <1>2, <1>5, RunNotCleaned DEF BeginPending
<1>6. CASE BeginRunning(o)
  BY <1>2, <1>6, RunNotCleaned DEF BeginRunning
<1>7. CASE BeginTerminal(o)
  <2>1. /\ cache[o].status.phase # "Pending"
        /\ Begin(o, CleanupStart(cache[o]), cache[o].status.runnerJobs,
                 [cache[o].status EXCEPT !.cleanupDone = TRUE])
    BY <1>7 DEF BeginTerminal, Terminal
  <2>2. \A n \in Nodes : jobs[n] # "absent" => n \in cache[o].status.runnerJobs
    BY <2>1, SameSpec DEF BaseInv, TrackInv, TrackedQueue, TrackedVersion, Tracks, Live
  <2>3. /\ FewOf(jobs, cache[o].status.runnerJobs, errors)
        /\ CleanupStart(cache[o]) # "delete_jobs" => FewOf(jobs, {}, errors)
    BY <1>1, <2>2, FewNone DEF CleanupStart
  <2> QED
    BY <1>2, <2>1, <2>3, CleanupSteps
<1>8. CASE TerminalDone(o)
  BY <1>1, <1>8 DEF TerminalDone, Clears, Creating, Left
<1> QED
  BY <1>3, <1>4, <1>5, <1>6, <1>7, <1>8 DEF BeginAny

LEMMA ClearCall ==
    ASSUME Steady, BaseInv, ClearInv, NEW o \in Operators, Call(o)
    PROVE  Clears(o)' /\ (Creating(o)' => Creating(o))
<1>1. /\ TypeOK /\ UNCHANGED cache /\ Clears(o)
      /\ errors \in Nat /\ errors' \in Nat /\ errors <= errors'
  <2>1. TypeOK /\ [Next]_vars
    BY DEF BaseInv, ChainInv, TypeInv, Next
  <2> QED
    BY <2>1, ErrorsGrow DEF ClearInv, Call, AddFinalizer, RemoveFinalizer, PatchStatus,
       ListNodes, CreateJob, ListJobs, DeleteJob, CheckEdge, CreateVs, ListVs, DeleteVs
<1> DEFINE Good == Clears(o)' /\ (Creating(o)' => Creating(o))
<1>2. \A again : Finish(o, again) => Good
  BY <1>1, Moved, ClearFinish
<1>3. ASSUME NEW pc, NEW todo, NEW found, NEW p, Continue(o, pc, todo, found, p),
             pc \in {"list_nodes", "create_jobs"} => Creating(o),
             pc \in {"delete_jobs", "list_vs", "delete_vs"} /\ ~w[o].snap.deleting =>
               /\ cache[o].status.phase # "Pending"
               /\ FewOf(jobs', IF pc = "delete_jobs" THEN todo ELSE {}, errors'),
             pc = "patch" /\ p.cleanupDone =>
               FewOf(jobs', {}, errors') /\ cache[o].status.phase # "Pending"
      PROVE  Good
  BY <1>1, <1>3, Moved DEF Clears, Creating, Left
<1>4. \A p : GotoPatch(o, p) /\ ~p.cleanupDone => Good
  BY <1>3 DEF GotoPatch
\* A cleanup that has no job left goes on, or is over.
<1>5. ASSUME w[o].pc \in {"delete_jobs", "list_vs", "delete_vs"},
             ~w[o].snap.deleting => FewOf(jobs', {}, errors')
      PROVE  /\ Goto(o, AfterVs(w[o].snap)) => Good
             /\ Goto(o, AfterJobs(w[o].snap)) => Good
  <2>1. ~w[o].snap.deleting => cache[o].status.phase # "Pending"
    BY <1>1, <1>5 DEF Clears
  <2>2. /\ w[o].snap.deleting => AfterVs(w[o].snap) # "patch"
        /\ w[o].snap.deleting => AfterJobs(w[o].snap) # "patch"
    BY DEF AfterVs, AfterJobs, is_being_deleted
  <2> HIDE DEF Good
  <2> QED
    BY <1>3, <1>5, <2>1, <2>2, CleanupSteps DEF Goto
<1>6. CleanupFailed(o) => Good
  <2>1. Goto(o, "remove_finalizer") => Good
    BY <1>3 DEF Goto
  <2> HIDE DEF Good
  <2> QED
    BY <1>2, <2>1 DEF CleanupFailed
<1> HIDE DEF Good
<1>7. ASSUME AddFinalizer(o) \/ RemoveFinalizer(o) \/ PatchStatus(o)
      PROVE  Good
  BY <1>2, <1>7 DEF AddFinalizer, RemoveFinalizer, PatchStatus
<1>8. ASSUME ListNodes(o)
      PROVE  Good
  <2>1. \A todo, p : Continue(o, "create_jobs", todo, {}, p) => Good
    BY <1>3, <1>8 DEF ListNodes, Creating
  <2> QED
    BY <1>2, <1>4, <1>8, <2>1, RunNotCleaned DEF ListNodes
<1>9. ASSUME CreateJob(o)
      PROVE  Good
  <2>1. \A todo, p : Continue(o, "create_jobs", todo, {}, p) => Good
    BY <1>3, <1>9 DEF CreateJob, Creating
  <2>2. ~[w[o].patch EXCEPT !.startedAt = clock].cleanupDone
    BY <1>9, RunNotCleaned DEF CreateJob
  <2> QED
    BY <1>2, <1>4, <1>9, <2>1, <2>2 DEF CreateJob
<1>10. ASSUME CheckEdge(o)
       PROVE  Good
  <2>1. \A p : Continue(o, "create_vs", {}, {}, p) => Good
    BY <1>3
  <2> QED
    BY <1>2, <1>4, <1>10, <2>1, RunNotCleaned DEF CheckEdge
<1>11. ASSUME CreateVs(o)
       PROVE  Good
  <2>1. ~[w[o].patch EXCEPT !.startedAt = clock].cleanupDone
    BY <1>11, RunNotCleaned DEF CreateVs
  <2> QED
    BY <1>2, <1>4, <1>11, <2>1 DEF CreateVs
<1>12. ASSUME ListJobs(o)
       PROVE  Good
  <2> DEFINE v == JobVerdict(w[o].snap, {jobs[n] : n \in Nodes} \ {"absent"})
  <2>1. Finish(o, TRUE) \/ GotoPatch(o, Completed(w[o].snap, v))
    BY <1>12 DEF ListJobs
  <2>2. ~Completed(w[o].snap, v).cleanupDone
    BY <1>12, RunNotCleaned DEF ListJobs
  <2> HIDE DEF v
  <2> QED
    BY <1>2, <1>4, <2>1, <2>2
<1>13. ASSUME DeleteJob(o)
       PROVE  Good
  <2>1. PICK n \in w[o].jobs, r \in {"ok", "refused"} :
          /\ Charge(r)
          /\ jobs' = IF Applied(r) THEN [jobs EXCEPT ![n] = "absent"] ELSE jobs
          /\ IF w[o].jobs = {n} THEN Goto(o, AfterJobs(w[o].snap))
             ELSE Continue(o, "delete_jobs", w[o].jobs \ {n}, {}, w[o].patch)
    BY <1>13 DEF DeleteJob
  <2>2. w[o].pc = "delete_jobs"
    BY <1>13 DEF DeleteJob
  <2>3. ~w[o].snap.deleting =>
          /\ cache[o].status.phase # "Pending"
          /\ FewOf(jobs', w[o].jobs \ {n}, errors')
    <3>1. ASSUME ~w[o].snap.deleting
          PROVE  cache[o].status.phase # "Pending" /\ FewOf(jobs, w[o].jobs, errors)
      BY <1>1, <2>2, <3>1 DEF Clears, Left
    \* The job is deleted.
    <3>2. CASE r = "ok" /\ ~w[o].snap.deleting
      <4>1. \A m \in Nodes : jobs'[m] = IF m = n THEN "absent" ELSE jobs[m]
        BY <1>1, <2>1, <3>2 DEF TypeOK, Applied
      <4> QED
        BY <1>1, <3>1, <3>2, <4>1, FewStay
    \* The call is refused, and charged.
    <3>3. CASE r = "refused" /\ ~w[o].snap.deleting
      <4>1. jobs' = jobs /\ errors' = errors + 1
        BY <2>1, <3>3 DEF Applied, Charge
      <4> QED
        BY <1>1, <3>1, <3>3, <4>1, FewMore
    <3> QED
      BY <3>2, <3>3
  <2>4. CASE w[o].jobs = {n}
    <3>1. ~w[o].snap.deleting => FewOf(jobs', {}, errors')
      BY <2>3, <2>4, {n} \ {n} = {}
    <3> QED
      BY <1>5, <2>1, <2>2, <2>4, <3>1
  <2>5. CASE w[o].jobs # {n}
    <3>1. Continue(o, "delete_jobs", w[o].jobs \ {n}, {}, w[o].patch)
      BY <2>1, <2>5
    <3> QED
      BY <1>3, <2>3, <3>1
  <2> QED
    BY <2>4, <2>5
<1>14. ASSUME ListVs(o) \/ DeleteVs(o)
       PROVE  Good
  <2>1. w[o].pc \in {"list_vs", "delete_vs"} /\ jobs' = jobs
    BY <1>14 DEF ListVs, DeleteVs, cluster
  <2>2. ~w[o].snap.deleting =>
          FewOf(jobs', {}, errors') /\ cache[o].status.phase # "Pending"
    BY <1>1, <2>1, FewStay DEF Clears, Left
  <2>3. \A found : Continue(o, "delete_vs", {}, found, w[o].patch) => Good
    BY <1>3, <2>2
  <2>4. Goto(o, AfterVs(w[o].snap)) => Good
    BY <1>5, <2>1, <2>2
  <2> QED
    BY <1>6, <1>14, <2>3, <2>4 DEF ListVs, DeleteVs
<1> QED
  BY <1>7, <1>8, <1>9, <1>10, <1>11, <1>12, <1>13, <1>14 DEF Call, Good

LEMMA ClearInit == Init => ClearInv
BY DEF Init, NewExperiment, DefaultStatus, IdleWorker, ClearInv, ClearedForGood, Clears

LEMMA ClearNext ==
    ASSUME Single, Steady, BaseInv, ClearInv, [Next]_vars
    PROVE  ClearInv'
<1>1. TypeOK /\ ChainInv /\ AllowedInv /\ TrackInv /\ ClearedForGood
  BY DEF BaseInv, ChainInv, TypeInv, ClearInv
<1>2. \A o, p \in Operators : o = p
  BY DEF Single
<1>3. ASSUME NEW o \in Operators, BeginAny(o) \/ Call(o)
      PROVE  ClearInv'
  <2>1. /\ Clears(o)'
        /\ Creating(o)' => Creating(o) \/ cache[o].status.phase = "Pending"
    BY <1>3, ClearBegin, ClearCall
  <2>2. cache' = cache
    BY <1>3 DEF BeginAny, BeginAddFinalizer, BeginDeletion, BeginPending, BeginRunning,
                BeginTerminal, TerminalDone, Begin, Call, AddFinalizer,
                RemoveFinalizer, PatchStatus, ListNodes, CreateJob, ListJobs, DeleteJob,
                CheckEdge, CreateVs, ListVs, DeleteVs
  <2>3. CASE exp.status.cleanupDone /\ exp'.status = exp.status
    <3>1. /\ FewOf(jobs, {}, errors)
          /\ ~Creating(o) /\ cache[o].status.phase # "Pending"
      BY <1>1, <2>3 DEF ClearedForGood
    <3>2. FewOf(jobs', {}, errors')
      <4>1. \A x \in Operators : w[x].pc # "create_jobs"
        BY <1>2, <3>1 DEF Creating
      <4> QED
        BY <1>1, <3>1, <4>1, LeftStayFew
    <3> QED
      BY <1>2, <2>1, <2>2, <3>1, <3>2 DEF ClearInv, ClearedForGood
  <2>4. CASE ~exp'.status.cleanupDone
    BY <1>2, <2>1, <2>4 DEF ClearInv, ClearedForGood
  <2>5. CASE exp'.status.cleanupDone /\ exp'.status # exp.status
    <3>1. PICK e \in Object : Stores(e)
      BY <1>1, <2>2, <2>5, VersionSteps DEF Watch, Crash
    <3>2. exp' = e
      BY <3>1 DEF Stores, Store
    <3>3. w[o].pc = "patch" /\ e.status = Merge(exp.status, w[o].patch)
      BY <1>2, <2>5, <3>1, <3>2 DEF Stores
    <3>4. w[o].patch.cleanupDone
      BY <2>5, <3>2, <3>3 DEF Merge
    <3>5. FewOf(jobs, {}, errors) /\ cache[o].status.phase # "Pending"
      BY <3>3, <3>4 DEF ClearInv, Clears
    <3>6. FewOf(jobs', {}, errors')
      <4>1. \A x \in Operators : w[x].pc # "create_jobs"
        BY <1>2, <3>3
      <4> QED
        BY <1>1, <3>5, <4>1, LeftStayFew
    <3>7. ~Creating(o)
      BY <3>3 DEF Creating
    <3> QED
      BY <1>2, <2>1, <2>2, <3>5, <3>6, <3>7 DEF ClearInv, ClearedForGood
  <2> QED
    BY <2>3, <2>4, <2>5
<1>4. CASE (\E x \in Operators : Watch(x) \/ Crash(x)) \/ Cluster \/ UNCHANGED vars
  <2>1. \A T : FewOf(jobs, T, errors) => FewOf(jobs', T, errors')
    <3>1. ASSUME NEW n \in Nodes, jobs'[n] # "absent"
          PROVE  jobs[n] # "absent"
      <4>1. CASE \E m \in Nodes : JobFinishes(m) \/ JobReaped(m)
        BY <1>1, <3>1, <4>1 DEF JobFinishes, JobReaped, TypeOK
      <4>2. CASE jobs' = jobs
        BY <3>1, <4>2
      <4> QED
        BY <1>4, <4>1, <4>2 DEF Watch, Crash, Cluster, RequestDelete, EditSpec, Tick,
                                VsCollected, cluster, vars
    <3> QED
      BY <1>1, <3>1, ErrorsGrow, FewStay
  <2>2. exp'.status = exp.status
    <3>1. exp \in [exists: BOOLEAN, finalizer: BOOLEAN, deleting: BOOLEAN,
                   spec: Specs, status: StatusType]
      BY <1>1 DEF TypeOK, Object, ObjectType
    <3>2. CASE RequestDelete \/ EditSpec
      BY <3>1, <3>2 DEF RequestDelete, EditSpec, Store
    <3>3. CASE exp' = exp
      BY <3>3
    <3> QED
      BY <1>4, <3>2, <3>3 DEF Watch, Crash, Cluster, JobFinishes, JobReaped, Tick,
                              VsCollected, store, vars
  <2>3. ASSUME NEW o \in Operators
        PROVE  cache[o].status.phase # "Pending" => cache'[o].status.phase # "Pending"
    BY <1>1, CacheForward DEF Forward
  <2>4. ASSUME NEW o \in Operators
        PROVE  Clears(o)' /\ (Creating(o)' => Creating(o))
    <3>1. w'[o] = w[o] \/ w'[o] = IdleWorker
      BY <1>1, <1>4, Surroundings
    <3>2. CASE w'[o] = IdleWorker
      BY <1>1, <3>2, Moved, ClearFinish
    <3>3. CASE w'[o] = w[o]
      BY <2>1, <2>3, <3>3 DEF ClearInv, Clears, Creating, Left
    <3> QED
      BY <3>1, <3>2, <3>3
  <2> QED
    BY <1>1, <2>1, <2>2, <2>3, <2>4 DEF ClearInv, ClearedForGood
<1> QED
  BY <1>3, <1>4 DEF Next

LEMMA ClearCorrect == Single /\ Steady /\ InPlace => (Spec => []ClearInv)
<1> SUFFICES ASSUME Single, Steady, InPlace PROVE Spec => []ClearInv
  OBVIOUS
<1>1. BaseInv /\ ClearInv /\ [Next]_vars => ClearInv'
  BY ClearNext
<1>2. Spec => []BaseInv
  BY ChainCorrect, RecordCorrect, AllowedCorrect, TrackCorrect, PTL DEF BaseInv
<1> QED
  BY <1>1, <1>2, ClearInit, PTL DEF Spec

\* A single operator, however far its cache lags, wherever it restarts and whichever
\* calls fail, records the cleanup of a pod experiment with no more runner jobs left
\* than calls failed, none when all were answered, and starts none again afterwards.
THEOREM LeftoversBounded ==
    Single /\ Steady /\ InPlace => (Spec => []LeftoversWereRefused)
<1> SUFFICES ASSUME Single, Steady, InPlace PROVE Spec => []LeftoversWereRefused
  OBVIOUS
<1>1. ClearInv => LeftoversWereRefused
  <2>1. {n \in Nodes : Live(n)} = {n \in Nodes : jobs[n] # "absent" /\ n \notin {}}
    BY DEF Live
  <2> QED
    BY <2>1 DEF ClearInv, ClearedForGood, FewOf, LeftoversWereRefused
<1> QED
  BY <1>1, ClearCorrect, PTL
=============================================================================
