-------------------------- MODULE ReconcilerProofs --------------------------
(***************************************************************************)
(* Theorems about Reconciler, for every value of its constants.            *)
(***************************************************************************)
EXTENDS Reconciler, TLAPS

-----------------------------------------------------------------------------
(* Type correctness. *)

\* TypeOK is not inductive: the id under which create_vs stores the
\* VirtualService must be one.
TypeInv == /\ TypeOK
           /\ \A o \in Operators : w[o].pc = "create_vs" =>
                                       w[o].patch.experimentId \in Nat

LEMMA DefaultType == DefaultStatus \in StatusType /\ FailedPatch \in StatusType
<1>1. DefaultStatus \in StatusType
  BY DEF DefaultStatus, StatusType, Phases, NoTime, NoId
<1> QED
  BY <1>1 DEF FailedPatch, StatusType, Phases

LEMMA IdleType == IdleWorker \in Worker
<1>1. (CHOOSE s \in Specs : TRUE) \in Specs
  BY SpecsAssumption
<1> QED
  BY <1>1, DefaultType
     DEF IdleWorker, Worker, NewExperiment, Object, ObjectType, Steps

LEMMA MergeType ==
    ASSUME NEW s \in StatusType, NEW p \in StatusType
    PROVE  Merge(s, p) \in StatusType
BY DEF Merge, StatusType, NoTime, NoId

\* Storing a version of the right type keeps the queues typed and bounded.
LEMMA StoreType ==
    ASSUME TypeOK, NEW e \in Object, Store(e)
    PROVE  /\ exp' \in Object
           /\ events' \in [Operators -> Seq(Object)]
           /\ \A o \in Operators : Len(events'[o]) <= MaxLag
<1> USE BoundAssumption
<1> DEFINE q(o) == IF e = exp THEN events[o]
                   ELSE IF Len(events[o]) < MaxLag THEN Append(events[o], e)
                   ELSE [events[o] EXCEPT ![MaxLag] = e]
<1>1. ASSUME NEW o \in Operators
      PROVE  q(o) \in Seq(Object) /\ Len(q(o)) <= MaxLag
  <2>1. events[o] \in Seq(Object) /\ Len(events[o]) <= MaxLag
    BY DEF TypeOK
  <2>2. CASE e = exp
    BY <2>1, <2>2
  <2>3. CASE e # exp /\ Len(events[o]) < MaxLag
    BY <2>1, <2>3
  <2>4. CASE e # exp /\ ~(Len(events[o]) < MaxLag)
    <3>1. MaxLag \in 1..Len(events[o]) /\ Len(events[o]) = MaxLag
      BY <2>1, <2>4
    <3>2. [events[o] EXCEPT ![MaxLag] = e] \in Seq(Object)
      BY <2>1, <3>1
    <3>3. Len([events[o] EXCEPT ![MaxLag] = e]) = Len(events[o])
      BY <2>1, <3>1
    <3> QED
      BY <3>1, <3>2, <3>3, <2>4
  <2> QED
    BY <2>2, <2>3, <2>4
<1>2. events' = [o \in Operators |-> q(o)] /\ exp' = e
  BY DEF Store
<1> HIDE DEF q
<1> QED
  BY <1>1, <1>2

LEMMA TypeInit == Init => TypeInv
<1> SUFFICES ASSUME Init PROVE TypeInv
  OBVIOUS
<1> USE BoundAssumption
<1>1. exp \in Object
  <2>1. PICK s \in Specs : exp = NewExperiment(s)
    BY DEF Init
  <2> QED
    BY <2>1, DefaultType DEF NewExperiment, Object, ObjectType
<1>2. TypeOK
  BY <1>1, IdleType DEF Init, TypeOK, JobStates
<1>3. \A o \in Operators : w[o].pc = "idle"
  BY DEF Init, IdleWorker
<1> QED
  BY <1>2, <1>3 DEF TypeInv

\* The two ways in which a reconcile ends or moves on keep w typed.
LEMMA FinishType ==
    ASSUME TypeInv, NEW o \in Operators, NEW again \in BOOLEAN, Finish(o, again)
    PROVE  /\ w' \in [Operators -> Worker] /\ wake' \in [Operators -> BOOLEAN]
           /\ \A x \in Operators : w'[x].pc = "create_vs" =>
                                       w'[x].patch.experimentId \in Nat
<1>1. w' \in [Operators -> Worker] /\ wake' \in [Operators -> BOOLEAN]
  BY IdleType DEF Finish, TypeInv, TypeOK
<1>2. IdleWorker.pc = "idle"
  BY DEF IdleWorker
<1> QED
  BY <1>1, <1>2 DEF Finish, TypeInv, TypeOK

LEMMA ContinueType ==
    ASSUME TypeInv, NEW o \in Operators, NEW pc \in Steps,
           NEW todo \in SUBSET Nodes, NEW found \in SUBSET Nat,
           NEW p \in StatusType, pc = "create_vs" => p.experimentId \in Nat,
           Continue(o, pc, todo, found, p)
    PROVE  /\ w' \in [Operators -> Worker] /\ wake' \in [Operators -> BOOLEAN]
           /\ \A x \in Operators : w'[x].pc = "create_vs" =>
                                       w'[x].patch.experimentId \in Nat
<1> DEFINE new == [pc |-> pc, snap |-> w[o].snap, jobs |-> todo,
                   vs |-> found, patch |-> p]
<1>1. new \in Worker
  BY DEF TypeInv, TypeOK, Worker
<1>2. new.pc = pc /\ new.patch = p
  OBVIOUS
<1>3. w' = [w EXCEPT ![o] = new] /\ wake' = wake
  BY DEF Continue
<1> HIDE DEF new
<1> QED
  BY <1>1, <1>2, <1>3 DEF TypeInv, TypeOK

LEMMA BeginType ==
    ASSUME TypeInv, NEW o \in Operators, NEW pc \in Steps \ {"create_vs"},
           NEW todo \in SUBSET Nodes, NEW p \in StatusType,
           Begin(o, pc, todo, p)
    PROVE  TypeInv'
<1> DEFINE new == [pc |-> pc, snap |-> cache[o], jobs |-> todo, vs |-> {},
                   patch |-> p]
<1>1. new \in Worker
  BY DEF TypeInv, TypeOK, Worker
<1>2. new.pc = pc
  OBVIOUS
<1>3. w' = [w EXCEPT ![o] = new] /\ wake' = [wake EXCEPT ![o] = FALSE]
  BY DEF Begin
<1> HIDE DEF new
<1>4. w' \in [Operators -> Worker] /\ wake' \in [Operators -> BOOLEAN]
  BY <1>1, <1>3 DEF TypeInv, TypeOK
<1>5. \A x \in Operators : w'[x].pc = "create_vs" => w'[x].patch.experimentId \in Nat
  BY <1>2, <1>3 DEF TypeInv, TypeOK
<1> QED
  BY <1>4, <1>5 DEF Begin, TypeInv, TypeOK, store, cluster, budget

\* The statuses that the handlers build.
LEMMA PatchTypes ==
    ASSUME NEW s \in Object, NEW found \in SUBSET Nodes, clock \in Nat
    PROVE  /\ ExperimentId(s) \in Nat
           /\ RunningPatch(s, found) \in StatusType
           /\ RunningPatch(s, found).experimentId \in Nat
           /\ \A phase \in Phases : Completed(s, phase) \in StatusType
           /\ [s.status EXCEPT !.cleanupDone = TRUE] \in StatusType
<1>1. s.status \in StatusType
  BY DEF Object, ObjectType
<1>2. ExperimentId(s) \in Nat
  BY <1>1 DEF ExperimentId, StatusType, NoId, Uid
<1>3. RunningPatch(s, found) \in StatusType /\ RunningPatch(s, found).experimentId \in Nat
  BY <1>2, DefaultType DEF RunningPatch, StatusType, Phases
<1>4. \A phase \in Phases : Completed(s, phase) \in StatusType
  BY <1>1 DEF Completed, StatusType
<1>5. [s.status EXCEPT !.cleanupDone = TRUE] \in StatusType
  BY <1>1 DEF StatusType
<1> QED
  BY <1>2, <1>3, <1>4, <1>5

LEMMA StepNames == /\ \A s : AfterVs(s) \in Steps \ {"create_vs"}
                   /\ \A s : AfterJobs(s) \in Steps \ {"create_vs"}
                   /\ \A s : CleanupStart(s) \in Steps \ {"create_vs"}
BY DEF AfterVs, AfterJobs, CleanupStart, Steps

LEMMA BeginAnyType ==
    ASSUME TypeInv, NEW o \in Operators, BeginAny(o)
    PROVE  TypeInv'
<1>1. /\ cache[o] \in Object /\ clock \in Nat /\ cache[o].status \in StatusType
      /\ cache[o].status.runnerJobs \in SUBSET Nodes
  BY BoundAssumption DEF TypeInv, TypeOK, Object, ObjectType, StatusType
<1> USE <1>1, DefaultType, StepNames
<1>2. CASE BeginAddFinalizer(o)
  BY <1>2, BeginType DEF BeginAddFinalizer, Steps
<1>3. CASE BeginDeletion(o)
  BY <1>3, BeginType DEF BeginDeletion
<1>4. CASE BeginPending(o)
  BY <1>4, BeginType DEF BeginPending, Steps
<1>5. CASE BeginRunning(o)
  BY <1>5, BeginType, PatchTypes DEF BeginRunning, Steps, Phases
<1>6. CASE BeginTerminal(o)
  BY <1>6, BeginType, PatchTypes DEF BeginTerminal
<1>7. CASE TerminalDone(o)
  BY <1>7 DEF TerminalDone, TypeInv, TypeOK, store, cluster, budget
<1> QED
  BY <1>2, <1>3, <1>4, <1>5, <1>6, <1>7 DEF BeginAny

LEMMA ChargeType ==
    ASSUME TypeOK, NEW r, Charge(r) \/ UNCHANGED errors
    PROVE  errors' \in 0..MaxErrors
BY BoundAssumption DEF Charge, TypeOK

LEMMA StoreIfExistsType ==
    ASSUME TypeOK, NEW r, NEW e \in Object, StoreIfExists(r, e)
    PROVE  /\ exp' \in Object
           /\ events' \in [Operators -> Seq(Object)]
           /\ \A o \in Operators : Len(events'[o]) <= MaxLag
BY StoreType DEF StoreIfExists, TypeOK, store

\* The versions that the calls store.
LEMMA StoredVersions ==
    ASSUME exp \in Object, NEW p \in StatusType, NEW s \in Specs
    PROVE  /\ [exp EXCEPT !.finalizer = TRUE] \in Object
           /\ [exp EXCEPT !.finalizer = FALSE, !.exists = ~exp.deleting] \in Object
           /\ [exp EXCEPT !.status = Merge(exp.status, p)] \in Object
           /\ [exp EXCEPT !.deleting = TRUE] \in Object
           /\ [exp EXCEPT !.exists = FALSE] \in Object
           /\ [exp EXCEPT !.spec = s] \in Object
<1>1. exp.status \in StatusType /\ Merge(exp.status, p) \in StatusType
  BY MergeType DEF Object, ObjectType
<1>2. exp \in [exists: BOOLEAN, finalizer: BOOLEAN, deleting: BOOLEAN,
               spec: Specs, status: StatusType]
  BY DEF Object, ObjectType
<1> QED
  BY <1>1, <1>2 DEF Object, ObjectType

\* What every call has to re-establish, and what is left as it was.
LEMMA CallFrame ==
    ASSUME TypeInv,
           exp' \in Object,
           events' \in [Operators -> Seq(Object)],
           \A o \in Operators : Len(events'[o]) <= MaxLag,
           w' \in [Operators -> Worker], wake' \in [Operators -> BOOLEAN],
           \A x \in Operators : w'[x].pc = "create_vs" =>
                                    w'[x].patch.experimentId \in Nat,
           jobs' \in [Nodes -> JobStates], vs' \subseteq Nat,
           errors' \in 0..MaxErrors,
           UNCHANGED <<clock, cache, crashes>>
    PROVE  TypeInv'
BY DEF TypeInv, TypeOK

LEMMA StoreCallType ==
    ASSUME TypeInv, NEW o \in Operators,
           AddFinalizer(o) \/ RemoveFinalizer(o) \/ PatchStatus(o)
    PROVE  TypeInv'
<1>1. PICK r \in Answers, e \in Object, again \in BOOLEAN :
        Charge(r) /\ StoreIfExists(r, e) /\ Finish(o, again)
  <2>1. exp \in Object /\ w[o].patch \in StatusType /\ Specs # {}
    BY SpecsAssumption DEF TypeInv, TypeOK, Worker
  <2>2. CASE AddFinalizer(o)
    BY <2>1, <2>2, StoredVersions DEF AddFinalizer
  <2>3. CASE RemoveFinalizer(o)
    <3>1. PICK r \in Answers :
            /\ Charge(r)
            /\ StoreIfExists(r, [exp EXCEPT !.finalizer = FALSE,
                                            !.exists = ~exp.deleting])
            /\ Finish(o, ~(r = "ok" /\ exp.exists))
      BY <2>3 DEF RemoveFinalizer
    <3>2. (~(r = "ok" /\ exp.exists)) \in BOOLEAN
      OBVIOUS
    <3>3. [exp EXCEPT !.finalizer = FALSE, !.exists = ~exp.deleting] \in Object
      BY <2>1, StoredVersions
    <3> QED
      BY <3>1, <3>2, <3>3
  <2>4. CASE PatchStatus(o)
    BY <2>1, <2>4, StoredVersions DEF PatchStatus
  <2> QED
    BY <2>2, <2>3, <2>4
<1>2. UNCHANGED <<clock, cache, crashes, jobs, vs>>
  BY DEF AddFinalizer, RemoveFinalizer, PatchStatus, cluster
<1>3. /\ exp' \in Object
      /\ events' \in [Operators -> Seq(Object)]
      /\ \A x \in Operators : Len(events'[x]) <= MaxLag
  BY <1>1, StoreIfExistsType DEF TypeInv
<1>4. /\ w' \in [Operators -> Worker] /\ wake' \in [Operators -> BOOLEAN]
      /\ \A x \in Operators : w'[x].pc = "create_vs" =>
                                  w'[x].patch.experimentId \in Nat
  BY <1>1, FinishType
<1>5. errors' \in 0..MaxErrors
  BY <1>1, ChargeType DEF TypeInv
<1> QED
  BY <1>2, <1>3, <1>4, <1>5, CallFrame DEF TypeInv, TypeOK

\* What Finish and Continue keep of w and wake.
WorkersTyped == /\ w' \in [Operators -> Worker] /\ wake' \in [Operators -> BOOLEAN]
                /\ \A x \in Operators : w'[x].pc = "create_vs" =>
                                            w'[x].patch.experimentId \in Nat

LEMMA WorkerFields ==
    ASSUME TypeInv, NEW o \in Operators
    PROVE  /\ w[o] \in Worker /\ w[o].snap \in Object /\ w[o].jobs \subseteq Nodes
           /\ w[o].vs \subseteq Nat /\ w[o].patch \in StatusType
           /\ clock \in Nat
BY BoundAssumption DEF TypeInv, TypeOK, Worker

LEMMA GotoTypes ==
    ASSUME TypeInv, NEW o \in Operators
    PROVE  /\ \A pc \in Steps \ {"create_vs"} : Goto(o, pc) => WorkersTyped
           /\ \A p \in StatusType : GotoPatch(o, p) => WorkersTyped
           /\ \A again \in BOOLEAN : Finish(o, again) => WorkersTyped
           /\ CleanupFailed(o) => WorkersTyped
<1> USE WorkerFields DEF WorkersTyped
<1>1. ASSUME NEW pc \in Steps \ {"create_vs"}, Goto(o, pc)
      PROVE  WorkersTyped
  BY <1>1, ContinueType DEF Goto
<1>2. ASSUME NEW p \in StatusType, GotoPatch(o, p)
      PROVE  WorkersTyped
  BY <1>2, ContinueType DEF GotoPatch, Steps
<1>3. ASSUME NEW again \in BOOLEAN, Finish(o, again)
      PROVE  WorkersTyped
  BY <1>3, FinishType
<1>4. ASSUME CleanupFailed(o)
      PROVE  WorkersTyped
  BY <1>1, <1>3, <1>4 DEF CleanupFailed, Steps
<1> QED
  BY <1>1, <1>2, <1>3, <1>4

LEMMA PodCallType ==
    ASSUME TypeInv, NEW o \in Operators,
           ListNodes(o) \/ CreateJob(o) \/ ListJobs(o) \/ DeleteJob(o)
    PROVE  TypeInv'
<1> USE WorkerFields, DefaultType
<1>1. UNCHANGED <<exp, events, vs, clock, cache, crashes>>
  BY DEF ListNodes, CreateJob, ListJobs, DeleteJob, store, cluster
<1>2. jobs' \in [Nodes -> JobStates]
  <2>1. jobs \in [Nodes -> JobStates]
    BY DEF TypeInv, TypeOK
  <2> QED
    BY <2>1 DEF ListNodes, CreateJob, ListJobs, DeleteJob, cluster, JobStates
<1>3. errors' \in 0..MaxErrors
  BY ChargeType DEF ListNodes, CreateJob, ListJobs, DeleteJob, TypeInv
<1>4. WorkersTyped
  <2>1. CASE ListNodes(o)
    <3>1. ASSUME NEW found \in Placements,
                 Continue(o, "create_jobs", found, {}, RunningPatch(w[o].snap, found))
          PROVE  WorkersTyped
      <4>1. found \in SUBSET Nodes
        BY PlacementsAssumption
      <4> QED
        BY <3>1, <4>1, ContinueType, PatchTypes DEF Steps, WorkersTyped
    <3> QED
      BY <2>1, <3>1, GotoTypes DEF ListNodes
  <2>2. CASE CreateJob(o)
    <3>1. ASSUME NEW n, Continue(o, "create_jobs", w[o].jobs \ {n}, {}, w[o].patch)
          PROVE  WorkersTyped
      BY <3>1, ContinueType DEF Steps, WorkersTyped
    <3>2. [w[o].patch EXCEPT !.startedAt = clock] \in StatusType
      BY DEF StatusType
    <3> QED
      BY <2>2, <3>1, <3>2, GotoTypes DEF CreateJob
  <2>3. CASE ListJobs(o)
    <3>1. \A s, seen : JobVerdict(s, seen) \in Phases
      BY DEF JobVerdict, Phases
    <3> QED
      BY <2>3, <3>1, GotoTypes, PatchTypes DEF ListJobs
  <2>4. CASE DeleteJob(o)
    <3>1. ASSUME NEW n, Continue(o, "delete_jobs", w[o].jobs \ {n}, {}, w[o].patch)
          PROVE  WorkersTyped
      BY <3>1, ContinueType DEF Steps, WorkersTyped
    <3> QED
      BY <2>4, <3>1, GotoTypes, StepNames DEF DeleteJob
  <2> QED
    BY <2>1, <2>2, <2>3, <2>4
<1> QED
  BY <1>1, <1>2, <1>3, <1>4, CallFrame DEF TypeInv, TypeOK, WorkersTyped

LEMMA EdgeCallType ==
    ASSUME TypeInv, NEW o \in Operators,
           CheckEdge(o) \/ CreateVs(o) \/ ListVs(o) \/ DeleteVs(o)
    PROVE  TypeInv'
<1> USE WorkerFields, DefaultType
<1>1. UNCHANGED <<exp, events, jobs, clock, cache, crashes>>
  BY DEF CheckEdge, CreateVs, ListVs, DeleteVs, store, cluster
<1>2. vs' \subseteq Nat
  <2>1. vs \subseteq Nat /\ (w[o].pc = "create_vs" => w[o].patch.experimentId \in Nat)
    BY DEF TypeInv, TypeOK
  <2>2. CASE CreateVs(o)
    BY <2>1, <2>2 DEF CreateVs
  <2>3. CASE CheckEdge(o) \/ ListVs(o)
    BY <2>1, <2>3 DEF CheckEdge, ListVs, cluster
  <2>4. CASE DeleteVs(o)
    BY <2>1, <2>4 DEF DeleteVs
  <2> QED
    BY <2>2, <2>3, <2>4
<1>3. errors' \in 0..MaxErrors
  BY ChargeType DEF CheckEdge, CreateVs, ListVs, DeleteVs, TypeInv
<1>4. WorkersTyped
  <2>1. CASE CheckEdge(o)
    <3>1. ASSUME Continue(o, "create_vs", {}, {}, RunningPatch(w[o].snap, {}))
          PROVE  WorkersTyped
      BY <3>1, ContinueType, PatchTypes DEF Steps, WorkersTyped
    <3> QED
      BY <2>1, <3>1, GotoTypes DEF CheckEdge
  <2>2. CASE CreateVs(o)
    <3>1. [w[o].patch EXCEPT !.startedAt = clock] \in StatusType
      BY DEF StatusType
    <3> QED
      BY <2>2, <3>1, GotoTypes DEF CreateVs
  <2>3. CASE ListVs(o)
    <3>1. ASSUME Continue(o, "delete_vs", {}, vs, w[o].patch)
          PROVE  WorkersTyped
      BY <3>1, ContinueType DEF Steps, WorkersTyped, TypeInv, TypeOK
    <3> QED
      BY <2>3, <3>1, GotoTypes, StepNames DEF ListVs
  <2>4. CASE DeleteVs(o)
    <3>1. ASSUME NEW v, Continue(o, "delete_vs", {}, w[o].vs \ {v}, w[o].patch)
          PROVE  WorkersTyped
      BY <3>1, ContinueType DEF Steps, WorkersTyped
    <3> QED
      BY <2>4, <3>1, GotoTypes, StepNames DEF DeleteVs
  <2> QED
    BY <2>1, <2>2, <2>3, <2>4
<1> QED
  BY <1>1, <1>2, <1>3, <1>4, CallFrame DEF TypeInv, TypeOK, WorkersTyped

LEMMA ProcessType ==
    ASSUME TypeInv, NEW o \in Operators, Watch(o) \/ Crash(o)
    PROVE  TypeInv'
<1>1. CASE Watch(o)
  <2>1. events[o] \in Seq(Object) /\ events[o] # <<>> /\ Len(events[o]) <= MaxLag
    BY <1>1 DEF Watch, TypeInv, TypeOK
  <2>2. /\ Head(events[o]) \in Object /\ Tail(events[o]) \in Seq(Object)
        /\ Len(Tail(events[o])) <= MaxLag
    BY <2>1, BoundAssumption
  <2>3. /\ cache' = [cache EXCEPT ![o] = Head(events[o])]
        /\ events' = [events EXCEPT ![o] = Tail(events[o])]
        /\ wake' = [wake EXCEPT ![o] = TRUE]
        /\ UNCHANGED <<exp, jobs, vs, clock, w, errors, crashes>>
    BY <1>1 DEF Watch, cluster, budget
  <2> QED
    BY <2>2, <2>3 DEF TypeInv, TypeOK
<1>2. CASE Crash(o)
  <2>1. /\ crashes < MaxCrashes /\ crashes' = crashes + 1
        /\ w' = [w EXCEPT ![o] = IdleWorker]
        /\ cache' = [cache EXCEPT ![o] = exp]
        /\ events' = [events EXCEPT ![o] = <<>>]
        /\ wake' = [wake EXCEPT ![o] = TRUE]
        /\ UNCHANGED <<exp, jobs, vs, clock, errors>>
    BY <1>2 DEF Crash, cluster
  <2>2. crashes' \in 0..MaxCrashes
    BY <2>1, BoundAssumption DEF TypeInv, TypeOK
  <2>3. <<>> \in Seq(Object) /\ Len(<<>>) <= MaxLag
    BY BoundAssumption
  <2>4. \A x \in Operators : Len(events'[x]) <= MaxLag
    BY <2>1, <2>3 DEF TypeInv, TypeOK
  <2>5. IdleWorker.pc = "idle"
    BY DEF IdleWorker
  <2>6. \A x \in Operators : w'[x].pc = "create_vs" => w'[x].patch.experimentId \in Nat
    BY <2>1, <2>5 DEF TypeInv, TypeOK
  <2> QED
    BY <2>1, <2>2, <2>3, <2>4, <2>6, IdleType DEF TypeInv, TypeOK
<1> QED
  BY <1>1, <1>2

LEMMA ClusterType ==
    ASSUME TypeInv, Cluster
    PROVE  TypeInv'
<1>1. UNCHANGED <<cache, wake, w, errors, crashes>>
  BY DEF Cluster, RequestDelete, EditSpec, Tick, JobFinishes, JobReaped,
         VsCollected, budget
<1>2. /\ exp' \in Object /\ events' \in [Operators -> Seq(Object)]
      /\ \A o \in Operators : Len(events'[o]) <= MaxLag
  <2>1. exp \in Object /\ DefaultStatus \in StatusType /\ Specs # {}
    BY DefaultType, SpecsAssumption DEF TypeInv, TypeOK
  <2>2. CASE RequestDelete \/ EditSpec
    <3>1. PICK e \in Object : Store(e)
      BY <2>1, <2>2, StoredVersions DEF RequestDelete, EditSpec
    <3> QED
      BY <3>1, StoreType DEF TypeInv
  <2>3. CASE UNCHANGED store
    BY <2>3 DEF store, TypeInv, TypeOK
  <2> QED
    BY <2>2, <2>3 DEF Cluster, Tick, JobFinishes, JobReaped, VsCollected
<1>3. jobs' \in [Nodes -> JobStates] /\ vs' \subseteq Nat
  BY DEF Cluster, RequestDelete, EditSpec, Tick, JobFinishes, JobReaped,
         VsCollected, cluster, TypeInv, TypeOK, JobStates
<1>4. clock' \in 0..MaxClock
  BY BoundAssumption
     DEF Cluster, RequestDelete, EditSpec, Tick, JobFinishes, JobReaped,
         VsCollected, TypeInv, TypeOK
<1> QED
  BY <1>1, <1>2, <1>3, <1>4 DEF TypeInv, TypeOK

LEMMA TypeNext == TypeInv /\ [Next]_vars => TypeInv'
<1> SUFFICES ASSUME TypeInv, [Next]_vars PROVE TypeInv'
  OBVIOUS
<1>1. CASE \E o \in Operators : BeginAny(o) \/ Call(o) \/ Watch(o) \/ Crash(o)
  <2>1. PICK o \in Operators : BeginAny(o) \/ Call(o) \/ Watch(o) \/ Crash(o)
    BY <1>1
  <2> QED
    BY <2>1, BeginAnyType, StoreCallType, PodCallType, EdgeCallType, ProcessType
       DEF Call
<1>2. CASE Cluster
  BY <1>2, ClusterType
<1>3. CASE UNCHANGED vars
  BY <1>3 DEF vars, TypeInv, TypeOK
<1> QED
  BY <1>1, <1>2, <1>3 DEF Next

\* The state of the API server, of the caches and of every reconcile has its
\* type in every behaviour, for any number of operators, nodes and versions.
THEOREM TypeCorrect == Spec => []TypeOK
<1>1. TypeInv => TypeOK
  BY DEF TypeInv
<1> QED
  BY <1>1, TypeInit, TypeNext, PTL DEF Spec

-----------------------------------------------------------------------------
(* The versions of the object only move forward, and so does every reader. *)

\* v may be stored after u.
Forward(u, v) == /\ u.status.phase # "Pending" => v.status.phase # "Pending"
                 /\ u.deleting => v.deleting
                 /\ u.finalizer => v.finalizer \/ ~v.exists
                 /\ ~u.exists => ~v.exists
                 /\ ~Editable => v.spec = u.spec

\* What operator o has seen and will see leads up to the stored version.
Queue(o) ==
    /\ Forward(cache[o], exp)
    /\ \A i \in 1..Len(events[o]) : /\ Forward(cache[o], events[o][i])
                                    /\ Forward(events[o][i], exp)
    /\ \A i, j \in 1..Len(events[o]) :
         i <= j => Forward(events[o][i], events[o][j])

\* A reconcile works from a version its cache once held, with the finalizer
\* in place, and leaves Pending whatever it patches.
Work(o) ==
    /\ w[o].pc # "idle" => Forward(w[o].snap, cache[o])
    /\ w[o].pc \notin {"idle", "add_finalizer"} => w[o].snap.finalizer
    /\ w[o].pc = "remove_finalizer" => w[o].snap.deleting
    /\ w[o].pc \in {"patch", "create_jobs", "create_vs"} =>
         w[o].patch.phase # "Pending"
    /\ w[o].pc \in {"delete_jobs", "list_vs", "delete_vs"} /\ ~w[o].snap.deleting =>
         w[o].patch.phase # "Pending"

ChainInv == TypeInv /\ \A o \in Operators : Queue(o) /\ Work(o)

LEMMA ForwardOrder ==
    /\ \A u : Forward(u, u)
    /\ \A u, v, t : Forward(u, v) /\ Forward(v, t) => Forward(u, t)
BY DEF Forward

LEMMA ChainInit == Init => ChainInv
<1> SUFFICES ASSUME Init, NEW o \in Operators PROVE Queue(o) /\ Work(o)
  BY TypeInit DEF ChainInv
<1>1. cache[o] = exp /\ events[o] = <<>> /\ w[o].pc = "idle"
  BY DEF Init, IdleWorker
<1> QED
  BY <1>1, ForwardOrder DEF Queue, Work

\* Storing a later version keeps every queue in order.
LEMMA StoreQueue ==
    ASSUME TypeOK, NEW o \in Operators, Queue(o), NEW e \in Object,
           Forward(exp, e), Store(e), UNCHANGED cache
    PROVE  Queue(o)'
<1> USE BoundAssumption
<1> DEFINE q == events[o]
<1>1. q \in Seq(Object) /\ Len(q) <= MaxLag /\ exp' = e /\ cache' = cache
  BY DEF TypeOK, Store
<1>2. /\ Forward(cache[o], exp')
      /\ \A i \in 1..Len(q) : Forward(cache[o], q[i]) /\ Forward(q[i], exp')
      /\ \A i, j \in 1..Len(q) : i <= j => Forward(q[i], q[j])
  BY <1>1, ForwardOrder DEF Queue
<1>3. CASE e = exp
  <2>1. events'[o] = q
    BY <1>3 DEF Store
  <2> QED
    BY <1>1, <1>2, <2>1 DEF Queue
<1>4. CASE e # exp /\ Len(q) < MaxLag
  <2>1. events'[o] = Append(q, e)
    BY <1>4 DEF Store
  <2> DEFINE r == Append(q, e)
  <2>2. /\ Len(r) = Len(q) + 1 /\ Len(q) \in Nat /\ r[Len(q) + 1] = e
        /\ \A i \in 1..Len(q) : r[i] = q[i]
    BY <1>1
  <2>3. \A i \in 1..Len(r) : i \in 1..Len(q) \/ i = Len(q) + 1
    BY <2>2
  <2> HIDE DEF r, q
  <2>4. \A i \in 1..Len(r) : Forward(cache[o], r[i]) /\ Forward(r[i], exp')
    BY <1>1, <1>2, <2>2, <2>3, ForwardOrder
  <2>5. \A i, j \in 1..Len(r) : i <= j => Forward(r[i], r[j])
    BY <1>1, <1>2, <2>2, <2>3, <2>4, ForwardOrder
  <2> QED
    BY <1>1, <1>2, <2>1, <2>4, <2>5 DEF Queue, r
<1>5. CASE e # exp /\ ~(Len(q) < MaxLag)
  <2>1. events'[o] = [q EXCEPT ![MaxLag] = e]
    BY <1>5 DEF Store
  <2> DEFINE r == [q EXCEPT ![MaxLag] = e]
  <2>2. Len(q) = MaxLag /\ MaxLag \in 1..Len(q)
    BY <1>1, <1>5
  <2>3. /\ Len(r) = Len(q) /\ r[MaxLag] = e
        /\ \A i \in 1..Len(q) : i # MaxLag => r[i] = q[i]
    BY <1>1, <2>2
  <2> HIDE DEF r, q
  <2>4. \A i \in 1..Len(r) : Forward(cache[o], r[i]) /\ Forward(r[i], exp')
    BY <1>1, <1>2, <2>2, <2>3, ForwardOrder
  <2>5. \A i, j \in 1..Len(r) : i <= j => Forward(r[i], r[j])
    BY <1>1, <1>2, <2>2, <2>3, <2>4, ForwardOrder
  <2> QED
    BY <1>1, <1>2, <2>1, <2>4, <2>5 DEF Queue, r
<1> QED
  BY <1>3, <1>4, <1>5

\* A version that is queued was queued before, or is the one just stored.
LEMMA QueuedVersions ==
    ASSUME TypeOK, NEW o \in Operators, NEW e, Store(e)
    PROVE  \A i \in 1..Len(events'[o]) :
             \/ events'[o][i] = e
             \/ \E j \in 1..Len(events[o]) : events'[o][i] = events[o][j]
<1> DEFINE q == events[o]
<1>1. q \in Seq(Object) /\ Len(q) <= MaxLag
  BY DEF TypeOK
<1>2. CASE events'[o] = q
  BY <1>2
<1>3. CASE events'[o] = Append(q, e)
  <2>1. \A i \in 1..Len(Append(q, e)) :
          Append(q, e)[i] = e \/ (i \in 1..Len(q) /\ Append(q, e)[i] = q[i])
    BY <1>1
  <2> QED
    BY <1>3, <2>1
<1>4. CASE events'[o] = [q EXCEPT ![MaxLag] = e]
  <2> DEFINE r == [q EXCEPT ![MaxLag] = e]
  <2>1. Len(r) = Len(q) /\ \A i \in 1..Len(q) : r[i] = e \/ r[i] = q[i]
    BY <1>1
  <2> HIDE DEF r
  <2> QED
    BY <1>4, <2>1 DEF r
<1> QED
  BY <1>2, <1>3, <1>4 DEF Store

\* Where a step of o leaves its reconcile.
LEMMA Moved ==
    ASSUME TypeOK, NEW o \in Operators
    PROVE  /\ \A again : Finish(o, again) => w'[o] = IdleWorker
           /\ \A pc, todo, found, p : Continue(o, pc, todo, found, p) =>
                /\ w'[o].pc = pc /\ w'[o].snap = w[o].snap
                /\ w'[o].jobs = todo /\ w'[o].patch = p
           /\ \A pc, todo, p : Begin(o, pc, todo, p) =>
                /\ w'[o].pc = pc /\ w'[o].snap = cache[o]
                /\ w'[o].jobs = todo /\ w'[o].patch = p
           /\ IdleWorker.pc = "idle"
<1>1. w \in [Operators -> Worker]
  BY DEF TypeOK
<1>2. ASSUME NEW again, Finish(o, again)
      PROVE  w'[o] = IdleWorker
  BY <1>1, <1>2 DEF Finish
<1>3. ASSUME NEW pc, NEW todo, NEW found, NEW p, Continue(o, pc, todo, found, p)
      PROVE  /\ w'[o].pc = pc /\ w'[o].snap = w[o].snap
             /\ w'[o].jobs = todo /\ w'[o].patch = p
  BY <1>1, <1>3 DEF Continue
<1>4. ASSUME NEW pc, NEW todo, NEW p, Begin(o, pc, todo, p)
      PROVE  /\ w'[o].pc = pc /\ w'[o].snap = cache[o]
             /\ w'[o].jobs = todo /\ w'[o].patch = p
  BY <1>1, <1>4 DEF Begin
<1> QED
  BY <1>2, <1>3, <1>4 DEF IdleWorker

\* A reconcile moves only by its own steps.
LEMMA OthersStay ==
    ASSUME TypeOK, NEW o \in Operators, BeginAny(o) \/ Call(o)
    PROVE  \A x \in Operators : x # o => w'[x] = w[x]
<1>1. w \in [Operators -> Worker]
  BY DEF TypeOK
<1>2. /\ \A again : Finish(o, again) => \A x \in Operators : x # o => w'[x] = w[x]
      /\ \A pc, todo, found, p : Continue(o, pc, todo, found, p) =>
           \A x \in Operators : x # o => w'[x] = w[x]
      /\ \A pc, todo, p : Begin(o, pc, todo, p) =>
           \A x \in Operators : x # o => w'[x] = w[x]
  BY <1>1 DEF Finish, Continue, Begin
<1> DEFINE Stay == \A x \in Operators : x # o => w'[x] = w[x]
<1> HIDE DEF Stay
<1>3. /\ \A again : Finish(o, again) => Stay
      /\ \A pc, todo, found, p : Continue(o, pc, todo, found, p) => Stay
      /\ \A pc, todo, p : Begin(o, pc, todo, p) => Stay
  BY <1>2 DEF Stay
<1>4. BeginAny(o) => Stay
  <2>1. UNCHANGED w => Stay
    BY DEF Stay
  <2> QED
    BY <1>3, <2>1 DEF BeginAny, BeginAddFinalizer, BeginDeletion, BeginPending,
                      BeginRunning, BeginTerminal, TerminalDone
<1>5. AddFinalizer(o) \/ RemoveFinalizer(o) \/ PatchStatus(o) => Stay
  BY <1>3 DEF AddFinalizer, RemoveFinalizer, PatchStatus
<1>6. ListNodes(o) \/ CreateJob(o) \/ ListJobs(o) \/ DeleteJob(o) => Stay
  BY <1>3 DEF ListNodes, CreateJob, ListJobs, DeleteJob, Goto, GotoPatch
<1>7. CheckEdge(o) \/ CreateVs(o) \/ ListVs(o) \/ DeleteVs(o) => Stay
  BY <1>3 DEF CheckEdge, CreateVs, ListVs, DeleteVs, Goto, GotoPatch, CleanupFailed
<1> QED
  BY <1>4, <1>5, <1>6, <1>7 DEF Call, Stay

\* Delivering the first version that is queued keeps the rest in order.
LEMMA WatchQueue ==
    ASSUME TypeOK, NEW o \in Operators, Queue(o), Watch(o)
    PROVE  Queue(o)' /\ Forward(cache[o], cache'[o])
<1> DEFINE q == events[o]
<1>1. q \in Seq(Object) /\ q # <<>>
  BY DEF TypeOK, Watch
<1>2. cache'[o] = Head(q) /\ events'[o] = Tail(q) /\ exp' = exp
  BY DEF TypeOK, Watch
<1>3. /\ 1 \in 1..Len(q) /\ Head(q) = q[1] /\ Len(Tail(q)) = Len(q) - 1
      /\ \A i \in 1..Len(Tail(q)) : i + 1 \in 1..Len(q) /\ Tail(q)[i] = q[i + 1]
  BY <1>1
<1>4. /\ \A i \in 1..Len(q) : Forward(cache[o], q[i]) /\ Forward(q[i], exp)
      /\ \A i, j \in 1..Len(q) : i <= j => Forward(q[i], q[j])
  BY DEF Queue
<1> DEFINE r == Tail(q)
<1>5. \A i \in 1..Len(r) : Forward(q[1], r[i]) /\ Forward(r[i], exp)
  BY <1>3, <1>4
<1>6. \A i, j \in 1..Len(r) : i <= j => Forward(r[i], r[j])
  BY <1>3, <1>4
<1> QED
  BY <1>2, <1>3, <1>4, <1>5, <1>6 DEF Queue

\* What the step of one reconcile leaves alone: the queues, and the work of
\* the other operators.
LEMMA ChainFrame ==
    ASSUME ChainInv, TypeInv', NEW o \in Operators,
           UNCHANGED cache,
           \A x \in Operators : Queue(x)',
           \A x \in Operators : x # o => w'[x] = w[x],
           Work(o)'
    PROVE  ChainInv'
BY DEF ChainInv, Work

LEMMA QueueFrame ==
    ASSUME NEW o \in Operators, Queue(o), UNCHANGED <<exp, cache, events>>
    PROVE  Queue(o)'
BY DEF Queue

LEMMA BeginChain ==
    ASSUME ChainInv, NEW o \in Operators, BeginAny(o)
    PROVE  ChainInv'
<1>1. TypeInv'
  BY BeginAnyType DEF ChainInv
<1>2. w \in [Operators -> Worker] /\ Forward(cache[o], cache[o])
  BY ForwardOrder DEF ChainInv, TypeInv, TypeOK
<1>3. UNCHANGED <<exp, cache, events>>
  BY DEF BeginAny, BeginAddFinalizer, BeginDeletion, BeginPending, BeginRunning,
         BeginTerminal, TerminalDone, Begin, store
<1>4. \A x \in Operators : Queue(x)'
  BY <1>3, QueueFrame DEF ChainInv
<1> DEFINE new(pc, todo, p) == [pc |-> pc, snap |-> cache[o], jobs |-> todo,
                                vs |-> {}, patch |-> p]
<1>5. ASSUME NEW pc, NEW todo, NEW p, Begin(o, pc, todo, p),
             pc \notin {"idle", "add_finalizer"} => cache[o].finalizer,
             pc = "remove_finalizer" => cache[o].deleting,
             pc \in {"patch", "create_jobs", "create_vs"} => p.phase # "Pending",
             pc \in {"delete_jobs", "list_vs", "delete_vs"} /\ ~cache[o].deleting =>
               p.phase # "Pending"
      PROVE  ChainInv'
  <2>1. w' = [w EXCEPT ![o] = new(pc, todo, p)]
    BY <1>5 DEF Begin
  <2>2. /\ new(pc, todo, p).pc = pc /\ new(pc, todo, p).snap = cache[o]
        /\ new(pc, todo, p).patch = p
    OBVIOUS
  <2> HIDE DEF new
  <2>3. w'[o] = new(pc, todo, p) /\ \A x \in Operators : x # o => w'[x] = w[x]
    BY <1>2, <2>1
  <2>4. Work(o)'
    BY <1>2, <1>3, <1>5, <2>2, <2>3 DEF Work
  <2> QED
    BY <1>1, <1>3, <1>4, <2>3, <2>4, ChainFrame
<1> HIDE DEF new
<1>6. FailedPatch.phase = "Failed"
  BY DEF FailedPatch, DefaultStatus
<1>7. CASE BeginAddFinalizer(o)
  BY <1>5, <1>7 DEF BeginAddFinalizer
<1>8. CASE BeginDeletion(o)
  BY <1>5, <1>8 DEF BeginDeletion, CleanupStart, AfterJobs, AfterVs,
                    needs_finalizer, is_being_deleted
<1>9. CASE BeginPending(o)
  BY <1>5, <1>6, <1>9 DEF BeginPending, Active, needs_finalizer
<1>10. CASE BeginRunning(o)
  <2>1. cache[o].status \in StatusType
    BY DEF ChainInv, TypeInv, TypeOK, Object, ObjectType
  <2>2. Completed(cache[o], "Succeeded").phase = "Succeeded"
    BY <2>1 DEF Completed, StatusType
  <2> QED
    BY <1>5, <1>10, <2>2 DEF BeginRunning, Active, needs_finalizer
<1>11. CASE BeginTerminal(o)
  <2>1. cache[o].status \in StatusType
    BY DEF ChainInv, TypeInv, TypeOK, Object, ObjectType
  <2>2. [cache[o].status EXCEPT !.cleanupDone = TRUE].phase = cache[o].status.phase
    BY <2>1 DEF StatusType
  <2>3. /\ cache[o].status.phase # "Pending" /\ cache[o].finalizer
        /\ ~cache[o].deleting
        /\ Begin(o, CleanupStart(cache[o]), cache[o].status.runnerJobs,
                 [cache[o].status EXCEPT !.cleanupDone = TRUE])
    BY <1>11 DEF BeginTerminal, Active, Terminal, needs_finalizer, is_being_deleted
  <2>4. CleanupStart(cache[o]) # "remove_finalizer"
    BY <2>3 DEF CleanupStart, AfterJobs, AfterVs, is_being_deleted
  <2> QED
    BY <1>5, <2>2, <2>3, <2>4
<1>12. CASE TerminalDone(o)
  BY <1>1, <1>3, <1>4, <1>12 DEF TerminalDone, ChainInv, Work
<1> QED
  BY <1>7, <1>8, <1>9, <1>10, <1>11, <1>12 DEF BeginAny

\* A reconcile that ends, or that goes on, keeps its Work.
LEMMA FinishWork ==
    ASSUME TypeOK, NEW o \in Operators, NEW again, Finish(o, again)
    PROVE  Work(o)' /\ \A x \in Operators : x # o => w'[x] = w[x]
<1>1. IdleWorker.pc = "idle"
  BY DEF IdleWorker
<1>2. w'[o] = IdleWorker /\ \A x \in Operators : x # o => w'[x] = w[x]
  BY DEF Finish, TypeOK
<1> QED
  BY <1>1, <1>2 DEF Work

LEMMA ContinueWork ==
    ASSUME TypeOK, NEW o \in Operators, Work(o), UNCHANGED cache,
           NEW pc, NEW todo, NEW found, NEW p, Continue(o, pc, todo, found, p),
           w[o].pc \notin {"idle", "add_finalizer"},
           pc = "remove_finalizer" => w[o].snap.deleting,
           pc \in {"patch", "create_jobs", "create_vs"} => p.phase # "Pending",
           pc \in {"delete_jobs", "list_vs", "delete_vs"} /\ ~w[o].snap.deleting =>
             p.phase # "Pending"
    PROVE  Work(o)' /\ \A x \in Operators : x # o => w'[x] = w[x]
<1> DEFINE new == [pc |-> pc, snap |-> w[o].snap, jobs |-> todo,
                   vs |-> found, patch |-> p]
<1>1. w' = [w EXCEPT ![o] = new]
  BY DEF Continue
<1>2. new.pc = pc /\ new.snap = w[o].snap /\ new.patch = p
  OBVIOUS
<1> HIDE DEF new
<1>3. w'[o] = new /\ \A x \in Operators : x # o => w'[x] = w[x]
  BY <1>1 DEF TypeOK
<1> QED
  BY <1>2, <1>3 DEF Work

LEMMA StoreCallChain ==
    ASSUME ChainInv, NEW o \in Operators,
           AddFinalizer(o) \/ RemoveFinalizer(o) \/ PatchStatus(o)
    PROVE  ChainInv'
<1>1. TypeInv' /\ TypeOK
  BY StoreCallType DEF ChainInv, TypeInv
<1>2. UNCHANGED cache
  BY DEF AddFinalizer, RemoveFinalizer, PatchStatus
<1>3. exp \in [exists: BOOLEAN, finalizer: BOOLEAN, deleting: BOOLEAN,
               spec: Specs, status: StatusType]
  BY <1>1 DEF TypeOK, Object, ObjectType
<1>4. PICK r \in Answers, e \in Object, again \in BOOLEAN :
        StoreIfExists(r, e) /\ Finish(o, again) /\ Forward(exp, e)
  <2>1. w[o].patch \in StatusType /\ Specs # {} /\ exp \in Object
    BY <1>1, WorkerFields, SpecsAssumption DEF ChainInv, TypeOK
  <2>2. CASE AddFinalizer(o)
    <3>1. Forward(exp, [exp EXCEPT !.finalizer = TRUE])
      BY <1>3 DEF Forward
    <3> QED
      BY <2>1, <2>2, <3>1, StoredVersions DEF AddFinalizer
  <2>3. CASE RemoveFinalizer(o)
    <3> DEFINE e == [exp EXCEPT !.finalizer = FALSE, !.exists = ~exp.deleting]
    <3>1. PICK r \in Answers :
            StoreIfExists(r, e) /\ Finish(o, ~(r = "ok" /\ exp.exists))
      BY <2>3 DEF RemoveFinalizer
    <3>2. exp.deleting
      BY <2>3 DEF RemoveFinalizer, ChainInv, Work, Queue, Forward
    <3>3. Forward(exp, e) /\ e \in Object
      BY <1>3, <2>1, <3>2, StoredVersions DEF Forward
    <3>4. (~(r = "ok" /\ exp.exists)) \in BOOLEAN
      OBVIOUS
    <3> HIDE DEF e
    <3> QED
      BY <3>1, <3>3, <3>4
  <2>4. CASE PatchStatus(o)
    <3>1. w[o].patch.phase # "Pending"
      BY <2>4 DEF PatchStatus, ChainInv, Work
    <3>2. Forward(exp, [exp EXCEPT !.status = Merge(exp.status, w[o].patch)])
      BY <1>3, <3>1 DEF Forward, Merge
    <3> QED
      BY <2>1, <2>4, <3>2, StoredVersions DEF PatchStatus
  <2> QED
    BY <2>2, <2>3, <2>4
<1>5. \A x \in Operators : Queue(x)'
  <2>1. CASE Store(e)
    BY <1>1, <1>2, <1>4, <2>1, StoreQueue DEF ChainInv
  <2>2. CASE UNCHANGED store
    BY <1>2, <2>2, QueueFrame DEF ChainInv, store
  <2> QED
    BY <1>4, <2>1, <2>2 DEF StoreIfExists
<1>6. Work(o)' /\ \A x \in Operators : x # o => w'[x] = w[x]
  BY <1>1, <1>4, FinishWork
<1> QED
  BY <1>1, <1>2, <1>5, <1>6, ChainFrame

LEMMA OtherCallChain ==
    ASSUME ChainInv, NEW o \in Operators,
           \/ ListNodes(o) \/ CreateJob(o) \/ ListJobs(o) \/ DeleteJob(o)
           \/ CheckEdge(o) \/ CreateVs(o) \/ ListVs(o) \/ DeleteVs(o)
    PROVE  ChainInv'
<1>1. TypeInv' /\ TypeOK /\ TypeInv
  BY PodCallType, EdgeCallType DEF ChainInv, TypeInv
<1>2. UNCHANGED <<exp, cache, events>>
  BY DEF ListNodes, CreateJob, ListJobs, DeleteJob, CheckEdge, CreateVs, ListVs,
         DeleteVs, store
<1>3. \A x \in Operators : Queue(x)'
  BY <1>2, QueueFrame DEF ChainInv
<1>4. /\ w[o].pc \notin {"idle", "add_finalizer"} /\ Work(o)
      /\ w[o].patch \in StatusType
  BY <1>1, WorkerFields
     DEF ListNodes, CreateJob, ListJobs, DeleteJob, CheckEdge, CreateVs, ListVs,
         DeleteVs, ChainInv
<1> DEFINE Good == Work(o)' /\ \A x \in Operators : x # o => w'[x] = w[x]
<1>5. \A again : Finish(o, again) => Good
  BY <1>1, FinishWork
<1>6. ASSUME NEW pc, NEW todo, NEW found, NEW p, Continue(o, pc, todo, found, p),
             pc = "remove_finalizer" => w[o].snap.deleting,
             pc \in {"patch", "create_jobs", "create_vs"} => p.phase # "Pending",
             pc \in {"delete_jobs", "list_vs", "delete_vs"} /\ ~w[o].snap.deleting =>
               p.phase # "Pending"
      PROVE  Good
  BY <1>1, <1>2, <1>4, <1>6, ContinueWork
<1> HIDE DEF Good
<1>7. ASSUME NEW p, p.phase # "Pending", GotoPatch(o, p)
      PROVE  Good
  BY <1>6, <1>7 DEF GotoPatch
<1>8. ASSUME w[o].pc \in {"delete_jobs", "list_vs", "delete_vs"},
             \/ Goto(o, AfterJobs(w[o].snap)) \/ Goto(o, AfterVs(w[o].snap))
             \/ CleanupFailed(o)
      PROVE  Good
  <2>1. ~w[o].snap.deleting => w[o].patch.phase # "Pending"
    BY <1>4, <1>8 DEF Work
  <2>2. AfterJobs(w[o].snap) = "remove_finalizer" => w[o].snap.deleting
    BY DEF AfterJobs, AfterVs, is_being_deleted
  <2>3. AfterJobs(w[o].snap) = "patch" => ~w[o].snap.deleting
    BY DEF AfterJobs, AfterVs, is_being_deleted
  <2>4. AfterJobs(w[o].snap) \in {"list_vs", "remove_finalizer", "patch"}
    BY DEF AfterJobs, AfterVs
  <2>5. CASE Goto(o, AfterJobs(w[o].snap))
    BY <1>6, <2>1, <2>2, <2>3, <2>4, <2>5 DEF Goto
  <2>6. CASE Goto(o, AfterVs(w[o].snap))
    BY <1>6, <2>1, <2>6 DEF Goto, AfterVs, is_being_deleted
  <2>7. CASE CleanupFailed(o)
    BY <1>5, <1>6, <2>7 DEF CleanupFailed, Goto, is_being_deleted
  <2> QED
    BY <1>8, <2>5, <2>6, <2>7
<1>9. FailedPatch.phase # "Pending"
  BY DEF FailedPatch, DefaultStatus
<1>10. \A s, found : RunningPatch(s, found).phase = "Running"
  BY DefaultType DEF RunningPatch, StatusType
<1>11. Good
  <2>1. CASE ListNodes(o)
    BY <1>5, <1>6, <1>7, <1>9, <1>10, <2>1 DEF ListNodes
  <2>2. CASE CreateJob(o)
    <3>1. /\ w[o].patch.phase # "Pending"
          /\ [w[o].patch EXCEPT !.startedAt = clock].phase = w[o].patch.phase
      BY <1>4, <2>2 DEF CreateJob, Work, StatusType
    <3> QED
      BY <1>5, <1>6, <1>7, <2>2, <3>1 DEF CreateJob
  <2>3. CASE ListJobs(o)
    <3>1. w[o].snap.status \in StatusType
      BY <1>1, WorkerFields DEF Object, ObjectType
    <3>2. \A phase : Completed(w[o].snap, phase).phase = phase
      BY <3>1 DEF Completed, StatusType
    <3>3. \A s, seen : JobVerdict(s, seen) # "Pending"
      BY DEF JobVerdict
    <3> DEFINE v == JobVerdict(w[o].snap, {jobs[n] : n \in Nodes} \ {"absent"})
    <3>4. \/ Finish(o, TRUE)
          \/ GotoPatch(o, Completed(w[o].snap, v))
      BY <2>3 DEF ListJobs
    <3>5. v # "Pending"
      BY <3>3
    <3> HIDE DEF v
    <3>6. Completed(w[o].snap, v).phase # "Pending"
      BY <3>2, <3>5
    <3> QED
      BY <1>5, <1>7, <3>4, <3>6
  <2>4. CASE DeleteJob(o)
    <3>1. ~w[o].snap.deleting => w[o].patch.phase # "Pending"
      BY <1>4, <2>4 DEF DeleteJob, Work
    <3> QED
      BY <1>6, <1>8, <2>4, <3>1 DEF DeleteJob
  <2>5. CASE CheckEdge(o)
    BY <1>5, <1>6, <1>7, <1>9, <1>10, <2>5 DEF CheckEdge
  <2>6. CASE CreateVs(o)
    <3>1. /\ w[o].patch.phase # "Pending"
          /\ [w[o].patch EXCEPT !.startedAt = clock].phase = w[o].patch.phase
      BY <1>4, <2>6 DEF CreateVs, Work, StatusType
    <3> QED
      BY <1>5, <1>7, <2>6, <3>1 DEF CreateVs
  <2>7. CASE ListVs(o)
    <3>1. ~w[o].snap.deleting => w[o].patch.phase # "Pending"
      BY <1>4, <2>7 DEF ListVs, Work
    <3> QED
      BY <1>6, <1>8, <2>7, <3>1 DEF ListVs
  <2>8. CASE DeleteVs(o)
    <3>1. ~w[o].snap.deleting => w[o].patch.phase # "Pending"
      BY <1>4, <2>8 DEF DeleteVs, Work
    <3> QED
      BY <1>6, <1>8, <2>8, <3>1 DEF DeleteVs
  <2> QED
    BY <2>1, <2>2, <2>3, <2>4, <2>5, <2>6, <2>7, <2>8
<1> QED
  BY <1>1, <1>2, <1>3, <1>11, ChainFrame DEF Good

LEMMA SurroundingsChain ==
    ASSUME ChainInv, (\E o \in Operators : Watch(o) \/ Crash(o)) \/ Cluster
    PROVE  ChainInv'
<1>1. TypeOK /\ TypeInv
  BY DEF ChainInv, TypeInv
<1>2. CASE \E o \in Operators : Watch(o)
  <2>1. PICK o \in Operators : Watch(o)
    BY <1>2
  <2>2. TypeInv'
    BY <1>1, <2>1, ProcessType
  <2>3. Queue(o)' /\ Forward(cache[o], cache'[o])
    BY <1>1, <2>1, WatchQueue DEF ChainInv
  <2>4. UNCHANGED <<exp, w>>
    BY <2>1 DEF Watch
  <2>5. \A x \in Operators : x # o => cache'[x] = cache[x] /\ events'[x] = events[x]
    BY <1>1, <2>1 DEF Watch, TypeOK
  <2>6. \A x \in Operators : x # o => Queue(x)' /\ Work(x)'
    BY <2>4, <2>5 DEF ChainInv, Queue, Work
  <2>7. Work(o)'
    BY <2>3, <2>4, ForwardOrder DEF ChainInv, Work
  <2> QED
    BY <2>2, <2>3, <2>6, <2>7 DEF ChainInv
<1>3. CASE \E o \in Operators : Crash(o)
  <2>1. PICK o \in Operators : Crash(o)
    BY <1>3
  <2>2. TypeInv'
    BY <1>1, <2>1, ProcessType
  <2>3. UNCHANGED exp
    BY <2>1 DEF Crash
  <2>4. cache'[o] = exp /\ events'[o] = <<>> /\ w'[o] = IdleWorker
    BY <1>1, <2>1 DEF Crash, TypeOK
  <2>5. \A x \in Operators : x # o => /\ cache'[x] = cache[x] /\ events'[x] = events[x]
                                      /\ w'[x] = w[x]
    BY <1>1, <2>1 DEF Crash, TypeOK
  <2>6. \A x \in Operators : x # o => Queue(x)' /\ Work(x)'
    BY <2>3, <2>5 DEF ChainInv, Queue, Work
  <2>7. Queue(o)'
    BY <2>3, <2>4, ForwardOrder DEF Queue
  <2>8. Work(o)'
    BY <2>4 DEF Work, IdleWorker
  <2> QED
    BY <2>2, <2>6, <2>7, <2>8 DEF ChainInv
<1>4. CASE Cluster
  <2>1. TypeInv' /\ UNCHANGED <<cache, w>>
    BY <1>1, <1>4, ClusterType
       DEF Cluster, RequestDelete, EditSpec, JobFinishes, JobReaped, VsCollected, Tick
  <2>2. ASSUME NEW e \in Object, Forward(exp, e), Store(e)
        PROVE  ChainInv'
    BY <1>1, <2>1, <2>2, StoreQueue DEF ChainInv, Work
  <2>3. exp \in [exists: BOOLEAN, finalizer: BOOLEAN, deleting: BOOLEAN,
                 spec: Specs, status: StatusType]
    BY <1>1 DEF TypeOK, Object, ObjectType
  <2>4. CASE RequestDelete
    <3> DEFINE e == IF exp.finalizer THEN [exp EXCEPT !.deleting = TRUE]
                                     ELSE [exp EXCEPT !.exists = FALSE]
    <3>1. e \in Object /\ Store(e)
      BY <2>3, <2>4 DEF RequestDelete, Object, ObjectType
    <3>2. Forward(exp, e)
      BY <2>3 DEF Forward
    <3> QED
      BY <2>2, <3>1, <3>2
  <2>5. CASE EditSpec
    <3>1. PICK s \in Specs : Store([exp EXCEPT !.spec = s]) /\ Editable
      BY <2>5 DEF EditSpec, Editable
    <3>2. [exp EXCEPT !.spec = s] \in Object /\ Forward(exp, [exp EXCEPT !.spec = s])
      BY <2>3, <3>1 DEF Forward, Object, ObjectType
    <3> QED
      BY <2>2, <3>1, <3>2
  <2>6. CASE UNCHANGED store
    BY <2>1, <2>6, QueueFrame DEF ChainInv, Work, store
  <2> QED
    BY <1>4, <2>4, <2>5, <2>6
       DEF Cluster, JobFinishes, JobReaped, VsCollected, Tick
<1> QED
  BY <1>2, <1>3, <1>4

LEMMA ChainNext == ChainInv /\ [Next]_vars => ChainInv'
<1> SUFFICES ASSUME ChainInv, [Next]_vars PROVE ChainInv'
  OBVIOUS
<1>1. CASE \E o \in Operators : BeginAny(o) \/ Call(o) \/ Watch(o) \/ Crash(o)
  BY <1>1, BeginChain, StoreCallChain, OtherCallChain, SurroundingsChain DEF Call
<1>2. CASE Cluster
  BY <1>2, SurroundingsChain
<1>3. CASE UNCHANGED vars
  <2>1. TypeInv'
    BY TypeNext DEF ChainInv
  <2> QED
    BY <1>3, <2>1 DEF vars, ChainInv, Queue, Work
<1> QED
  BY <1>1, <1>2, <1>3 DEF Next

LEMMA ChainCorrect == Spec => []ChainInv
BY ChainInit, ChainNext, PTL DEF Spec

\* Every cache moves forward.
LEMMA CacheForward ==
    ASSUME ChainInv, [Next]_vars, NEW o \in Operators
    PROVE  Forward(cache[o], cache'[o])
<1>1. TypeOK /\ Forward(cache[o], cache[o]) /\ Forward(cache[o], exp)
  BY ForwardOrder DEF ChainInv, TypeInv, Queue
<1>2. ASSUME NEW x \in Operators, Watch(x)
      PROVE  Forward(cache[o], cache'[o])
  <2>1. x # o => cache'[o] = cache[o]
    BY <1>1, <1>2 DEF Watch, TypeOK
  <2> QED
    BY <1>1, <1>2, <2>1, WatchQueue DEF ChainInv
<1>3. ASSUME NEW x \in Operators, Crash(x)
      PROVE  Forward(cache[o], cache'[o])
  <2>1. cache'[o] = IF x = o THEN exp ELSE cache[o]
    BY <1>1, <1>3 DEF Crash, TypeOK
  <2> QED
    BY <1>1, <2>1
<1>4. ASSUME NEW x \in Operators, BeginAny(x)
      PROVE  cache' = cache
  BY <1>4 DEF BeginAny, BeginAddFinalizer, BeginDeletion, BeginPending,
              BeginRunning, BeginTerminal, TerminalDone, Begin
<1>5. ASSUME NEW x \in Operators, Call(x)
      PROVE  cache' = cache
  BY <1>5 DEF Call, AddFinalizer, RemoveFinalizer, PatchStatus, ListNodes, CreateJob,
              CheckEdge, CreateVs, ListJobs, DeleteJob, ListVs, DeleteVs
<1>6. Cluster => cache' = cache
  BY DEF Cluster, RequestDelete, EditSpec, JobFinishes, JobReaped, VsCollected, Tick
<1>7. UNCHANGED vars => cache' = cache
  BY DEF vars
<1> QED
  BY <1>1, <1>2, <1>3, <1>4, <1>5, <1>6, <1>7 DEF Next

\* No step takes the finalizer off an experiment that lives on.
LEMMA FinalizerStep ==
    ASSUME ChainInv, [Next]_vars, exp.finalizer, exp'.exists
    PROVE  exp'.finalizer
<1>1. exp \in [exists: BOOLEAN, finalizer: BOOLEAN, deleting: BOOLEAN,
               spec: Specs, status: StatusType]
  BY DEF ChainInv, TypeInv, TypeOK, Object, ObjectType
<1>2. ASSUME NEW o \in Operators, Call(o)
      PROVE  exp'.finalizer
  <2>1. CASE AddFinalizer(o) \/ PatchStatus(o)
    BY <1>1, <2>1 DEF AddFinalizer, PatchStatus, StoreIfExists, Store, store
  <2>2. CASE RemoveFinalizer(o)
    <3>1. exp.deleting
      BY <1>2, <2>2 DEF RemoveFinalizer, ChainInv, Queue, Work, Forward
    <3> QED
      BY <1>1, <2>2, <3>1 DEF RemoveFinalizer, StoreIfExists, Store, store
  <2>3. CASE UNCHANGED store
    BY <2>3 DEF store
  <2> QED
    BY <1>2, <2>1, <2>2, <2>3
       DEF Call, ListNodes, CreateJob, ListJobs, DeleteJob, CheckEdge, CreateVs,
           ListVs, DeleteVs
<1>3. CASE RequestDelete \/ EditSpec
  BY <1>1, <1>3 DEF RequestDelete, EditSpec, Store
<1>4. CASE UNCHANGED exp
  BY <1>4
<1>5. ASSUME NEW o \in Operators, BeginAny(o) \/ Watch(o) \/ Crash(o)
      PROVE  UNCHANGED exp
  BY <1>5 DEF BeginAny, BeginAddFinalizer, BeginDeletion, BeginPending,
              BeginRunning, BeginTerminal, TerminalDone, Begin, Watch, Crash, store
<1>6. Cluster => UNCHANGED exp \/ RequestDelete \/ EditSpec
  BY DEF Cluster, JobFinishes, JobReaped, VsCollected, Tick, store
<1>7. UNCHANGED vars => UNCHANGED exp
  BY DEF vars
<1> QED
  BY <1>2, <1>3, <1>4, <1>5, <1>6, <1>7 DEF Next

\* No reconcile strips the finalizer of an experiment that lives on, whatever
\* the number of operators and however far their caches lag.
THEOREM FinalizerStays == Spec => FinalizerHolds
<1>1. ChainInv /\ [Next]_vars =>
        [exp.finalizer /\ exp'.exists => exp'.finalizer]_vars
  BY FinalizerStep
<1>2. ChainInv /\ [Next]_vars => ChainInv'
  BY ChainNext
<1> QED
  BY <1>1, <1>2, ChainInit, PTL DEF Spec, FinalizerHolds
=============================================================================
