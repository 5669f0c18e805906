------------------------- MODULE ReconcilerOwnership -------------------------
(***************************************************************************)
(* A single operator owns the fault it injects: it is never left behind    *)
(* cleanupDone, never injected again after the cleanup, and the operator   *)
(* implements FaultLifecycle.  Its cache may lag by any number of          *)
(* versions, its calls may fail and it may restart at any point; an edit   *)
(* of the spec leaves its kind.  The run leak_overlap shows that the first *)
(* hypothesis cannot be dropped; without the second a scenario edited from *)
(* edge to pod makes handle_terminal skip the VirtualServices.             *)
(***************************************************************************)
EXTENDS ReconcilerRecords, ReconcilerLifecycle

\* An edge experiment is not edited into a pod experiment, or the other way.
KindStays == ~Editable \/ \A s, t \in Specs : s.kind = t.kind

Sole == KindStays /\ \A o, p \in Operators : o = p

\* No reconcile that injects can start from this version.
Blocked(v) == v.exists => ~v.finalizer \/ v.deleting

\* Operator o injects no more: it has seen the experiment leave Pending.
Settled(o) == ~Injecting(o) /\ cache[o].status.phase # "Pending"

Walk == {"delete_jobs", "list_vs", "delete_vs"}

\* The reconcile records the cleanup only when the fault is out, cleans up
\* only what is finished or being deleted, and visits every VirtualService.
CleansUp(o) ==
    /\ w[o].pc = "patch" /\ w[o].patch.cleanupDone =>
         vs = {} /\ cache[o].status.phase # "Pending"
    /\ w[o].pc \in Walk /\ ~w[o].snap.deleting => w[o].snap.status.phase # "Pending"
    /\ w[o].pc = "delete_vs" => vs \subseteq w[o].vs
    /\ Injecting(o) => w[o].snap.spec.kind = "edge"

\* Once the object is gone no version that is still to be seen injects.
GoneForGood == ~exp.exists => \A o \in Operators :
                   /\ ~Injecting(o) /\ Blocked(cache[o])
                   /\ \A i \in 1..Len(events[o]) : Blocked(events[o][i])

CleanedForGood == exp.status.cleanupDone =>
                      vs = {} /\ \A o \in Operators : Settled(o)

Held == /\ vs # {} /\ exp.exists => exp.finalizer
        /\ exp.spec.kind = "pod" => vs = {}

OwnerInv == /\ Held /\ GoneForGood /\ CleanedForGood
            /\ \A o \in Operators : CleansUp(o)

Inv == ChainInv /\ RecordInv /\ OwnerInv

-----------------------------------------------------------------------------
LEMMA OwnerInit == Init => OwnerInv
<1> SUFFICES ASSUME Init PROVE OwnerInv
  OBVIOUS
<1>1. /\ vs = {} /\ exp.exists /\ ~exp.status.cleanupDone
      /\ \A o \in Operators : w[o].pc = "idle"
  BY DEF Init, NewExperiment, DefaultStatus, IdleWorker
<1> QED
  BY <1>1 DEF OwnerInv, Held, GoneForGood, CleanedForGood, CleansUp, Injecting, Walk

\* What the chain of versions says of the reconcile in progress.
LEMMA Snapshot ==
    ASSUME Sole, ChainInv, NEW o \in Operators, w[o].pc # "idle"
    PROVE  /\ w[o].snap.spec.kind = exp.spec.kind
           /\ Forward(w[o].snap, cache[o]) /\ Forward(w[o].snap, exp)
<1>1. Forward(w[o].snap, cache[o]) /\ Forward(w[o].snap, exp)
  BY ForwardOrder DEF ChainInv, Work, Queue
<1> QED
  BY <1>1, WorkerFields
     DEF Sole, KindStays, ChainInv, TypeInv, TypeOK, Object, ObjectType, Forward

\* A reconcile that injects holds the experiment: it is stored, it has its
\* finalizer, it is an edge experiment and it is not cleaned up.
LEMMA InjectingHolds ==
    ASSUME Sole, Inv, NEW o \in Operators, Injecting(o)
    PROVE  /\ exp.exists /\ exp.finalizer /\ exp.spec.kind = "edge"
           /\ ~exp.status.cleanupDone
<1>1. w[o].pc \notin {"idle", "add_finalizer"}
  BY DEF Injecting
<1>2. w[o].snap.finalizer /\ w[o].snap.spec.kind = exp.spec.kind /\ Forward(w[o].snap, exp)
  BY <1>1, Snapshot DEF Inv, ChainInv, Work
<1> QED
  BY <1>2 DEF Inv, OwnerInv, GoneForGood, CleanedForGood, Settled, CleansUp, Forward

\* A step of the reconcile that stores no version.
LEMMA OwnerFrame ==
    ASSUME Sole, Inv, NEW o \in Operators, UNCHANGED <<exp, cache, events>>,
           vs' \subseteq vs \/ Injecting(o),
           Injecting(o)' => Injecting(o) \/ (exp.exists /\ ~exp.status.cleanupDone),
           CleansUp(o)'
    PROVE  OwnerInv'
<1>1. \A x \in Operators : x = o
  BY DEF Sole
<1>2. Held'
  BY InjectingHolds DEF Inv, OwnerInv, Held
<1>3. GoneForGood'
  BY <1>1 DEF Inv, OwnerInv, GoneForGood
<1>4. CleanedForGood'
  BY <1>1, InjectingHolds DEF Inv, OwnerInv, CleanedForGood, Settled
<1> QED
  BY <1>1, <1>2, <1>3, <1>4 DEF OwnerInv

LEMMA FinishOwner ==
    ASSUME TypeOK, NEW o \in Operators, NEW again, Finish(o, again)
    PROVE  CleansUp(o)' /\ ~Injecting(o)'
<1>1. w'[o].pc = "idle"
  BY DEF Finish, TypeOK, IdleWorker
<1> QED
  BY <1>1 DEF CleansUp, Injecting, Walk

LEMMA ContinueOwner ==
    ASSUME TypeOK, NEW o \in Operators, CleansUp(o), UNCHANGED cache,
           NEW pc, NEW todo, NEW found, NEW p, Continue(o, pc, todo, found, p),
           pc = "patch" /\ p.cleanupDone =>
             vs' = {} /\ cache[o].status.phase # "Pending",
           pc \in Walk => w[o].pc \in Walk,
           pc = "delete_vs" => vs' \subseteq found,
           pc \in {"check_edge", "create_vs"} => Injecting(o)
    PROVE  CleansUp(o)' /\ (Injecting(o)' => Injecting(o))
<1> DEFINE new == [pc |-> pc, snap |-> w[o].snap, jobs |-> todo,
                   vs |-> found, patch |-> p]
<1>1. w' = [w EXCEPT ![o] = new] /\ w \in [Operators -> Worker]
  BY DEF Continue, TypeOK
<1>2. /\ new.pc = pc /\ new.snap = w[o].snap /\ new.vs = found
      /\ new.patch = p
  OBVIOUS
<1> HIDE DEF new
<1>3. w'[o] = new
  BY <1>1
<1> QED
  BY <1>2, <1>3 DEF CleansUp, Injecting, Walk

LEMMA BeginOwner ==
    ASSUME Sole, Inv, NEW o \in Operators, NEW pc, NEW todo, NEW p,
           Begin(o, pc, todo, p), pc # "delete_vs",
           pc = "patch" /\ p.cleanupDone =>
             vs = {} /\ cache[o].status.phase # "Pending",
           pc \in Walk /\ ~cache[o].deleting => cache[o].status.phase # "Pending",
           pc \in {"check_edge", "create_vs"} =>
             /\ cache[o].exists /\ cache[o].finalizer /\ ~cache[o].deleting
             /\ cache[o].status.phase = "Pending" /\ cache[o].spec.kind = "edge"
    PROVE  OwnerInv'
<1> DEFINE new == [pc |-> pc, snap |-> cache[o], jobs |-> todo,
                   vs |-> {}, patch |-> p]
<1>1. /\ w' = [w EXCEPT ![o] = new] /\ w \in [Operators -> Worker]
      /\ UNCHANGED <<exp, cache, events, vs>>
  BY DEF Inv, ChainInv, TypeInv, TypeOK, Begin, store, cluster
<1>2. new.pc = pc /\ new.snap = cache[o] /\ new.patch = p
  OBVIOUS
<1> HIDE DEF new
<1>3. w'[o] = new
  BY <1>1
<1>4. CleansUp(o)'
  BY <1>1, <1>2, <1>3 DEF CleansUp, Injecting, Walk
<1>5. Injecting(o)' => exp.exists /\ ~exp.status.cleanupDone
  BY <1>2, <1>3
     DEF Injecting, Inv, OwnerInv, GoneForGood, CleanedForGood, Settled, Blocked
<1> QED
  BY <1>1, <1>4, <1>5, OwnerFrame

LEMMA BeginAnyOwner ==
    ASSUME Sole, Inv, NEW o \in Operators, BeginAny(o)
    PROVE  OwnerInv'
<1>1. ~DefaultStatus.cleanupDone /\ ~FailedPatch.cleanupDone
  BY DEF DefaultStatus, FailedPatch
<1>2. cache[o] \in Object /\ cache[o].status \in StatusType
  BY DEF Inv, ChainInv, TypeInv, TypeOK, Object, ObjectType
<1>3. /\ cache[o].status.cleanupDone => cache[o].status.phase \in Terminal
      /\ cache[o].spec.kind = exp.spec.kind
  BY DEF Inv, RecordInv, GoodQueue, GoodVersion, Sound, Sole, KindStays, ChainInv, TypeInv,
         TypeOK, Object, ObjectType, Queue, Forward
<1>4. CASE BeginAddFinalizer(o)
  BY <1>4, BeginOwner DEF BeginAddFinalizer, Walk
<1>5. CASE BeginDeletion(o)
  <2>1. CleanupStart(cache[o]) \in {"delete_jobs", "list_vs", "remove_finalizer"}
    BY <1>5 DEF BeginDeletion, CleanupStart, AfterJobs, AfterVs, is_being_deleted
  <2> QED
    BY <1>5, <2>1, BeginOwner DEF BeginDeletion, Walk, is_being_deleted
<1>6. CASE BeginPending(o)
  BY <1>1, <1>6, BeginOwner
     DEF BeginPending, Active, Ready, needs_finalizer, is_being_deleted, Walk
<1>7. CASE BeginRunning(o)
  <2>1. ~Completed(cache[o], "Succeeded").cleanupDone
    <3>1. cache[o].status.phase = "Running"
      BY <1>7 DEF BeginRunning
    <3> QED
      BY <1>2, <1>3, <3>1 DEF Completed, StatusType, Terminal
  <2> QED
    BY <1>7, <2>1, BeginOwner DEF BeginRunning, Walk
<1>8. CASE BeginTerminal(o)
  <2>1. /\ cache[o].status.phase # "Pending"
        /\ Begin(o, CleanupStart(cache[o]), cache[o].status.runnerJobs,
                 [cache[o].status EXCEPT !.cleanupDone = TRUE])
    BY <1>8 DEF BeginTerminal, Terminal
  <2>2. /\ CleanupStart(cache[o]) \in Walk \cup {"remove_finalizer", "patch"}
        /\ CleanupStart(cache[o]) # "delete_vs"
        /\ CleanupStart(cache[o]) = "patch" => cache[o].spec.kind # "edge"
    BY DEF CleanupStart, AfterJobs, AfterVs, Walk
  <2>3. CleanupStart(cache[o]) = "patch" => vs = {}
    <3>1. exp.spec.kind \in {"pod", "edge"}
      BY SpecsAssumption DEF Inv, ChainInv, TypeInv, TypeOK, Object, ObjectType, SpecType
    <3> QED
      BY <1>3, <2>2, <3>1 DEF Inv, OwnerInv, Held
  <2> QED
    BY <2>1, <2>2, <2>3, BeginOwner DEF Walk
<1>9. CASE TerminalDone(o)
  <2>1. UNCHANGED <<exp, cache, events, vs, w>>
    BY <1>9 DEF TerminalDone, store, cluster
  <2>2. CleansUp(o)' /\ (Injecting(o)' => Injecting(o))
    BY <2>1 DEF Inv, OwnerInv, CleansUp, Injecting
  <2> QED
    BY <2>1, <2>2, OwnerFrame
<1> QED
  BY <1>4, <1>5, <1>6, <1>7, <1>8, <1>9 DEF BeginAny

\* The patches of a run that is not cleaned up say so.
LEMMA NotCleaned ==
    ASSUME Inv, NEW o \in Operators
    PROVE  /\ ~FailedPatch.cleanupDone
           /\ \A s, found : ~RunningPatch(s, found).cleanupDone
           /\ w[o].pc \in {"create_jobs", "create_vs"} =>
                ~[w[o].patch EXCEPT !.startedAt = clock].cleanupDone
           /\ w[o].pc = "list_jobs" =>
                \A phase : ~Completed(w[o].snap, phase).cleanupDone
<1>1. /\ w[o].patch \in StatusType /\ w[o].snap.status \in StatusType
      /\ GoodWork(o)
  BY WorkerFields DEF Inv, ChainInv, RecordInv, Object, ObjectType
<1>2. w[o].pc \in {"create_jobs", "create_vs"} => ~w[o].patch.cleanupDone
  BY <1>1 DEF GoodWork, Sound, Terminal
<1>3. w[o].pc = "list_jobs" => ~w[o].snap.status.cleanupDone
  BY <1>1 DEF GoodWork, GoodVersion, Sound, Terminal
<1>4. [w[o].patch EXCEPT !.startedAt = clock].cleanupDone = w[o].patch.cleanupDone
  BY <1>1 DEF StatusType
<1>5. \A phase : Completed(w[o].snap, phase).cleanupDone = w[o].snap.status.cleanupDone
  BY <1>1 DEF Completed, StatusType
<1>6. ~FailedPatch.cleanupDone /\ \A s, found : ~RunningPatch(s, found).cleanupDone
  BY DEF FailedPatch, RunningPatch, DefaultStatus
<1> QED
  BY <1>2, <1>3, <1>4, <1>5, <1>6

LEMMA OtherCallOwner ==
    ASSUME Sole, Inv, NEW o \in Operators,
           \/ ListNodes(o) \/ CreateJob(o) \/ ListJobs(o) \/ DeleteJob(o)
           \/ CheckEdge(o) \/ CreateVs(o) \/ ListVs(o) \/ DeleteVs(o)
    PROVE  OwnerInv'
<1>1. UNCHANGED <<exp, cache, events>>
  BY DEF ListNodes, CreateJob, ListJobs, DeleteJob, CheckEdge, CreateVs, ListVs,
         DeleteVs, store
<1>2. TypeOK /\ CleansUp(o)
  BY DEF Inv, ChainInv, TypeInv, OwnerInv
<1> DEFINE Good == CleansUp(o)' /\ (Injecting(o)' => Injecting(o))
<1>3. \A again : Finish(o, again) => Good
  BY <1>2, FinishOwner
<1>4. ASSUME NEW pc, NEW todo, NEW found, NEW p, Continue(o, pc, todo, found, p),
             pc = "patch" /\ p.cleanupDone =>
               vs' = {} /\ cache[o].status.phase # "Pending",
             pc \in Walk => w[o].pc \in Walk,
             pc = "delete_vs" => vs' \subseteq found,
             pc \in {"check_edge", "create_vs"} => Injecting(o)
      PROVE  Good
  BY <1>1, <1>2, <1>4, ContinueOwner
<1> HIDE DEF Good
<1>5. ASSUME NEW p, ~p.cleanupDone, GotoPatch(o, p)
      PROVE  Good
  BY <1>4, <1>5 DEF GotoPatch, Walk
\* The walk goes on, or it is over: then the VirtualServices are out, unless
\* the object is being deleted.
<1>6. w[o].pc \in Walk /\ ~w[o].snap.deleting => cache[o].status.phase # "Pending"
  BY <1>2, Snapshot DEF CleansUp, Forward, Inv, Walk
<1>7. ASSUME w[o].pc \in Walk, Goto(o, AfterVs(w[o].snap)), vs' = {}
      PROVE  Good
  BY <1>4, <1>6, <1>7 DEF Goto, AfterVs, is_being_deleted, Walk
<1>8. ASSUME w[o].pc \in Walk, CleanupFailed(o)
      PROVE  Good
  <2>1. CASE Goto(o, "remove_finalizer")
    BY <1>4, <2>1 DEF Goto, Walk
  <2> QED
    BY <1>3, <1>8, <2>1 DEF CleanupFailed
<1>9. Good
  <2>1. CASE ListNodes(o)
    <3>1. CASE \E found, p : Continue(o, "create_jobs", found, {}, p)
      BY <1>4, <3>1 DEF Walk
    <3>2. CASE GotoPatch(o, FailedPatch)
      BY <1>5, <3>2, NotCleaned
    <3> QED
      BY <1>3, <2>1, <3>1, <3>2 DEF ListNodes
  <2>2. CASE CreateJob(o)
    <3>1. ~[w[o].patch EXCEPT !.startedAt = clock].cleanupDone
      BY <2>2, NotCleaned DEF CreateJob
    <3> QED
      BY <1>3, <1>4, <1>5, <2>2, <3>1 DEF CreateJob, Walk
  <2>3. CASE ListJobs(o)
    <3> DEFINE v == JobVerdict(w[o].snap, {jobs[n] : n \in Nodes} \ {"absent"})
    <3>1. Finish(o, TRUE) \/ GotoPatch(o, Completed(w[o].snap, v))
      BY <2>3 DEF ListJobs
    <3>2. ~Completed(w[o].snap, v).cleanupDone
      BY <2>3, NotCleaned DEF ListJobs
    <3> HIDE DEF v
    <3> QED
      BY <1>3, <1>5, <3>1, <3>2
  <2>4. CASE DeleteJob(o)
    <3>1. w[o].pc = "delete_jobs" /\ vs' = vs
      BY <2>4 DEF DeleteJob
    <3>2. CASE Goto(o, AfterJobs(w[o].snap))
      <4>1. CASE w[o].snap.spec.kind = "edge"
        BY <1>4, <3>1, <3>2, <4>1 DEF Goto, AfterJobs, Walk
      <4>2. CASE w[o].snap.spec.kind # "edge"
        <5>1. w[o].snap.spec.kind = exp.spec.kind /\ exp.spec.kind \in {"pod", "edge"}
          BY <1>2, <3>1, Snapshot, SpecsAssumption
             DEF Inv, TypeOK, Object, ObjectType, SpecType
        <5>2. vs' = {}
          BY <3>1, <4>2, <5>1 DEF Inv, OwnerInv, Held
        <5> QED
          BY <1>7, <3>1, <3>2, <4>2, <5>2 DEF AfterJobs, Walk
      <4> QED
        BY <4>1, <4>2
    <3>3. CASE \E todo : Continue(o, "delete_jobs", todo, {}, w[o].patch)
      BY <1>4, <3>1, <3>3 DEF Walk
    <3> QED
      BY <2>4, <3>2, <3>3 DEF DeleteJob
  <2>5. CASE CheckEdge(o)
    <3>1. CASE \E p : Continue(o, "create_vs", {}, {}, p)
      BY <1>4, <2>5, <3>1 DEF Walk, Injecting, CheckEdge
    <3>2. CASE GotoPatch(o, FailedPatch)
      BY <1>5, <3>2, NotCleaned
    <3> QED
      BY <1>3, <2>5, <3>1, <3>2 DEF CheckEdge
  <2>6. CASE CreateVs(o)
    <3>1. ~[w[o].patch EXCEPT !.startedAt = clock].cleanupDone
      BY <2>6, NotCleaned DEF CreateVs
    <3> QED
      BY <1>3, <1>5, <2>6, <3>1 DEF CreateVs
  <2>7. CASE ListVs(o)
    <3>1. w[o].pc \in Walk /\ vs' = vs
      BY <2>7 DEF ListVs, cluster, Walk
    <3>2. CASE Continue(o, "delete_vs", {}, vs, w[o].patch)
      BY <1>4, <3>1, <3>2 DEF Walk
    <3> QED
      BY <1>7, <1>8, <2>7, <3>1, <3>2 DEF ListVs
  <2>8. CASE DeleteVs(o)
    <3>1. w[o].pc \in Walk /\ vs \subseteq w[o].vs
      BY <1>2, <2>8 DEF DeleteVs, CleansUp, Walk
    <3>2. PICK v \in w[o].vs, r \in Answers :
            /\ vs' = IF Applied(r) THEN vs \ {v} ELSE vs
            /\ IF r # "ok" THEN CleanupFailed(o)
               ELSE IF w[o].vs = {v} THEN Goto(o, AfterVs(w[o].snap))
               ELSE Continue(o, "delete_vs", {}, w[o].vs \ {v}, w[o].patch)
      BY <2>8 DEF DeleteVs
    <3>3. CASE r # "ok"
      BY <1>8, <3>1, <3>2, <3>3
    <3>4. CASE r = "ok"
      <4>1. vs' = vs \ {v}
        BY <3>2, <3>4 DEF Applied
      <4>2. CASE w[o].vs = {v}
        BY <1>7, <3>1, <3>2, <3>4, <4>1, <4>2
      <4>3. CASE w[o].vs # {v}
        BY <1>4, <3>1, <3>2, <3>4, <4>1, <4>3
      <4> QED
        BY <4>2, <4>3
    <3> QED
      BY <3>3, <3>4
  <2> QED
    BY <2>1, <2>2, <2>3, <2>4, <2>5, <2>6, <2>7, <2>8
<1>10. vs' \subseteq vs \/ Injecting(o)
  BY DEF ListNodes, CreateJob, ListJobs, DeleteJob, CheckEdge, CreateVs, ListVs,
         DeleteVs, cluster, Injecting
<1> QED
  BY <1>1, <1>9, <1>10, OwnerFrame DEF Good

LEMMA StoreCallOwner ==
    ASSUME Sole, Inv, NEW o \in Operators,
           AddFinalizer(o) \/ RemoveFinalizer(o) \/ PatchStatus(o)
    PROVE  OwnerInv'
<1>1. /\ TypeOK /\ UNCHANGED <<cache, vs>>
      /\ \E again : Finish(o, again)
      /\ ~Injecting(o)
  BY DEF Inv, ChainInv, TypeInv, AddFinalizer, RemoveFinalizer, PatchStatus,
         cluster, Injecting
<1>2. CleansUp(o)' /\ ~Injecting(o)'
  BY <1>1, FinishOwner
<1>3. \A x \in Operators : x = o
  BY DEF Sole
<1>4. CASE UNCHANGED store
  BY <1>1, <1>2, <1>4, OwnerFrame DEF store
<1>5. exp \in [exists: BOOLEAN, finalizer: BOOLEAN, deleting: BOOLEAN,
               spec: Specs, status: StatusType]
  BY <1>1 DEF TypeOK, Object, ObjectType
<1>6. ASSUME exp.exists, NEW e \in Object, Store(e), e.spec = exp.spec,
             e.exists /\ vs # {} => e.finalizer,
             ~e.exists => exp.deleting /\ cache[o].deleting,
             e.status.cleanupDone => vs = {} /\ cache[o].status.phase # "Pending"
      PROVE  OwnerInv'
  <2>1. exp' = e
    BY <1>6 DEF Store
  <2>2. Held'
    BY <1>1, <1>6, <2>1 DEF Inv, OwnerInv, Held
  <2>3. CleanedForGood'
    BY <1>1, <1>2, <1>3, <1>6, <2>1 DEF CleanedForGood, Settled
  <2>4. GoneForGood'
    <3>1. SUFFICES ASSUME ~e.exists
                   PROVE  /\ ~Injecting(o)' /\ Blocked(cache'[o])
                          /\ \A i \in 1..Len(events'[o]) : Blocked(events'[o][i])
      BY <1>3, <2>1 DEF GoneForGood
    <3>2. cache[o].deleting /\ ChainInv'
      BY <1>6, <3>1, StoreCallChain DEF Inv
    <3>3. \A i \in 1..Len(events'[o]) : Forward(cache'[o], events'[o][i])
      BY <3>2 DEF ChainInv, Queue
    <3> QED
      BY <1>1, <1>2, <3>2, <3>3 DEF Blocked, Forward
  <2> QED
    BY <1>2, <1>3, <2>2, <2>3, <2>4 DEF OwnerInv
<1>7. exp.status.cleanupDone => vs = {} /\ cache[o].status.phase # "Pending"
  BY DEF Inv, OwnerInv, CleanedForGood, Settled
<1>8. CASE AddFinalizer(o)
  <2> DEFINE e == [exp EXCEPT !.finalizer = TRUE]
  <2>1. /\ e \in Object /\ e.finalizer /\ e.exists = exp.exists
        /\ e.spec = exp.spec /\ e.status = exp.status
    BY <1>5 DEF Object, ObjectType
  <2>2. UNCHANGED store \/ (Store(e) /\ exp.exists)
    BY <1>8 DEF AddFinalizer, StoreIfExists
  <2> HIDE DEF e
  <2> QED
    BY <1>4, <1>6, <1>7, <2>1, <2>2
<1>9. CASE RemoveFinalizer(o)
  <2> DEFINE e == [exp EXCEPT !.finalizer = FALSE, !.exists = ~exp.deleting]
  <2>1. /\ e \in Object /\ e.exists = ~exp.deleting
        /\ e.spec = exp.spec /\ e.status = exp.status
    BY <1>5 DEF Object, ObjectType
  <2>2. UNCHANGED store \/ (Store(e) /\ exp.exists)
    BY <1>9 DEF RemoveFinalizer, StoreIfExists
  <2> HIDE DEF e
  <2>3. w[o].pc = "remove_finalizer" /\ w[o].snap.deleting
    BY <1>9 DEF RemoveFinalizer, Inv, ChainInv, Work
  <2>4. exp.deleting /\ cache[o].deleting
    BY <2>3, Snapshot DEF Inv, Forward
  <2> QED
    BY <1>4, <1>6, <1>7, <2>1, <2>2, <2>4
<1>10. CASE PatchStatus(o)
  <2> DEFINE m == Merge(exp.status, w[o].patch)
             e == [exp EXCEPT !.status = m]
  <2>1. w[o].pc = "patch" /\ w[o].patch \in StatusType
    BY <1>10, WorkerFields DEF PatchStatus, Inv, ChainInv
  <2>2. m \in StatusType /\ m.cleanupDone = w[o].patch.cleanupDone
    BY <1>5, <2>1, MergeType DEF Merge
  <2>3. UNCHANGED store \/ (Store(e) /\ exp.exists)
    BY <1>10 DEF PatchStatus, StoreIfExists
  <2> HIDE DEF m
  <2>4. /\ e \in Object /\ e.exists = exp.exists /\ e.finalizer = exp.finalizer
        /\ e.spec = exp.spec /\ e.status = m
    BY <1>5, <2>2 DEF Object, ObjectType
  <2>5. w[o].patch.cleanupDone => vs = {} /\ cache[o].status.phase # "Pending"
    BY <2>1 DEF Inv, OwnerInv, CleansUp
  <2>6. exp.exists /\ vs # {} => exp.finalizer
    BY DEF Inv, OwnerInv, Held
  <2> HIDE DEF e
  <2> QED
    BY <1>4, <1>6, <2>2, <2>3, <2>4, <2>5, <2>6
<1> QED
  BY <1>8, <1>9, <1>10

LEMMA SurroundingsOwner ==
    ASSUME Sole, Inv, (\E o \in Operators : Watch(o) \/ Crash(o)) \/ Cluster
    PROVE  OwnerInv'
<1>1. /\ TypeOK /\ ChainInv' /\ ChainInv /\ Held /\ GoneForGood /\ CleanedForGood
      /\ \A x \in Operators : CleansUp(x)
  BY SurroundingsChain DEF Inv, ChainInv, TypeInv, OwnerInv
<1>2. CASE \E o \in Operators : Watch(o)
  <2>1. PICK o \in Operators : Watch(o)
    BY <1>2
  <2>2. \A x \in Operators : x = o
    BY DEF Sole
  <2>3. UNCHANGED <<exp, vs, w>>
    BY <2>1 DEF Watch, cluster
  <2>4. Forward(cache[o], cache'[o])
    BY <1>1, <2>1, WatchQueue DEF ChainInv
  <2> DEFINE q == events[o]
  <2>5. q \in Seq(Object) /\ q # <<>> /\ cache'[o] = Head(q) /\ events'[o] = Tail(q)
    BY <1>1, <2>1 DEF TypeOK, Watch
  <2>6. ~exp.exists => /\ Blocked(cache'[o])
                       /\ \A i \in 1..Len(events'[o]) : Blocked(events'[o][i])
    <3>1. SUFFICES ASSUME \A i \in 1..Len(q) : Blocked(q[i])
                   PROVE  /\ Blocked(cache'[o])
                          /\ \A i \in 1..Len(events'[o]) : Blocked(events'[o][i])
      BY <1>1 DEF GoneForGood
    <3> HIDE DEF q
    <3> QED
      BY <2>5, <3>1
  <2>7. GoneForGood'
    BY <1>1, <2>2, <2>3, <2>6 DEF GoneForGood, Injecting
  <2>8. CleanedForGood'
    BY <1>1, <2>2, <2>3, <2>4 DEF CleanedForGood, Settled, Forward, Injecting
  <2>9. CleansUp(o)'
    BY <1>1, <2>3, <2>4 DEF CleansUp, Forward, Injecting
  <2> QED
    BY <1>1, <2>2, <2>3, <2>7, <2>8, <2>9 DEF OwnerInv, Held
<1>3. CASE \E o \in Operators : Crash(o)
  <2>1. PICK o \in Operators : Crash(o)
    BY <1>3
  <2>2. \A x \in Operators : x = o
    BY DEF Sole
  <2>3. UNCHANGED <<exp, vs>>
    BY <2>1 DEF Crash, cluster
  <2>4. cache'[o] = exp /\ events'[o] = <<>> /\ w'[o] = IdleWorker
    BY <1>1, <2>1 DEF Crash, TypeOK
  <2>5. IdleWorker.pc = "idle"
    BY DEF IdleWorker
  <2>6. GoneForGood'
    BY <2>2, <2>3, <2>4, <2>5 DEF GoneForGood, Injecting, Blocked
  <2>7. exp.status.cleanupDone => exp.status.phase # "Pending"
    BY DEF Inv, RecordInv, GoodVersion, Sound, Terminal
  <2>8. CleanedForGood'
    BY <1>1, <2>2, <2>3, <2>4, <2>5, <2>7 DEF CleanedForGood, Settled, Injecting
  <2>9. CleansUp(o)'
    BY <2>4, <2>5 DEF CleansUp, Injecting, Walk
  <2> QED
    BY <1>1, <2>2, <2>3, <2>6, <2>8, <2>9 DEF OwnerInv, Held
<1>4. CASE Cluster
  <2>1. UNCHANGED <<cache, w>> /\ vs' \subseteq vs
    BY <1>4
       DEF Cluster, RequestDelete, EditSpec, JobFinishes, JobReaped, VsCollected,
           Tick, cluster
  <2>3. \A x \in Operators : CleansUp(x)'
    BY <1>1, <2>1 DEF CleansUp, Injecting
  <2>4. CASE UNCHANGED store
    BY <1>1, <2>1, <2>3, <2>4
       DEF OwnerInv, Held, GoneForGood, CleanedForGood, Settled, Injecting, store
  <2>5. CASE RequestDelete
    <3>1. exp \in [exists: BOOLEAN, finalizer: BOOLEAN, deleting: BOOLEAN,
                   spec: Specs, status: StatusType]
      BY <1>1 DEF TypeOK, Object, ObjectType
    <3>2. /\ exp'.spec = exp.spec /\ exp'.status = exp.status
          /\ exp'.finalizer = exp.finalizer /\ exp'.exists = exp.finalizer /\ exp.exists
      BY <2>5, <3>1 DEF RequestDelete, Store
    <3>3. Held' /\ CleanedForGood'
      BY <1>1, <2>1, <3>2 DEF Held, CleanedForGood, Settled, Injecting
    <3>4. GoneForGood'
      <4>1. SUFFICES ASSUME ~exp.finalizer, NEW x \in Operators
                     PROVE  /\ ~Injecting(x)' /\ Blocked(cache'[x])
                            /\ \A i \in 1..Len(events'[x]) : Blocked(events'[x][i])
        BY <3>2 DEF GoneForGood
      <4>2. ~Injecting(x)'
        BY <2>1, <4>1, InjectingHolds DEF Injecting
      <4>3. Blocked(cache'[x])
        BY <1>1, <2>1, <3>2, <4>1 DEF ChainInv, Queue, Forward, Blocked
      <4>4. \A i \in 1..Len(events'[x]) : Blocked(events'[x][i])
        <5>1. PICK e : Store(e) /\ ~e.exists
          BY <2>5, <3>1, <4>1 DEF RequestDelete
        <5>2. Blocked(e)
          BY <5>1 DEF Blocked
        <5>3. \A j \in 1..Len(events[x]) : Blocked(events[x][j])
          BY <1>1, <3>2, <4>1 DEF ChainInv, Queue, Forward, Blocked
        <5> QED
          BY <1>1, <5>1, <5>2, <5>3, QueuedVersions
      <4> QED
        BY <4>2, <4>3, <4>4
    <3> QED
      BY <2>3, <3>3, <3>4 DEF OwnerInv
  <2>6. CASE EditSpec
    <3>1. PICK s \in Specs : Store([exp EXCEPT !.spec = s]) /\ Editable /\ exp.exists
      BY <2>6 DEF EditSpec, Editable
    <3>2. exp \in [exists: BOOLEAN, finalizer: BOOLEAN, deleting: BOOLEAN,
                   spec: Specs, status: StatusType]
      BY <1>1 DEF TypeOK, Object, ObjectType
    <3>3. /\ exp'.spec = s /\ exp'.status = exp.status /\ exp'.exists
          /\ exp'.finalizer = exp.finalizer
      BY <3>1, <3>2 DEF Store
    <3>4. exp'.spec.kind = exp.spec.kind
      BY <3>1, <3>2, <3>3 DEF Sole, KindStays
    <3>5. Held' /\ CleanedForGood' /\ GoneForGood'
      BY <1>1, <2>1, <3>1, <3>3, <3>4
         DEF Held, CleanedForGood, GoneForGood, Settled, Injecting
    <3> QED
      BY <2>3, <3>5 DEF OwnerInv
  <2> QED
    BY <1>4, <2>4, <2>5, <2>6
       DEF Cluster, JobFinishes, JobReaped, VsCollected, Tick
<1> QED
  BY <1>2, <1>3, <1>4

LEMMA OwnerNext == Sole /\ Inv /\ [Next]_vars => Inv'
<1> SUFFICES ASSUME Sole, Inv, [Next]_vars PROVE Inv'
  OBVIOUS
<1>1. ChainInv' /\ RecordInv'
  BY ChainNext, RecordNext DEF Inv
<1>2. CASE \E o \in Operators : BeginAny(o) \/ Call(o) \/ Watch(o) \/ Crash(o)
  <2>1. OwnerInv'
    BY <1>2, BeginAnyOwner, StoreCallOwner, OtherCallOwner, SurroundingsOwner DEF Call
  <2> QED
    BY <1>1, <2>1 DEF Inv
<1>3. CASE Cluster
  BY <1>1, <1>3, SurroundingsOwner DEF Inv
<1>4. CASE UNCHANGED vars
  <2>1. OwnerInv'
    BY <1>4
       DEF vars, Inv, OwnerInv, Held, GoneForGood, CleanedForGood, Settled, CleansUp,
           Injecting
  <2> QED
    BY <1>1, <2>1 DEF Inv
<1> QED
  BY <1>2, <1>3, <1>4 DEF Next

LEMMA OwnerCorrect == Sole => (Spec => []Inv)
<1> SUFFICES ASSUME Sole PROVE Spec => []Inv
  OBVIOUS
<1>1. Init => Inv
  BY ChainInit, RecordInit, OwnerInit DEF Inv
<1>2. Inv /\ [Next]_vars => Inv'
  BY OwnerNext
<1> QED
  BY <1>1, <1>2, PTL DEF Spec

-----------------------------------------------------------------------------

\* While the experiment is stored, a fault in the mesh is still owed a cleanup.
THEOREM FaultOwned == Sole => (Spec => []FaultIsOwned)
<1> SUFFICES ASSUME Sole PROVE Spec => []FaultIsOwned
  OBVIOUS
<1>1. Inv => FaultIsOwned
  BY DEF Inv, OwnerInv, Held, CleanedForGood, FaultIsOwned
<1> QED
  BY <1>1, OwnerCorrect, PTL

\* A step adds a VirtualService only in a reconcile that injects.
LEMMA OnlyInjection ==
    ASSUME [Next]_vars
    PROVE  vs' \subseteq vs \/ \E o \in Operators : CreateVs(o) /\ Injecting(o)
<1>1. ASSUME NEW o \in Operators, BeginAny(o) \/ Watch(o) \/ Crash(o)
      PROVE  vs' = vs
  BY <1>1 DEF BeginAny, BeginAddFinalizer, BeginDeletion, BeginPending,
              BeginRunning, BeginTerminal, TerminalDone, Begin, Watch, Crash, cluster
<1>2. ASSUME NEW o \in Operators, Call(o), ~CreateVs(o)
      PROVE  vs' \subseteq vs
  BY <1>2 DEF Call, AddFinalizer, RemoveFinalizer, PatchStatus, ListNodes, CreateJob,
              CheckEdge, ListJobs, DeleteJob, ListVs, DeleteVs, cluster
<1>3. Cluster => vs' \subseteq vs
  BY DEF Cluster, RequestDelete, EditSpec, JobFinishes, JobReaped, VsCollected,
         Tick, cluster
<1>4. UNCHANGED vars => vs' = vs
  BY DEF vars
<1>5. \A o : CreateVs(o) => Injecting(o)
  BY DEF CreateVs, Injecting
<1> QED
  BY <1>1, <1>2, <1>3, <1>4, <1>5 DEF Next

\* What becomes of the stored version in a step: nothing is stored once the
\* object is gone; it goes without a change of its status; only PatchStatus
\* changes the status.
LEMMA StoredSteps ==
    ASSUME ChainInv, [Next]_vars
    PROVE  /\ ~exp.exists => exp' = exp
           /\ exp.exists /\ ~exp'.exists => exp'.status = exp.status /\ vs' = vs
           /\ \/ exp'.status = exp.status
              \/ \E o \in Operators : PatchStatus(o) /\ exp'.status =
                                        Merge(exp.status, w[o].patch) /\ vs' = vs
<1>1. exp \in [exists: BOOLEAN, finalizer: BOOLEAN, deleting: BOOLEAN,
               spec: Specs, status: StatusType]
  BY DEF ChainInv, TypeInv, TypeOK, Object, ObjectType
<1>2. CASE UNCHANGED exp
  BY <1>2
<1>3. ASSUME NEW o \in Operators, AddFinalizer(o)
      PROVE  exp'.status = exp.status /\ vs' = vs /\ (~exp.exists => exp' = exp)
  BY <1>1, <1>3 DEF AddFinalizer, StoreIfExists, Store, store, cluster
<1>4. ASSUME NEW o \in Operators, RemoveFinalizer(o)
      PROVE  exp'.status = exp.status /\ vs' = vs /\ (~exp.exists => exp' = exp)
  BY <1>1, <1>4 DEF RemoveFinalizer, StoreIfExists, Store, store, cluster
<1>5. ASSUME NEW o \in Operators, PatchStatus(o), ~UNCHANGED exp
      PROVE  /\ exp'.status = Merge(exp.status, w[o].patch) /\ vs' = vs
             /\ exp.exists /\ exp'.exists
  BY <1>1, <1>5 DEF PatchStatus, StoreIfExists, Store, store, cluster
<1>6. RequestDelete \/ EditSpec => /\ exp'.status = exp.status /\ vs' = vs
                                   /\ exp.exists
  BY <1>1 DEF RequestDelete, EditSpec, Store, cluster
<1>7. ASSUME NEW o \in Operators, BeginAny(o) \/ Watch(o) \/ Crash(o)
      PROVE  exp' = exp
  BY <1>7 DEF BeginAny, BeginAddFinalizer, BeginDeletion, BeginPending,
              BeginRunning, BeginTerminal, TerminalDone, Begin, Watch, Crash, store
<1>8. ASSUME NEW o \in Operators, Call(o),
             ~(AddFinalizer(o) \/ RemoveFinalizer(o) \/ PatchStatus(o))
      PROVE  exp' = exp
  BY <1>8 DEF Call, ListNodes, CreateJob, CheckEdge, CreateVs, ListJobs, DeleteJob,
              ListVs, DeleteVs, store
<1>9. Cluster => exp' = exp \/ RequestDelete \/ EditSpec
  BY DEF Cluster, JobFinishes, JobReaped, VsCollected, Tick, store
<1>10. UNCHANGED vars => exp' = exp
  BY DEF vars
<1> QED
  BY <1>2, <1>3, <1>4, <1>5, <1>6, <1>7, <1>8, <1>9, <1>10 DEF Next

\* Any number of operators, with caches however stale and with any edits, keep
\* a fault that is in the mesh behind the finalizer of its experiment, so that a
\* delete waits for the cleanup (create_virtual_service after add_finalizer).
Guarded == vs # {} /\ exp.exists => exp.finalizer

LEMMA GuardedNext == ChainInv /\ Guarded /\ [Next]_vars => Guarded'
<1> SUFFICES ASSUME ChainInv, Guarded, [Next]_vars, vs' # {}, exp'.exists
             PROVE  exp'.finalizer
  BY DEF Guarded
<1>1. exp.exists
  BY StoredSteps
<1>2. CASE vs' \subseteq vs
  BY <1>1, <1>2, FinalizerStep DEF Guarded
<1>3. ASSUME NEW o \in Operators, CreateVs(o)
      PROVE  exp'.finalizer
  <2>1. w[o].snap.finalizer /\ Forward(w[o].snap, cache[o]) /\ Forward(cache[o], exp)
    BY <1>3 DEF CreateVs, ChainInv, Work, Queue
  <2> QED
    BY <1>1, <2>1, FinalizerStep DEF Forward
<1> QED
  BY <1>2, <1>3, OnlyInjection

\* While the object is stored, a fault in its mesh is behind its finalizer: it
\* does not go before a handle_deletion, whoever injected the fault and when.
THEOREM FaultGuarded == Spec => []Guarded
<1>1. Init => Guarded
  BY DEF Init, Guarded
<1>2. ChainInv /\ Guarded /\ [Next]_vars => (ChainInv /\ Guarded)'
  BY ChainNext, GuardedNext
<1> QED
  BY <1>1, <1>2, ChainInit, PTL DEF Spec

\* No reconcile, however stale its snapshot, injects after the cleanup was
\* recorded or the object is gone.
THEOREM NeverReinjected == Sole => (Spec => NoReinjection)
<1> SUFFICES ASSUME Sole PROVE Spec => NoReinjection
  OBVIOUS
<1>1. Inv /\ [Next]_vars =>
        [exp.status.cleanupDone \/ ~exp.exists => vs' \subseteq vs]_vars
  BY OnlyInjection, InjectingHolds
<1> QED
  BY <1>1, OwnerCorrect, PTL DEF Spec, NoReinjection

-----------------------------------------------------------------------------
(* A single operator implements FaultLifecycle.                            *)

\* A step that leaves the reconcile of o at the call pc.
LEMMA NextCall ==
    ASSUME TypeOK, NEW o \in Operators
    PROVE  /\ \A again : Finish(o, again) => w'[o].pc = "idle"
           /\ \A pc, todo, found, p : Continue(o, pc, todo, found, p) => w'[o].pc = pc
           /\ \A pc : Goto(o, pc) => w'[o].pc = pc
           /\ \A p : GotoPatch(o, p) => w'[o].pc = "patch"
           /\ \A pc, todo, p : Begin(o, pc, todo, p) => w'[o].pc = pc
BY Moved DEF Goto, GotoPatch

\* A reconcile becomes one that injects only when it begins on a version that
\* is Pending and not being deleted.
LEMMA InjectingStarts ==
    ASSUME TypeOK, NEW o \in Operators, BeginAny(o) \/ Call(o), Injecting(o)'
    PROVE  Armed(o)
<1>1. w'[o].pc \in {"check_edge", "create_vs"}
  BY DEF Injecting
<1>2. CASE BeginPending(o)
  BY <1>2 DEF BeginPending, Active, Armed, is_being_deleted
<1>3. CASE BeginAddFinalizer(o) \/ BeginRunning(o)
  BY <1>1, <1>3, NextCall DEF BeginAddFinalizer, BeginRunning
<1>4. CASE BeginDeletion(o) \/ BeginTerminal(o)
  <2>1. CleanupStart(cache[o]) \notin {"check_edge", "create_vs"}
    BY DEF CleanupStart, AfterJobs, AfterVs
  <2>2. \E todo, p : Begin(o, CleanupStart(cache[o]), todo, p)
    BY <1>4 DEF BeginDeletion, BeginTerminal
  <2> QED
    BY <1>1, <2>1, <2>2, NextCall
<1>5. CASE TerminalDone(o)
  BY <1>1, <1>5 DEF TerminalDone, Armed, Injecting
<1>6. CASE AddFinalizer(o) \/ RemoveFinalizer(o) \/ PatchStatus(o)
  BY <1>1, <1>6, NextCall DEF AddFinalizer, RemoveFinalizer, PatchStatus
<1>7. CASE CheckEdge(o)
  BY <1>7 DEF CheckEdge, Armed, Injecting
<1>8. CASE CreateVs(o)
  BY <1>8 DEF CreateVs, Armed, Injecting
<1>9. AfterVs(w[o].snap) \notin {"check_edge", "create_vs"}
      /\ AfterJobs(w[o].snap) \notin {"check_edge", "create_vs"}
  BY DEF AfterVs, AfterJobs
<1>10. ~CleanupFailed(o)
  BY <1>1, NextCall DEF CleanupFailed
<1>11. CASE ListNodes(o) \/ ListJobs(o)
  BY <1>1, <1>11, NextCall DEF ListNodes, ListJobs
<1>12. CASE CreateJob(o)
  BY <1>1, <1>12, NextCall DEF CreateJob
<1>13. CASE DeleteJob(o)
  BY <1>1, <1>9, <1>13, NextCall DEF DeleteJob
<1>14. CASE ListVs(o) \/ DeleteVs(o)
  BY <1>1, <1>9, <1>10, <1>14, NextCall DEF ListVs, DeleteVs
<1> QED
  BY <1>2, <1>3, <1>4, <1>5, <1>6, <1>7, <1>8, <1>11, <1>12, <1>13, <1>14
     DEF BeginAny, Call

\* An experiment that is not armed never is again.
LEMMA SpentStays ==
    ASSUME Sole, Inv, [Next]_vars, \A o \in Operators : ~Armed(o),
           NEW o \in Operators
    PROVE  ~Armed(o)'
<1>1. TypeOK /\ ChainInv
  BY DEF Inv, ChainInv, TypeInv
<1>2. ~(cache'[o].status.phase = "Pending" /\ ~cache'[o].deleting)
  BY <1>1, CacheForward DEF Armed, Forward
<1>3. ~Injecting(o)'
  <2>1. \A x \in Operators : x = o
    BY DEF Sole
  <2>2. ASSUME BeginAny(o) \/ Call(o)
        PROVE  ~Injecting(o)'
    BY <1>1, <2>2, InjectingStarts
  <2>3. CASE Crash(o)
    <3>1. w'[o].pc = "idle"
      BY <1>1, <2>3 DEF Crash, IdleWorker, TypeOK
    <3> QED
      BY <3>1 DEF Injecting
  <2>4. CASE UNCHANGED w
    BY <2>4 DEF Injecting, Armed
  <2>5. Watch(o) \/ Cluster \/ UNCHANGED vars => UNCHANGED w
    BY DEF Watch, Cluster, RequestDelete, EditSpec, JobFinishes, JobReaped,
           VsCollected, Tick, vars
  <2> QED
    BY <2>1, <2>2, <2>3, <2>4, <2>5 DEF Next
<1> QED
  BY <1>2, <1>3 DEF Armed

\* What a step does to the fault: it appears in a reconcile that injects, and
\* goes, while the object is stored, only in a cleanup.
LEMMA FaultSteps ==
    ASSUME Inv, [Next]_vars, exp.exists
    PROVE  \/ \E o \in Operators : CreateVs(o)
           \/ \E o \in Operators : DeleteVs(o)
           \/ vs' = vs
<1>1. ASSUME NEW o \in Operators, BeginAny(o) \/ Watch(o) \/ Crash(o)
      PROVE  vs' = vs
  BY <1>1 DEF BeginAny, BeginAddFinalizer, BeginDeletion, BeginPending,
              BeginRunning, BeginTerminal, TerminalDone, Begin, Watch, Crash, cluster
<1>2. ASSUME NEW o \in Operators, Call(o), ~CreateVs(o), ~DeleteVs(o)
      PROVE  vs' = vs
  BY <1>2 DEF Call, AddFinalizer, RemoveFinalizer, PatchStatus, ListNodes, CreateJob,
              CheckEdge, ListJobs, DeleteJob, ListVs, cluster
<1>3. Cluster => vs' = vs
  BY DEF Cluster, RequestDelete, EditSpec, JobFinishes, JobReaped, VsCollected,
         Tick, cluster
<1>4. UNCHANGED vars => vs' = vs
  BY DEF vars
<1> QED
  BY <1>1, <1>2, <1>3, <1>4 DEF Next

\* A reconcile that cleans up, or that is about to record the cleanup, works on
\* an experiment that is no longer armed.
LEMMA CleanupIsSpent ==
    ASSUME Sole, Inv, NEW o \in Operators,
           \/ w[o].pc = "delete_vs"
           \/ w[o].pc = "patch" /\ (w[o].patch.cleanupDone \/ exp.status.cleanupDone)
    PROVE  \A x \in Operators : ~Armed(x)
<1>1. \A x \in Operators : x = o
  BY DEF Sole
<1>2. /\ ~Injecting(o) /\ CleansUp(o)
      /\ exp.status.cleanupDone => cache[o].status.phase # "Pending"
  BY DEF Injecting, Inv, OwnerInv, CleanedForGood, Settled
<1>3. w[o].pc = "delete_vs" => Forward(w[o].snap, cache[o])
  BY Snapshot DEF Inv
<1> QED
  BY <1>1, <1>2, <1>3 DEF Armed, CleansUp, Forward, Walk

LEMMA RefineInit == Operators # {} /\ Init => Lifecycle!Init
<1> SUFFICES ASSUME Init, NEW o \in Operators PROVE Lifecycle!Init
  OBVIOUS
<1>1. exp.exists /\ ~exp.deleting /\ exp.status = DefaultStatus /\ cache[o] = exp
  BY DEF Init, NewExperiment
<1>2. Armed(o)
  BY <1>1 DEF Armed, DefaultStatus
<1>3. stageOf = "armed"
  BY <1>1, <1>2 DEF stageOf
<1>4. vs = {} /\ exp.status.cleanupDone = FALSE
  BY <1>1 DEF Init, DefaultStatus
<1> QED
  BY <1>3, <1>4 DEF Lifecycle!Init

LEMMA RefineNext ==
    ASSUME Sole, Inv, [Next]_vars
    PROVE  [Lifecycle!Next]_Lifecycle!vars
<1> DEFINE fault == vs # {}
           cleaned == exp.status.cleanupDone
<1>0. ChainInv
  BY DEF Inv
<1>1. vs' \subseteq vs \/ exp.exists
  <2>1. \A o \in Operators : Injecting(o) => exp.exists
    BY InjectingHolds
  <2> QED
    BY <2>1, OnlyInjection
<1>2. CASE ~exp.exists
  <2>1. exp' = exp /\ vs' \subseteq vs
    BY <1>0, <1>1, <1>2, StoredSteps
  <2>2. stageOf = "gone" /\ stageOf' = "gone" /\ cleaned' = cleaned
    BY <1>2, <2>1 DEF stageOf
  <2>3. fault' = fault \/ fault' = FALSE
    BY <2>1
  <2> QED
    BY <2>2, <2>3 DEF Lifecycle!Next, Lifecycle!Collect, Lifecycle!vars
<1>3. CASE exp.exists /\ ~exp'.exists
  <2>1. exp'.status = exp.status /\ vs' = vs
    BY <1>0, <1>3, StoredSteps
  <2>2. stageOf' = "gone" /\ fault' = fault /\ cleaned' = cleaned
    BY <1>3, <2>1 DEF stageOf
  <2> QED
    BY <2>2 DEF Lifecycle!Next, Lifecycle!Vanish
<1>4. CASE exp.exists /\ exp'.exists
  <2>1. /\ stageOf = IF \E o \in Operators : Armed(o) THEN "armed" ELSE "spent"
        /\ stageOf' \in {"armed", "spent"}
        /\ stageOf = "spent" => stageOf' = "spent"
    BY <1>4, SpentStays DEF stageOf
  <2>2. CASE fault' = fault /\ cleaned' = cleaned
    BY <2>1, <2>2 DEF Lifecycle!Next, Lifecycle!Spend, Lifecycle!vars
  <2>3. CASE \E o \in Operators : CreateVs(o)
    <3>1. PICK o \in Operators : CreateVs(o)
      BY <2>3
    <3>2. exp' = exp /\ Injecting(o)
      BY <3>1 DEF CreateVs, store, Injecting
    <3>3. stageOf = "armed" /\ cleaned' = cleaned
      BY <2>1, <3>2 DEF Armed
    <3>4. fault' = fault \/ fault' = TRUE
      BY <3>1 DEF CreateVs
    <3> QED
      BY <2>1, <2>2, <3>3, <3>4 DEF Lifecycle!Next, Lifecycle!Inject
  <2>4. CASE \E o \in Operators : DeleteVs(o)
    <3>1. PICK o \in Operators : DeleteVs(o)
      BY <2>4
    <3>2. exp' = exp /\ vs' \subseteq vs /\ w[o].pc = "delete_vs"
      BY <3>1 DEF DeleteVs, store
    <3>3. stageOf = "spent" /\ stageOf' = "spent" /\ cleaned' = cleaned
      BY <2>1, <3>2, CleanupIsSpent
    <3>4. fault' = fault \/ fault' = FALSE
      BY <3>2
    <3> QED
      BY <2>2, <3>3, <3>4 DEF Lifecycle!Next, Lifecycle!Retract
  <2>5. CASE vs' = vs /\ exp'.status # exp.status
    <3>1. PICK o \in Operators :
            PatchStatus(o) /\ exp'.status = Merge(exp.status, w[o].patch)
      BY <1>0, <2>5, StoredSteps
    <3>2. /\ w[o].pc = "patch" /\ cleaned' = w[o].patch.cleanupDone
          /\ fault' = fault
      BY <2>5, <3>1 DEF PatchStatus, Merge
    <3>3. w[o].patch.cleanupDone \in BOOLEAN /\ cleaned \in BOOLEAN
      BY WorkerFields
         DEF Inv, ChainInv, TypeInv, TypeOK, Object, ObjectType, StatusType
    <3>4. w[o].patch.cleanupDone => vs = {}
      BY <3>2 DEF Inv, OwnerInv, CleansUp
    <3>5. CASE cleaned' # cleaned
      <4>1. w[o].patch.cleanupDone \/ exp.status.cleanupDone
        BY <3>2, <3>3, <3>5
      <4>2. stageOf = "spent" /\ stageOf' = "spent"
        BY <2>1, <3>2, <4>1, CleanupIsSpent
      <4> QED
        BY <3>2, <3>3, <3>4, <4>2 DEF Lifecycle!Next, Lifecycle!Record
    <3> QED
      BY <2>2, <3>2, <3>5
  <2> QED
    BY <1>4, <2>2, <2>3, <2>4, <2>5, FaultSteps
<1> QED
  BY <1>2, <1>3, <1>4

\* A single operator implements the promise about the fault: injected only
\* while the experiment is armed, recorded as cleaned up only when it is out.
THEOREM LifecycleImplemented == Sole /\ Operators # {} => (Spec => ImplementsLifecycle)
<1> SUFFICES ASSUME Sole, Operators # {} PROVE Spec => ImplementsLifecycle
  OBVIOUS
<1>1. Init => Lifecycle!Init
  BY RefineInit
<1>2. Inv /\ [Next]_vars => [Lifecycle!Next]_Lifecycle!vars
  BY RefineNext
<1> QED
  BY <1>1, <1>2, OwnerCorrect, PTL DEF Spec, ImplementsLifecycle, Lifecycle!Spec
=============================================================================
