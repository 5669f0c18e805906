---------------------- MODULE ReconcilerHistoryProofs ----------------------
(***************************************************************************)
(* A single operator that starts every reconcile from an up to date cache  *)
(* moves the phase forward only and implements ExperimentHistory.  Calls   *)
(* may fail, answers may be lost, the operator may restart at any point    *)
(* and the spec may be edited.  Both hypotheses are needed: from a cache   *)
(* that lags, or next to another operator, a reconcile can put a verdict   *)
(* over a verdict.                                                         *)
(***************************************************************************)
EXTENDS ReconcilerRecords, ReconcilerHistory

ReadsItsWrites == FreshCache /\ \A o, p \in Operators : o = p

\* The last version that operator o has yet to see is the stored one.
UpToDate(o) == IF events[o] = <<>> THEN cache[o] = exp
               ELSE events[o][Len(events[o])] = exp

\* What a patch p makes of the status s that its reconcile was given.
Keeps(p, s) == /\ s.phase \in Terminal /\ p.phase = s.phase
               /\ p.startedAt = s.startedAt
               /\ p.completedAt = s.completedAt
Rejects(p, s) == /\ s.phase = "Pending" /\ p.phase = "Failed"
                 /\ p.startedAt = NoTime /\ p.completedAt = NoTime
Starts(p, s) == /\ s.phase = "Pending" /\ p.phase = "Running"
                /\ p.startedAt \in 0..clock /\ p.completedAt = NoTime
Ends(p, s) == /\ s.phase = "Running" /\ p.phase \in Terminal
              /\ p.startedAt = s.startedAt /\ p.completedAt \in 0..clock
              /\ s.startedAt <= p.completedAt

Judges(p, s) == Keeps(p, s) \/ Rejects(p, s) \/ Starts(p, s) \/ Ends(p, s)

\* The reconcile of o works on the stored status and holds the object.
Holds(o) == w[o].pc # "idle" =>
    /\ w[o].snap.status = exp.status
    /\ w[o].pc # "add_finalizer" => exp.exists /\ exp.finalizer

\* What it is about to say of the run.
Says(o) ==
    LET p == w[o].patch
        s == w[o].snap.status
    IN /\ w[o].pc \in {"list_nodes", "create_jobs", "check_edge", "create_vs"} =>
            s.phase = "Pending"
       /\ w[o].pc \in {"create_jobs", "create_vs"} =>
            p.phase = "Running" /\ p.startedAt = NoTime /\ p.completedAt = NoTime
       /\ w[o].pc \in {"delete_jobs", "list_vs", "delete_vs"} /\ ~w[o].snap.deleting =>
            Keeps(p, s)
       /\ w[o].pc = "patch" => Judges(p, s)

FreshInv == /\ exp.status.startedAt <= clock
            /\ \A o \in Operators : UpToDate(o) /\ Holds(o) /\ Says(o)

-----------------------------------------------------------------------------
(* The caches.                                                             *)

LEMMA UpToDateNext ==
    ASSUME TypeOK, [Next]_vars, NEW o \in Operators, UpToDate(o)
    PROVE  UpToDate(o)'
<1> USE BoundAssumption
<1> DEFINE q == events[o]
<1>1. q \in Seq(Object) /\ Len(q) <= MaxLag
  BY DEF TypeOK
<1>2. CASE UNCHANGED <<exp, cache, events>>
  BY <1>2 DEF UpToDate
<1>3. ASSUME NEW e \in Object, Stores(e)
      PROVE  UpToDate(o)'
  <2>1. exp' = e /\ cache' = cache
    BY <1>3 DEF Stores, Store
  <2>2. CASE e = exp
    BY <1>3, <2>1, <2>2 DEF Stores, Store, UpToDate
  <2>3. CASE e # exp /\ Len(q) < MaxLag
    <3>1. events'[o] = Append(q, e)
      BY <1>3, <2>3 DEF Stores, Store
    <3> HIDE DEF q
    <3>2. /\ Append(q, e) # <<>> /\ Len(Append(q, e)) = Len(q) + 1
          /\ Append(q, e)[Len(q) + 1] = e
      BY <1>1
    <3> QED
      BY <2>1, <3>1, <3>2 DEF UpToDate
  <2>4. CASE e # exp /\ ~(Len(q) < MaxLag)
    <3>1. events'[o] = [q EXCEPT ![MaxLag] = e]
      BY <1>3, <2>4 DEF Stores, Store
    <3> DEFINE r == [q EXCEPT ![MaxLag] = e]
    <3>2. Len(q) = MaxLag /\ MaxLag \in 1..Len(q)
      BY <1>1, <2>4
    <3>3. r # <<>> /\ Len(r) = MaxLag /\ r[MaxLag] = e
      BY <1>1, <3>2
    <3> HIDE DEF r
    <3>4. events'[o] = r
      BY <3>1 DEF r
    <3> QED
      BY <2>1, <3>3, <3>4 DEF UpToDate
  <2> QED
    BY <2>2, <2>3, <2>4
<1>4. ASSUME NEW x \in Operators, Watch(x)
      PROVE  UpToDate(o)'
  <2>1. CASE x # o
    <3>1. cache'[o] = cache[o] /\ events'[o] = events[o] /\ exp' = exp
      BY <1>4, <2>1 DEF Watch, TypeOK
    <3> QED
      BY <3>1 DEF UpToDate
  <2>2. CASE x = o
    <3>1. /\ cache'[o] = Head(q) /\ events'[o] = Tail(q) /\ exp' = exp /\ q # <<>>
          /\ q[Len(q)] = exp
      BY <1>4, <2>2 DEF Watch, TypeOK, UpToDate
    <3> HIDE DEF q
    <3>2. /\ Len(q) \in Nat \ {0} /\ Head(q) = q[1] /\ Len(Tail(q)) = Len(q) - 1
          /\ \A i \in 1..Len(Tail(q)) : Tail(q)[i] = q[i + 1]
          /\ Tail(q) \in Seq(Object)
      BY <1>1, <3>1
    <3> DEFINE r == Tail(q)
    <3> HIDE DEF r
    <3>3. r \in Seq(Object) /\ Len(r) = Len(q) - 1
      BY <3>2 DEF r
    <3>4. Len(r) \in Nat /\ (r = <<>> => Len(r) = 0) /\ (r # <<>> => Len(r) # 0)
      BY <3>3
    <3>5. /\ r = <<>> => Len(q) = 1
          /\ r # <<>> => Len(r) \in 1..Len(r)
      BY <3>2, <3>3, <3>4
    <3>6. /\ r = <<>> => Head(q) = exp
          /\ r # <<>> => r[Len(r)] = exp
      BY <3>1, <3>2, <3>3, <3>5 DEF r
    <3>7. events'[o] = r
      BY <3>1 DEF r
    <3> QED
      BY <3>1, <3>6, <3>7 DEF UpToDate
  <2> QED
    BY <2>1, <2>2
<1>5. ASSUME NEW x \in Operators, Crash(x)
      PROVE  UpToDate(o)'
  <2>1. /\ exp' = exp
        /\ x # o => cache'[o] = cache[o] /\ events'[o] = events[o]
        /\ x = o => cache'[o] = exp /\ events'[o] = <<>>
    BY <1>5 DEF Crash, TypeOK
  <2> QED
    BY <2>1 DEF UpToDate
<1> QED
  BY <1>2, <1>3, <1>4, <1>5, VersionSteps

-----------------------------------------------------------------------------
(* The steps of the reconcile.                                             *)

\* The patches of the handlers.
LEMMA Verdicts ==
    ASSUME NEW s \in Object, clock \in Nat
    PROVE  /\ s.status.phase = "Pending" => Rejects(FailedPatch, s.status)
           /\ \A found : LET p == RunningPatch(s, found)
                         IN  /\ p.phase = "Running" /\ p.startedAt = NoTime
                             /\ p.completedAt = NoTime
           /\ s.status.phase = "Running" /\ s.status.startedAt <= clock =>
                \A phase \in Terminal : Ends(Completed(s, phase), s.status)
           /\ s.status.phase \in Terminal =>
                Keeps([s.status EXCEPT !.cleanupDone = TRUE], s.status)
<1>1. s.status \in StatusType
  BY DEF Object, ObjectType
<1>3. \A phase : LET c == Completed(s, phase)
                 IN  /\ c.phase = phase /\ c.startedAt = s.status.startedAt
                     /\ c.completedAt = clock
  BY <1>1 DEF Completed, StatusType
<1>4. LET c == [s.status EXCEPT !.cleanupDone = TRUE]
      IN  /\ c.phase = s.status.phase /\ c.startedAt = s.status.startedAt
          /\ c.completedAt = s.status.completedAt
  BY <1>1 DEF StatusType
<1>5. clock \in 0..clock
  OBVIOUS
<1>6. \A phase \in Terminal : s.status.phase = "Running" /\ s.status.startedAt <= clock =>
                                Ends(Completed(s, phase), s.status)
  BY <1>3, <1>5 DEF Ends
<1>7. s.status.phase \in Terminal =>
        Keeps([s.status EXCEPT !.cleanupDone = TRUE], s.status)
  BY <1>4 DEF Keeps
<1>8. s.status.phase = "Pending" => Rejects(FailedPatch, s.status)
  BY DEF Rejects, FailedPatch, DefaultStatus
<1>9. \A found : LET p == RunningPatch(s, found)
                 IN  /\ p.phase = "Running" /\ p.startedAt = NoTime
                     /\ p.completedAt = NoTime
  BY DEF RunningPatch, DefaultStatus
<1> QED
  BY <1>6, <1>7, <1>8, <1>9

LEMMA FreshBegin ==
    ASSUME ReadsItsWrites, TypeOK, FreshInv, NEW o \in Operators, BeginAny(o)
    PROVE  Holds(o)' /\ Says(o)'
<1>1. /\ cache[o] \in Object /\ clock \in Nat /\ exp.status.startedAt <= clock
      /\ UpToDate(o) /\ Holds(o) /\ Says(o)
  BY BoundAssumption DEF TypeOK, FreshInv
<1>2. exp' = exp /\ Ready(o)
  BY DEF BeginAny, BeginAddFinalizer, BeginDeletion, BeginPending, BeginRunning,
         BeginTerminal, TerminalDone, Begin, Active, store
<1>3. cache[o] = exp /\ exp.exists
  BY <1>1, <1>2 DEF Ready, ReadsItsWrites, UpToDate
<1>4. ASSUME NEW pc, NEW todo, NEW p, Begin(o, pc, todo, p),
             pc # "add_finalizer" => cache[o].finalizer,
             pc \in {"list_nodes", "check_edge"} => cache[o].status.phase = "Pending",
             pc \notin {"create_jobs", "create_vs"},
             pc \in {"delete_jobs", "list_vs", "delete_vs"} /\ ~cache[o].deleting =>
               Keeps(p, cache[o].status),
             pc = "patch" => Judges(p, cache[o].status)
      PROVE  Holds(o)' /\ Says(o)'
  <2>1. w'[o].pc = pc /\ w'[o].snap = cache[o] /\ w'[o].patch = p
    BY <1>4, Moved
  <2>2. clock' = clock
    BY <1>4 DEF Begin
  <2>3. Holds(o)'
    BY <1>2, <1>3, <1>4, <2>1 DEF Holds
  <2>4. Says(o)'
    BY <1>4, <2>1, <2>2 DEF Says, Judges, Keeps, Rejects, Starts, Ends
  <2> QED
    BY <2>3, <2>4
<1>5. CASE BeginAddFinalizer(o)
  BY <1>4, <1>5 DEF BeginAddFinalizer
<1>6. CASE BeginDeletion(o)
  <2>1. /\ cache[o].deleting /\ cache[o].finalizer
        /\ CleanupStart(cache[o]) \in {"delete_jobs", "list_vs", "remove_finalizer"}
    BY <1>6 DEF BeginDeletion, CleanupStart, AfterJobs, AfterVs, is_being_deleted,
                needs_finalizer
  <2> QED
    BY <1>4, <1>6, <2>1 DEF BeginDeletion
<1>7. CASE BeginPending(o)
  <2>1. cache[o].finalizer /\ cache[o].status.phase = "Pending"
    BY <1>7 DEF BeginPending, Active, needs_finalizer
  <2>2. Judges(FailedPatch, cache[o].status)
    BY <1>1, <2>1, Verdicts DEF Judges
  <2> QED
    BY <1>4, <1>7, <2>1, <2>2 DEF BeginPending
<1>8. CASE BeginRunning(o)
  <2>1. cache[o].finalizer /\ cache[o].status.phase = "Running"
    BY <1>8 DEF BeginRunning, Active, needs_finalizer
  <2>2. Judges(Completed(cache[o], "Succeeded"), cache[o].status)
    BY <1>1, <1>3, <2>1, Verdicts DEF Judges, Terminal
  <2> QED
    BY <1>4, <1>8, <2>1, <2>2 DEF BeginRunning
<1>9. CASE BeginTerminal(o)
  <2>1. /\ cache[o].finalizer /\ cache[o].status.phase \in Terminal
        /\ Begin(o, CleanupStart(cache[o]), cache[o].status.runnerJobs,
                 [cache[o].status EXCEPT !.cleanupDone = TRUE])
    BY <1>9 DEF BeginTerminal, Active, needs_finalizer
  <2>2. /\ Keeps([cache[o].status EXCEPT !.cleanupDone = TRUE], cache[o].status)
        /\ Judges([cache[o].status EXCEPT !.cleanupDone = TRUE], cache[o].status)
    BY <1>1, <2>1, Verdicts DEF Judges
  <2> QED
    BY <1>4, <2>1, <2>2, CleanupSteps
<1>10. CASE TerminalDone(o)
  BY <1>1, <1>10 DEF TerminalDone, Holds, Says, Judges, Keeps, Rejects, Starts, Ends, store
<1> QED
  BY <1>5, <1>6, <1>7, <1>8, <1>9, <1>10 DEF BeginAny

LEMMA FreshCall ==
    ASSUME ReadsItsWrites, ChainInv, RecordInv, FreshInv, NEW o \in Operators, Call(o)
    PROVE  Holds(o)' /\ Says(o)'
<1>1. /\ TypeOK /\ clock' = clock /\ clock \in Nat
      /\ w[o].snap \in Object /\ w[o].patch \in StatusType
      /\ exp.status.startedAt <= clock /\ Holds(o) /\ Says(o) /\ GoodWork(o)
  BY WorkerFields
     DEF ChainInv, TypeInv, FreshInv, RecordInv, Call, AddFinalizer, RemoveFinalizer,
         PatchStatus, ListNodes, CreateJob, ListJobs, DeleteJob, CheckEdge, CreateVs,
         ListVs, DeleteVs
<1> DEFINE p0 == w[o].patch
           s0 == w[o].snap.status
           Fine == Holds(o)' /\ Says(o)'
<1> HIDE DEF Fine
<1>2. ASSUME NEW again, Finish(o, again)
      PROVE  Fine
  BY <1>1, <1>2, Moved DEF Holds, Says, Fine
<1>3. ASSUME exp' = exp, w[o].pc \notin {"idle", "add_finalizer"},
             NEW pc, NEW todo, NEW found, NEW p, Continue(o, pc, todo, found, p),
             pc \notin {"list_nodes", "check_edge"},
             pc \in {"create_jobs", "create_vs"} =>
               /\ s0.phase = "Pending" /\ p.phase = "Running"
               /\ p.startedAt = NoTime /\ p.completedAt = NoTime,
             pc \in {"delete_jobs", "list_vs", "delete_vs"} /\ ~w[o].snap.deleting =>
               Keeps(p, s0),
             pc = "patch" => Judges(p, s0)
      PROVE  Fine
  <2>1. w'[o].pc = pc /\ w'[o].snap = w[o].snap /\ w'[o].patch = p
    BY <1>1, <1>3, Moved
  <2>2. Holds(o)'
    BY <1>1, <1>3, <2>1 DEF Holds
  <2>3. Says(o)'
    BY <1>1, <1>3, <2>1 DEF Says, Judges, Keeps, Rejects, Starts, Ends
  <2> QED
    BY <2>2, <2>3 DEF Fine
<1>4. ASSUME exp' = exp, w[o].pc \notin {"idle", "add_finalizer"},
             NEW p, Judges(p, s0), GotoPatch(o, p)
      PROVE  Fine
  BY <1>3, <1>4 DEF GotoPatch
<1>5. ASSUME exp' = exp, w[o].pc \in {"delete_jobs", "list_vs", "delete_vs"},
             \/ Goto(o, AfterVs(w[o].snap)) \/ Goto(o, AfterJobs(w[o].snap))
             \/ Goto(o, "remove_finalizer")
             \/ \E found : Continue(o, "delete_vs", {}, found, p0)
             \/ \E todo : Continue(o, "delete_jobs", todo, {}, p0)
      PROVE  Fine
  <2>1. ~w[o].snap.deleting => Keeps(p0, s0) /\ Judges(p0, s0)
    BY <1>1, <1>5 DEF Says, Judges
  <2>2. w[o].snap.deleting =>
          /\ AfterVs(w[o].snap) = "remove_finalizer"
          /\ AfterJobs(w[o].snap) \in {"list_vs", "remove_finalizer"}
    BY DEF AfterVs, AfterJobs, is_being_deleted
  <2>3. ASSUME NEW pc \in {"list_vs", "remove_finalizer", "patch"},
               w[o].snap.deleting => pc # "patch", Goto(o, pc)
        PROVE  Fine
    BY <1>3, <1>5, <2>1, <2>3 DEF Goto
  <2>4. ASSUME NEW pc \in {"delete_jobs", "delete_vs"}, NEW todo, NEW found,
               Continue(o, pc, todo, found, p0)
        PROVE  Fine
    BY <1>3, <1>5, <2>1, <2>4
  <2> QED
    BY <1>5, <2>2, <2>3, <2>4, CleanupSteps
<1>6. ASSUME AddFinalizer(o) \/ RemoveFinalizer(o) \/ PatchStatus(o)
      PROVE  Fine
  BY <1>2, <1>6 DEF AddFinalizer, RemoveFinalizer, PatchStatus
<1>8. ASSUME ListNodes(o) \/ CheckEdge(o)
      PROVE  Fine
  <2>1. exp' = exp /\ w[o].pc \in {"list_nodes", "check_edge"} /\ s0.phase = "Pending"
    BY <1>1, <1>8 DEF ListNodes, CheckEdge, store, Says
  <2>2. Judges(FailedPatch, s0)
    BY <1>1, <2>1, Verdicts DEF Judges
  <2>3. ASSUME NEW pc \in {"create_jobs", "create_vs"}, NEW todo, NEW found,
               Continue(o, pc, todo, {}, RunningPatch(w[o].snap, found))
        PROVE  Fine
    <3>1. LET p == RunningPatch(w[o].snap, found)
          IN  p.phase = "Running" /\ p.startedAt = NoTime /\ p.completedAt = NoTime
      BY <1>1, Verdicts
    <3> QED
      BY <1>3, <2>1, <2>3, <3>1
  <2> QED
    BY <1>2, <1>4, <1>8, <2>1, <2>2, <2>3 DEF ListNodes, CheckEdge
<1>9. ASSUME CreateJob(o) \/ CreateVs(o)
      PROVE  Fine
  <2>1. /\ exp' = exp /\ w[o].pc \in {"create_jobs", "create_vs"} /\ s0.phase = "Pending"
        /\ p0.phase = "Running" /\ p0.startedAt = NoTime /\ p0.completedAt = NoTime
    BY <1>1, <1>9 DEF CreateJob, CreateVs, store, Says
  <2> DEFINE p == [p0 EXCEPT !.startedAt = clock]
  <2>2. p.phase = "Running" /\ p.startedAt = clock /\ p.completedAt = NoTime
    BY <1>1, <2>1 DEF StatusType
  <2>3. Judges(p, s0)
    BY <1>1, <2>1, <2>2 DEF Judges, Starts
  <2>4. ASSUME NEW todo, Continue(o, "create_jobs", todo, {}, p0)
        PROVE  Fine
    BY <1>3, <2>1, <2>4
  <2>5. GotoPatch(o, p) => Fine
    BY <1>4, <2>1, <2>3
  <2> QED
    BY <1>2, <1>9, <2>4, <2>5 DEF CreateJob, CreateVs
<1>10. ASSUME ListJobs(o)
      PROVE  Fine
  <2>1. exp' = exp /\ w[o].pc = "list_jobs" /\ s0.phase = "Running" /\ s0 = exp.status
    BY <1>1, <1>10 DEF ListJobs, store, GoodWork, Holds
  <2>2. \A s, seen : JobVerdict(s, seen) # "Running" => JobVerdict(s, seen) \in Terminal
    BY DEF JobVerdict, Terminal
  <2>3. \A phase \in Terminal : Judges(Completed(w[o].snap, phase), s0)
    BY <1>1, <2>1, Verdicts DEF Judges
  <2>4. ASSUME NEW phase \in Terminal, GotoPatch(o, Completed(w[o].snap, phase))
        PROVE  Fine
    BY <1>4, <2>1, <2>3, <2>4
  <2> QED
    BY <1>2, <1>10, <2>2, <2>4 DEF ListJobs
<1>11. ASSUME DeleteJob(o) \/ ListVs(o) \/ DeleteVs(o)
      PROVE  Fine
  <2>1. exp' = exp /\ w[o].pc \in {"delete_jobs", "list_vs", "delete_vs"}
    BY <1>11 DEF DeleteJob, ListVs, DeleteVs, store
  <2> QED
    BY <1>2, <1>5, <1>11, <2>1 DEF DeleteJob, ListVs, DeleteVs, CleanupFailed, Goto
<1> QED
  BY <1>6, <1>8, <1>9, <1>10, <1>11 DEF Call, Fine

\* The stored status is what it was or what a patch makes of it, and only
\* remove_finalizer lets go of an object that is held.
LEMMA StoredStatus ==
    ASSUME TypeOK, [Next]_vars
    PROVE  /\ clock \in Nat /\ clock' \in Nat /\ clock <= clock'
           /\ \/ exp'.status = exp.status
              \/ \E o \in Operators :
                   /\ PatchStatus(o) /\ exp.exists /\ exp'.exists
                   /\ exp'.status = Merge(exp.status, w[o].patch)
           /\ exp.exists /\ exp.finalizer =>
                \/ exp'.exists /\ exp'.finalizer
                \/ \E o \in Operators : RemoveFinalizer(o)
           /\ exp'.exists => exp.exists
<1>1. exp \in [exists: BOOLEAN, finalizer: BOOLEAN, deleting: BOOLEAN,
               spec: Specs, status: StatusType]
  BY DEF TypeOK, Object, ObjectType
<1>2. clock \in Nat /\ clock' \in Nat /\ clock <= clock'
  <2>1. clock \in Nat
    BY BoundAssumption DEF TypeOK
  <2>2. clock' = clock \/ clock' = clock + 1
    BY DEF Next, vars, BeginAny, BeginAddFinalizer, BeginDeletion, BeginPending,
           BeginRunning, BeginTerminal, TerminalDone, Begin, Call, AddFinalizer,
           RemoveFinalizer, PatchStatus, ListNodes, CreateJob, CheckEdge, CreateVs,
           ListJobs, DeleteJob, ListVs, DeleteVs, Watch, Crash, Cluster, RequestDelete,
           EditSpec, Tick, JobFinishes, JobReaped, VsCollected
  <2> QED
    BY <2>1, <2>2
<1> DEFINE Goal == /\ \/ exp'.status = exp.status
                      \/ \E o \in Operators :
                           /\ PatchStatus(o) /\ exp.exists /\ exp'.exists
                           /\ exp'.status = Merge(exp.status, w[o].patch)
                   /\ exp.exists /\ exp.finalizer =>
                        \/ exp'.exists /\ exp'.finalizer
                        \/ \E o \in Operators : RemoveFinalizer(o)
                   /\ exp'.exists => exp.exists
<1>3. ASSUME exp' = exp
      PROVE  Goal
  BY <1>3
<1>4. ASSUME NEW o \in Operators, AddFinalizer(o) \/ RemoveFinalizer(o) \/ PatchStatus(o)
      PROVE  Goal
  <2> DEFINE m == Merge(exp.status, w[o].patch)
             e1 == [exp EXCEPT !.finalizer = TRUE]
             e2 == [exp EXCEPT !.finalizer = FALSE, !.exists = ~exp.deleting]
             e3 == [exp EXCEPT !.status = m]
  <2>1. /\ e1.status = exp.status /\ e2.status = exp.status /\ e3.status = m
        /\ e1.finalizer /\ e1.exists = exp.exists
        /\ e3.finalizer = exp.finalizer /\ e3.exists = exp.exists
    BY <1>1
  <2>2. \/ exp' = exp
        \/ AddFinalizer(o) /\ exp.exists /\ exp' = e1
        \/ RemoveFinalizer(o) /\ exp.exists /\ exp' = e2
        \/ PatchStatus(o) /\ exp.exists /\ exp' = e3
    BY <1>4 DEF AddFinalizer, RemoveFinalizer, PatchStatus, StoreIfExists, Store, store
  <2> HIDE DEF e1, e2, e3
  <2> QED
    BY <1>3, <2>1, <2>2
<1>5. ASSUME RequestDelete \/ EditSpec
      PROVE  Goal
  <2>1. \/ exp.finalizer /\ exp' = [exp EXCEPT !.deleting = TRUE]
        \/ ~exp.finalizer /\ exp' = [exp EXCEPT !.exists = FALSE]
        \/ \E s \in Specs : exp' = [exp EXCEPT !.spec = s]
    BY <1>5 DEF RequestDelete, EditSpec, Store
  <2>2. /\ exp'.status = exp.status /\ exp.exists
        /\ exp.finalizer => exp'.exists = exp.exists /\ exp'.finalizer
    BY <1>1, <1>5, <2>1 DEF RequestDelete, EditSpec
  <2> QED
    BY <2>2
<1>6. exp' = exp \/ RequestDelete \/ EditSpec
      \/ \E o \in Operators : AddFinalizer(o) \/ RemoveFinalizer(o) \/ PatchStatus(o)
  BY DEF Next, vars, BeginAny, BeginAddFinalizer, BeginDeletion, BeginPending,
         BeginRunning, BeginTerminal, TerminalDone, Begin, Call, ListNodes, CreateJob,
         CheckEdge, CreateVs, ListJobs, DeleteJob, ListVs, DeleteVs, Watch, Crash,
         Cluster, Tick, JobFinishes, JobReaped, VsCollected, store
<1> QED
  BY <1>2, <1>3, <1>4, <1>5, <1>6

\* What a patch that judges the stored status makes of it.
LEMMA Judged ==
    ASSUME NEW s \in StatusType, NEW p \in StatusType, Judges(p, s), clock \in Nat,
           s.startedAt <= clock
    PROVE  LET m == Merge(s, p)
           IN  /\ m.startedAt <= clock
               /\ \/ /\ m.phase = s.phase /\ m.startedAt = s.startedAt
                     /\ m.completedAt = s.completedAt
                  \/ /\ s.phase = "Pending" /\ m.phase = "Failed"
                     /\ m.startedAt = s.startedAt /\ m.completedAt = s.completedAt
                  \/ /\ Starts(p, s) /\ m.phase = "Running"
                     /\ m.startedAt = p.startedAt /\ m.completedAt = s.completedAt
                  \/ /\ s.phase = "Running" /\ m.phase \in Terminal
                     /\ m.startedAt = s.startedAt
                     /\ m.completedAt \in 0..clock /\ s.startedAt <= m.completedAt
<1> DEFINE m == Merge(s, p)
<1>1. /\ m.phase = p.phase
      /\ m.startedAt = IF p.startedAt = NoTime THEN s.startedAt ELSE p.startedAt
      /\ m.completedAt = IF p.completedAt = NoTime THEN s.completedAt
                                                   ELSE p.completedAt
  BY DEF Merge
<1> HIDE DEF m
<1>2. Keeps(p, s) => /\ m.phase = s.phase /\ m.startedAt = s.startedAt
                     /\ m.completedAt = s.completedAt
  BY <1>1 DEF Keeps
<1>3. Rejects(p, s) => /\ s.phase = "Pending" /\ m.phase = "Failed"
                       /\ m.startedAt = s.startedAt /\ m.completedAt = s.completedAt
  BY <1>1 DEF Rejects
<1>4. Starts(p, s) => /\ m.phase = "Running" /\ m.startedAt = p.startedAt
                      /\ m.completedAt = s.completedAt /\ p.startedAt <= clock
  BY <1>1 DEF Starts, NoTime
<1>5. Ends(p, s) => /\ s.phase = "Running" /\ m.phase \in Terminal
                    /\ m.startedAt = s.startedAt
                    /\ m.completedAt \in 0..clock /\ s.startedAt <= m.completedAt
  BY <1>1 DEF Ends, NoTime
<1> QED
  BY <1>2, <1>3, <1>4, <1>5 DEF Judges, m

LEMMA FreshNext ==
    ASSUME ReadsItsWrites, ChainInv, RecordInv, FreshInv, [Next]_vars
    PROVE  FreshInv'
<1>1. TypeOK /\ exp.status \in StatusType /\ exp.status.startedAt <= clock
  BY DEF ChainInv, TypeInv, TypeOK, FreshInv, Object, ObjectType
<1>2. /\ clock \in Nat /\ clock' \in Nat /\ clock <= clock'
      /\ \/ exp'.status = exp.status
         \/ \E o \in Operators : /\ PatchStatus(o)
                                 /\ exp'.status = Merge(exp.status, w[o].patch)
      /\ exp.exists /\ exp.finalizer =>
           \/ exp'.exists /\ exp'.finalizer
           \/ \E o \in Operators : RemoveFinalizer(o)
  BY <1>1, StoredStatus
<1>3. \A o \in Operators : PatchStatus(o) \/ RemoveFinalizer(o) => w'[o].pc = "idle"
  BY <1>1, Moved DEF PatchStatus, RemoveFinalizer
<1>4. exp'.status.startedAt <= clock'
  <2>1. CASE exp'.status = exp.status
    <3>1. exp.status.startedAt \in Nat \cup {NoTime}
      BY <1>1 DEF StatusType
    <3> QED
      BY <1>1, <1>2, <2>1, <3>1 DEF NoTime
  <2>2. ASSUME NEW o \in Operators, PatchStatus(o),
               exp'.status = Merge(exp.status, w[o].patch)
        PROVE  exp'.status.startedAt <= clock'
    <3>1. /\ w[o].pc = "patch" /\ w[o].patch \in StatusType
          /\ Judges(w[o].patch, exp.status) /\ clock' = clock
      BY <2>2, WorkerFields DEF PatchStatus, FreshInv, Says, Holds, ChainInv
    <3> QED
      BY <1>1, <1>2, <2>2, <3>1, Judged
  <2> QED
    BY <1>2, <2>1, <2>2
<1>5. ASSUME NEW o \in Operators
      PROVE  Holds(o)' /\ Says(o)'
  <2>1. CASE BeginAny(o)
    BY <1>1, <2>1, FreshBegin
  <2>2. CASE Call(o)
    BY <1>1, <2>2, FreshCall
  <2>3. CASE w'[o].pc = "idle"
    BY <2>3 DEF Holds, Says
  <2>4. CASE w'[o] = w[o] /\ w'[o].pc # "idle"
    <3>1. \A x \in Operators : ~PatchStatus(x) /\ ~RemoveFinalizer(x)
      BY <1>3, <2>4 DEF ReadsItsWrites
    <3>2. /\ exp'.status = exp.status
          /\ exp.exists /\ exp.finalizer => exp'.exists /\ exp'.finalizer
          /\ Holds(o) /\ Says(o)
      BY <1>2, <3>1 DEF FreshInv
    <3>3. Holds(o)'
      BY <2>4, <3>2 DEF Holds
    <3>4. Says(o)'
      BY <1>2, <2>4, <3>2 DEF Says, Judges, Keeps, Rejects, Starts, Ends
    <3> QED
      BY <3>3, <3>4
  <2>5. CASE (\E x \in Operators : Watch(x) \/ Crash(x)) \/ Cluster \/ UNCHANGED vars
    BY <1>1, <2>3, <2>4, <2>5, Surroundings, Moved
  <2> QED
    BY <2>1, <2>2, <2>5 DEF Next, ReadsItsWrites
<1>6. \A o \in Operators : UpToDate(o)'
  BY <1>1, UpToDateNext DEF FreshInv
<1> QED
  BY <1>4, <1>5, <1>6 DEF FreshInv

LEMMA FreshInit == Init => FreshInv
<1> SUFFICES ASSUME Init PROVE FreshInv
  OBVIOUS
<1>1. exp.status.startedAt = NoTime /\ clock = 0
  BY DEF Init, NewExperiment, DefaultStatus
<1>2. \A o \in Operators : w[o].pc = "idle" /\ events[o] = <<>> /\ cache[o] = exp
  BY DEF Init, IdleWorker
<1> QED
  BY <1>1, <1>2 DEF FreshInv, UpToDate, Holds, Says, NoTime

LEMMA FreshCorrect == ReadsItsWrites => (Spec => []FreshInv)
<1> SUFFICES ASSUME ReadsItsWrites PROVE Spec => []FreshInv
  OBVIOUS
<1>1. ChainInv /\ RecordInv /\ FreshInv /\ [Next]_vars => FreshInv'
  BY FreshNext
<1> QED
  BY <1>1, FreshInit, ChainCorrect, RecordCorrect, PTL DEF Spec

\* An operator that reads its own writes moves the phase forward only:
\* patch_experiment_status is handed a verdict on the status that is stored,
\* through failed calls, lost answers, restarts and edits of the spec.
THEOREM PhaseForward == ReadsItsWrites => (Spec => PhaseMovesForward)
<1> SUFFICES ASSUME ReadsItsWrites PROVE Spec => PhaseMovesForward
  OBVIOUS
<1>1. ASSUME ChainInv, FreshInv, [Next]_vars
      PROVE  [exp'.status.phase # exp.status.phase =>
                \/ exp.status.phase = "Pending"
                \/ exp.status.phase = "Running" /\ exp'.status.phase \in Terminal]_vars
  <2>1. TypeOK /\ exp.status \in StatusType /\ exp.status.startedAt <= clock
    BY <1>1 DEF ChainInv, TypeInv, TypeOK, FreshInv, Object, ObjectType
  <2>2. CASE exp'.status = exp.status
    BY <2>2
  <2>3. ASSUME NEW o \in Operators, PatchStatus(o),
               exp'.status = Merge(exp.status, w[o].patch)
        PROVE  exp'.status.phase # exp.status.phase =>
                 \/ exp.status.phase = "Pending"
                 \/ exp.status.phase = "Running" /\ exp'.status.phase \in Terminal
    <3>1. /\ w[o].pc = "patch" /\ w[o].patch \in StatusType
          /\ Judges(w[o].patch, exp.status) /\ clock \in Nat
      BY <1>1, <2>3, WorkerFields DEF PatchStatus, FreshInv, Says, Holds, ChainInv
    <3> QED
      BY <2>1, <2>3, <3>1, Judged DEF Starts
  <2> QED
    BY <1>1, <2>1, <2>2, <2>3, StoredStatus
<1> QED
  BY <1>1, FreshCorrect, ChainCorrect, PTL DEF Spec, PhaseMovesForward

-----------------------------------------------------------------------------
(* The history: when the fault was first put in.                           *)

\* The fault that is there was put in before now, and before the startedAt that
\* is about to be recorded.
HistInv ==
    /\ injectedAt \in Nat \cup {NoTime} /\ injectedAt <= clock
    /\ vs # {} \/ (\E n \in Nodes : Live(n)) => injectedAt # NoTime
    /\ \A o \in Operators : w[o].pc = "patch" /\ w[o].patch.phase = "Running" =>
         injectedAt # NoTime /\ injectedAt <= w[o].patch.startedAt

\* One step changes the object, or the cluster, or the clock.
LEMMA OneThing ==
    ASSUME TypeOK, [Next]_vars
    PROVE  \/ UNCHANGED <<exp, clock>>
           \/ UNCHANGED <<jobs, vs, clock>>
           \/ UNCHANGED <<jobs, vs, exp>> /\ clock' = clock + 1
<1>1. ASSUME NEW o \in Operators, BeginAny(o)
      PROVE  UNCHANGED <<exp, clock>>
  BY <1>1 DEF BeginAny, BeginAddFinalizer, BeginDeletion, BeginPending, BeginRunning,
              BeginTerminal, TerminalDone, Begin, store
<1>2. ASSUME NEW o \in Operators, Call(o)
      PROVE  UNCHANGED <<exp, clock>> \/ UNCHANGED <<jobs, vs, clock>>
  BY <1>2 DEF Call, AddFinalizer, RemoveFinalizer, PatchStatus, ListNodes, CreateJob,
              CheckEdge, CreateVs, ListJobs, DeleteJob, ListVs, DeleteVs, store, cluster
<1>3. ASSUME NEW o \in Operators, Watch(o) \/ Crash(o)
      PROVE  UNCHANGED <<exp, clock>>
  BY <1>3 DEF Watch, Crash
<1>4. CASE Cluster
  BY <1>4 DEF Cluster, RequestDelete, EditSpec, Tick, JobFinishes, JobReaped, VsCollected,
              store, cluster
<1> QED
  BY <1>1, <1>2, <1>3, <1>4 DEF Next, vars

\* Only a call that is answered leads to the patch that records the start.
LEMMA StartSteps ==
    ASSUME ReadsItsWrites, ChainInv, RecordInv, FreshInv, NEW o \in Operators,
           BeginAny(o) \/ Call(o), w'[o].pc = "patch", w'[o].patch.phase = "Running"
    PROVE  \/ BeginAny(o) /\ w' = w
           \/ /\ w'[o].patch.startedAt = clock
              /\ vs' # {} \/ \E n \in Nodes : Live(n)'
<1>1. /\ TypeOK /\ w[o].patch \in StatusType /\ Says(o) /\ GoodWork(o) /\ clock \in Nat
      /\ FailedPatch.phase = "Failed"
  BY WorkerFields
     DEF ChainInv, TypeInv, FreshInv, RecordInv, FailedPatch, DefaultStatus
<1>2. /\ w[o].snap.status \in StatusType /\ cache[o].status \in StatusType
  BY WorkerFields DEF ChainInv, TypeInv, TypeOK, Object, ObjectType
<1>3. /\ \A again : ~Finish(o, again)
      /\ \A todo, found, p, pc : Continue(o, pc, todo, found, p) => pc = "patch"
      /\ \A p : GotoPatch(o, p) => p.phase = "Running" /\ w'[o].patch = p
      /\ \A pc, todo, p : Begin(o, pc, todo, p) => pc = "patch" /\ p.phase = "Running"
  BY <1>1, Moved DEF GotoPatch
<1>4. /\ \A phase : Completed(w[o].snap, phase).phase = phase
      /\ \A phase : Completed(cache[o], phase).phase = phase
      /\ [cache[o].status EXCEPT !.cleanupDone = TRUE].phase = cache[o].status.phase
  BY <1>2 DEF Completed, StatusType
<1>5. ~BeginAddFinalizer(o) /\ ~BeginPending(o) /\ ~BeginRunning(o)
  BY <1>1, <1>3, <1>4 DEF BeginAddFinalizer, BeginPending, BeginRunning
<1>6. ~BeginDeletion(o)
  BY <1>3 DEF BeginDeletion, DefaultStatus
<1>7. ASSUME BeginTerminal(o)
      PROVE  FALSE
  <2> DEFINE q == [cache[o].status EXCEPT !.cleanupDone = TRUE]
  <2>1. /\ Begin(o, CleanupStart(cache[o]), cache[o].status.runnerJobs, q)
        /\ q.phase \in Terminal
    BY <1>4, <1>7 DEF BeginTerminal
  <2> HIDE DEF q
  <2>2. q.phase = "Running"
    BY <1>3, <2>1
  <2> QED
    BY <2>1, <2>2 DEF Terminal
<1>8. TerminalDone(o) => BeginAny(o) /\ w' = w
  BY DEF TerminalDone, BeginAny
<1>9. ~AddFinalizer(o) /\ ~RemoveFinalizer(o) /\ ~PatchStatus(o)
  BY <1>3 DEF AddFinalizer, RemoveFinalizer, PatchStatus
<1>10. ~ListNodes(o) /\ ~CheckEdge(o)
  BY <1>1, <1>3 DEF ListNodes, CheckEdge
<1>11. ASSUME ListJobs(o)
       PROVE  FALSE
  <2> DEFINE verdict == JobVerdict(w[o].snap, {jobs[n] : n \in Nodes} \ {"absent"})
             q == Completed(w[o].snap, verdict)
  <2>1. q.phase = verdict
    BY <1>4
  <2>2. verdict # "Running" /\ GotoPatch(o, q)
    BY <1>3, <1>11 DEF ListJobs
  <2> HIDE DEF q, verdict
  <2>3. q.phase = "Running"
    BY <1>3, <2>2
  <2> QED
    BY <2>1, <2>2, <2>3
<1>12. ASSUME DeleteJob(o) \/ ListVs(o) \/ DeleteVs(o)
       PROVE  FALSE
  <2>1. \/ Goto(o, AfterVs(w[o].snap)) \/ Goto(o, AfterJobs(w[o].snap))
        \/ Goto(o, "remove_finalizer")
        \/ \E todo : Continue(o, "delete_jobs", todo, {}, w[o].patch)
        \/ \E found : Continue(o, "delete_vs", {}, found, w[o].patch)
        \/ \E again : Finish(o, again)
    BY <1>12 DEF DeleteJob, ListVs, DeleteVs, CleanupFailed
  <2>2. w[o].pc \in {"delete_jobs", "list_vs", "delete_vs"}
    BY <1>12 DEF DeleteJob, ListVs, DeleteVs
  <2>3. w[o].snap.deleting => AfterVs(w[o].snap) # "patch" /\ AfterJobs(w[o].snap) # "patch"
    BY DEF AfterVs, AfterJobs, is_being_deleted
  <2>4. ~w[o].snap.deleting => w[o].patch.phase \in Terminal
    BY <1>1, <2>2 DEF Says, Keeps
  <2>5. ~w[o].snap.deleting
    BY <1>3, <2>1, <2>3 DEF Goto
  <2>6. w'[o].patch = w[o].patch
    BY <1>1, <1>3, <2>1, Moved DEF Goto
  <2> QED
    BY <2>4, <2>5, <2>6 DEF Terminal
<1>13. [w[o].patch EXCEPT !.startedAt = clock].startedAt = clock
  BY <1>1 DEF StatusType
<1>14. ASSUME CreateVs(o)
       PROVE  w'[o].patch.startedAt = clock /\ vs' # {}
  BY <1>3, <1>13, <1>14 DEF CreateVs, Applied
<1>15. ASSUME CreateJob(o)
       PROVE  w'[o].patch.startedAt = clock /\ \E n \in Nodes : Live(n)'
  <2>1. PICK n \in w[o].jobs, r \in Answers :
          /\ jobs' = IF Applied(r) /\ jobs[n] = "absent"
                     THEN [jobs EXCEPT ![n] = "active"] ELSE jobs
          /\ IF r # "ok" THEN Finish(o, TRUE)
             ELSE IF w[o].jobs = {n}
             THEN GotoPatch(o, [w[o].patch EXCEPT !.startedAt = clock])
             ELSE Continue(o, "create_jobs", w[o].jobs \ {n}, {}, w[o].patch)
    BY <1>15 DEF CreateJob
  <2>2. r = "ok" /\ GotoPatch(o, [w[o].patch EXCEPT !.startedAt = clock])
    BY <1>3, <2>1
  <2>3. n \in Nodes /\ jobs \in [Nodes -> JobStates]
    BY <1>1, WorkerFields DEF TypeOK, ChainInv
  <2>4. Live(n)'
    BY <2>1, <2>2, <2>3 DEF Live, Applied
  <2> QED
    BY <1>3, <1>13, <2>2, <2>3, <2>4
<1> QED
  BY <1>5, <1>6, <1>7, <1>8, <1>9, <1>10, <1>11, <1>12, <1>14, <1>15 DEF BeginAny, Call

LEMMA HistNext ==
    ASSUME ReadsItsWrites, ChainInv, RecordInv, FreshInv, HistInv,
           [HistoryNext]_historyVars
    PROVE  HistInv'
<1>1. TypeOK /\ [Next]_vars
  BY DEF ChainInv, TypeInv, HistoryNext, historyVars, vars
<1>2. clock \in Nat /\ clock' \in Nat /\ clock <= clock'
  BY <1>1, StoredStatus
<1>3. CASE UNCHANGED historyVars
  BY <1>3 DEF HistInv, historyVars, vars, Live
<1>4. ASSUME HistoryNext
      PROVE  HistInv'
  <2>1. injectedAt' = IF injectedAt = NoTime /\ PutsIn THEN clock ELSE injectedAt
    BY <1>4 DEF HistoryNext
  <2>2. injectedAt' \in Nat \cup {NoTime} /\ injectedAt' <= clock /\ injectedAt' <= clock'
    BY <1>2, <2>1 DEF HistInv, NoTime
  <2>3. vs' # {} \/ (\E n \in Nodes : Live(n)') => injectedAt' # NoTime
    BY <1>2, <2>1 DEF HistInv, PutsIn, Live, NoTime
  <2>4. injectedAt # NoTime => injectedAt' = injectedAt
    BY <2>1
  <2>5. ASSUME NEW o \in Operators, w'[o].pc = "patch", w'[o].patch.phase = "Running"
        PROVE  injectedAt' # NoTime /\ injectedAt' <= w'[o].patch.startedAt
    <3>1. CASE w'[o] = w[o]
      BY <2>4, <2>5, <3>1 DEF HistInv
    <3>2. CASE (BeginAny(o) \/ Call(o)) /\ w' # w
      <4>1. w'[o].patch.startedAt = clock /\ (vs' # {} \/ \E n \in Nodes : Live(n)')
        BY <2>5, <3>2, StartSteps
      <4> QED
        BY <2>2, <2>3, <4>1
    <3>3. CASE (\E x \in Operators : Watch(x) \/ Crash(x)) \/ Cluster \/ UNCHANGED vars
      BY <1>1, <2>5, <3>1, <3>3, Surroundings, Moved
    <3> QED
      BY <1>1, <3>1, <3>2, <3>3 DEF Next, ReadsItsWrites
  <2> QED
    BY <2>2, <2>3, <2>5 DEF HistInv
<1> QED
  BY <1>3, <1>4

-----------------------------------------------------------------------------
(* Every step is one of ExperimentHistory, or invisible in it.             *)

\* The records of an experiment as the reports see it.
View == [exists: BOOLEAN, gen: {1}, phase: Phases,
         startedAt: Nat \cup {NoTime}, completedAt: Nat \cup {NoTime}]

LEMMA SameView ==
    ASSUME NEW r \in View, NEW q \in View, r.exists = q.exists, r.gen = q.gen,
           r.phase = q.phase, r.startedAt = q.startedAt, r.completedAt = q.completedAt
    PROVE  r = q
BY DEF View

LEMMA SeenView ==
    /\ exp \in Object => Seen \in View
    /\ exp' \in Object => Seen' \in View
    /\ Seen.exists = exp.exists /\ Seen.gen = 1 /\ Seen.phase = exp.status.phase
    /\ Seen.startedAt = exp.status.startedAt
    /\ Seen.completedAt = exp.status.completedAt
    /\ Seen'.exists = exp'.exists /\ Seen'.gen = 1 /\ Seen'.phase = exp'.status.phase
    /\ Seen'.startedAt = exp'.status.startedAt
    /\ Seen'.completedAt = exp'.status.completedAt
BY DEF Seen, View, Object, ObjectType, StatusType

\* The versions that ExperimentHistory's actions store.
LEMMA Versions ==
    ASSUME exp \in Object, exp' \in Object
    PROVE  /\ /\ exp'.exists = exp.exists /\ exp'.status.phase = "Failed"
              /\ exp'.status.startedAt = exp.status.startedAt
              /\ exp'.status.completedAt = exp.status.completedAt
              => Seen' = [Seen EXCEPT !.phase = "Failed"]
           /\ \A t \in Nat :
                /\ exp'.exists = exp.exists /\ exp'.status.phase = "Running"
                /\ exp'.status.startedAt = t
                /\ exp'.status.completedAt = exp.status.completedAt
                => Seen' = [Seen EXCEPT !.phase = "Running", !.startedAt = t]
           /\ \A t \in Nat, p \in Terminal :
                /\ exp'.exists = exp.exists /\ exp'.status.phase = p
                /\ exp'.status.startedAt = exp.status.startedAt
                /\ exp'.status.completedAt = t
                => Seen' = [Seen EXCEPT !.phase = p, !.completedAt = t]
           /\ ~exp'.exists /\ exp'.status = exp.status =>
                Seen' = [Seen EXCEPT !.exists = FALSE]
           /\ /\ exp'.exists = exp.exists /\ exp'.status.phase = exp.status.phase
              /\ exp'.status.startedAt = exp.status.startedAt
              /\ exp'.status.completedAt = exp.status.completedAt
              => Seen' = Seen
<1>1. Seen \in View /\ Seen' \in View
  BY SeenView
<1>2. ASSUME NEW t \in Nat, NEW p \in Phases
      PROVE  /\ LET q == [Seen EXCEPT !.phase = p]
                IN  /\ q \in View /\ q.exists = Seen.exists /\ q.gen = Seen.gen
                    /\ q.phase = p /\ q.startedAt = Seen.startedAt
                    /\ q.completedAt = Seen.completedAt
             /\ LET q == [Seen EXCEPT !.phase = p, !.startedAt = t]
                IN  /\ q \in View /\ q.exists = Seen.exists /\ q.gen = Seen.gen
                    /\ q.phase = p /\ q.startedAt = t
                    /\ q.completedAt = Seen.completedAt
             /\ LET q == [Seen EXCEPT !.phase = p, !.completedAt = t]
                IN  /\ q \in View /\ q.exists = Seen.exists /\ q.gen = Seen.gen
                    /\ q.phase = p /\ q.startedAt = Seen.startedAt
                    /\ q.completedAt = t
             /\ LET q == [Seen EXCEPT !.exists = FALSE]
                IN  /\ q \in View /\ q.exists = FALSE /\ q.gen = Seen.gen
                    /\ q.phase = Seen.phase /\ q.startedAt = Seen.startedAt
                    /\ q.completedAt = Seen.completedAt
  BY <1>1 DEF View
<1>3. exp.exists \in BOOLEAN /\ exp'.exists \in BOOLEAN
  BY DEF Object, ObjectType
<1>4. "Failed" \in Phases /\ "Running" \in Phases /\ Terminal \subseteq Phases /\ 0 \in Nat
  BY DEF Phases, Terminal
<1>5. ASSUME exp'.exists = exp.exists, exp'.status.phase = "Failed",
             exp'.status.startedAt = exp.status.startedAt,
             exp'.status.completedAt = exp.status.completedAt
      PROVE  Seen' = [Seen EXCEPT !.phase = "Failed"]
  <2> DEFINE q == [Seen EXCEPT !.phase = "Failed"]
  <2>1. /\ q \in View /\ q.exists = Seen.exists /\ q.gen = Seen.gen
        /\ q.phase = "Failed" /\ q.startedAt = Seen.startedAt
        /\ q.completedAt = Seen.completedAt
    BY <1>2, <1>4
  <2> HIDE DEF q
  <2>2. Seen' = q
    BY <1>1, <1>5, <2>1, SeenView, SameView
  <2> QED
    BY <2>2 DEF q
<1>6. ASSUME NEW t \in Nat, exp'.exists = exp.exists, exp'.status.phase = "Running",
             exp'.status.startedAt = t, exp'.status.completedAt = exp.status.completedAt
      PROVE  Seen' = [Seen EXCEPT !.phase = "Running", !.startedAt = t]
  <2> DEFINE q == [Seen EXCEPT !.phase = "Running", !.startedAt = t]
  <2>1. /\ q \in View /\ q.exists = Seen.exists /\ q.gen = Seen.gen
        /\ q.phase = "Running" /\ q.startedAt = t /\ q.completedAt = Seen.completedAt
    BY <1>2, <1>4
  <2> HIDE DEF q
  <2>2. Seen' = q
    BY <1>1, <1>6, <2>1, SeenView, SameView
  <2> QED
    BY <2>2 DEF q
<1>7. ASSUME NEW t \in Nat, NEW p \in Terminal,
             exp'.exists = exp.exists, exp'.status.phase = p,
             exp'.status.startedAt = exp.status.startedAt, exp'.status.completedAt = t
      PROVE  Seen' = [Seen EXCEPT !.phase = p, !.completedAt = t]
  <2> DEFINE q == [Seen EXCEPT !.phase = p, !.completedAt = t]
  <2>1. /\ q \in View /\ q.exists = Seen.exists /\ q.gen = Seen.gen
        /\ q.phase = p /\ q.startedAt = Seen.startedAt /\ q.completedAt = t
    BY <1>2, <1>4
  <2> HIDE DEF q
  <2>2. Seen' = q
    BY <1>1, <1>7, <2>1, SeenView, SameView
  <2> QED
    BY <2>2 DEF q
<1>8. ASSUME ~exp'.exists, exp'.status = exp.status
      PROVE  Seen' = [Seen EXCEPT !.exists = FALSE]
  <2> DEFINE q == [Seen EXCEPT !.exists = FALSE]
  <2>1. /\ q \in View /\ q.exists = FALSE /\ q.gen = Seen.gen
        /\ q.phase = Seen.phase /\ q.startedAt = Seen.startedAt
        /\ q.completedAt = Seen.completedAt
    BY <1>2, <1>4
  <2> HIDE DEF q
  <2>2. Seen' = q
    BY <1>1, <1>3, <1>8, <2>1, SeenView, SameView
  <2> QED
    BY <2>2 DEF q
<1>9. ASSUME exp'.exists = exp.exists, exp'.status.phase = exp.status.phase,
             exp'.status.startedAt = exp.status.startedAt,
             exp'.status.completedAt = exp.status.completedAt
      PROVE  Seen' = Seen
  BY <1>1, <1>9, SeenView, SameView
<1> QED
  BY <1>5, <1>6, <1>7, <1>8, <1>9

LEMMA HistoryStart == HistoryInit => History!Init
<1> SUFFICES ASSUME HistoryInit PROVE History!Init
  OBVIOUS
<1>1. /\ exp.exists /\ exp.status.phase = "Pending" /\ exp.status.startedAt = NoTime
      /\ exp.status.completedAt = NoTime /\ clock = 0 /\ injectedAt = NoTime
  BY DEF HistoryInit, Init, NewExperiment, DefaultStatus
<1>2. Seen = History!NewExperiment(1)
  BY <1>1 DEF Seen, NoTime, History!NewExperiment, History!NoTime
<1>3. <<injectedAt>> = [g \in 1..1 |-> History!NoTime]
  BY <1>1 DEF NoTime, History!NoTime
<1> QED
  BY <1>1, <1>2, <1>3 DEF History!Init

\* The status patches: start, reject, end, or nothing new.
LEMMA PatchStep ==
    ASSUME ReadsItsWrites, ChainInv, ChainInv', FreshInv, HistInv,
           NEW o \in Operators, PatchStatus(o), exp.exists, exp'.exists = exp.exists,
           exp'.status = Merge(exp.status, w[o].patch),
           UNCHANGED <<clock, injectedAt>>
    PROVE  History!Next \/ UNCHANGED Seen
<1>1. /\ exp \in Object /\ exp' \in Object /\ exp.status \in StatusType
      /\ exp.status.startedAt <= clock
      /\ clock \in Nat /\ clock <= MaxClock
  BY BoundAssumption DEF ChainInv, TypeInv, TypeOK, FreshInv, Object, ObjectType
<1>2. /\ w[o].pc = "patch" /\ w[o].patch \in StatusType
      /\ Judges(w[o].patch, exp.status)
  BY WorkerFields DEF PatchStatus, FreshInv, Says, Holds, ChainInv
<1> DEFINE s == exp.status
           p == w[o].patch
           m == exp'.status
<1>3. CASE m.phase = s.phase /\ m.startedAt = s.startedAt /\ m.completedAt = s.completedAt
  BY <1>1, <1>3, Versions
<1>4. CASE /\ s.phase = "Pending" /\ m.phase = "Failed"
           /\ m.startedAt = s.startedAt /\ m.completedAt = s.completedAt
  <2>1. Seen' = [Seen EXCEPT !.phase = "Failed"]
    BY <1>1, <1>4, Versions
  <2>2. Seen.exists /\ Seen.phase = "Pending"
    BY <1>4, SeenView
  <2> QED
    BY <2>1, <2>2 DEF History!Next, History!Reject, History!Unfinished
<1>5. CASE /\ Starts(p, s) /\ m.phase = "Running" /\ m.startedAt = p.startedAt
           /\ m.completedAt = s.completedAt
  <2> DEFINE t == p.startedAt
  <2>1. /\ p.phase = "Running" /\ s.phase = "Pending" /\ t \in 0..clock
        /\ injectedAt # NoTime /\ injectedAt <= t /\ injectedAt \in Nat
    BY <1>2, <1>5 DEF HistInv, Starts
  <2>2. t \in Nat /\ t \in injectedAt..clock /\ t - injectedAt <= MaxClock
    BY <1>1, <2>1, BoundAssumption
  <2>3. Seen' = [Seen EXCEPT !.phase = "Running", !.startedAt = t]
    BY <1>1, <1>5, <2>2, Versions
  <2>4. Seen.exists /\ Seen.phase = "Pending" /\ <<injectedAt>>[Seen.gen] = injectedAt
    BY <2>1 DEF Seen
  <2> HIDE DEF t
  <2> QED
    BY <2>1, <2>2, <2>3, <2>4
       DEF History!Next, History!Start, History!Unfinished, NoTime, History!NoTime
<1>6. CASE /\ s.phase = "Running" /\ m.phase \in Terminal /\ m.startedAt = s.startedAt
           /\ m.completedAt \in 0..clock /\ s.startedAt <= m.completedAt
  <2> DEFINE t == m.completedAt
  <2>1. s.startedAt \in Nat \cup {NoTime}
    BY <1>1 DEF StatusType
  <2>2. t \in Nat /\ t \in s.startedAt..clock
    BY <1>1, <1>6, <2>1 DEF NoTime
  <2>3. Seen' = [Seen EXCEPT !.phase = m.phase, !.completedAt = t]
    BY <1>1, <1>6, <2>2, Versions
  <2>4. Seen.exists /\ Seen.phase = "Running" /\ Seen.startedAt = s.startedAt
    BY <1>6, SeenView
  <2> HIDE DEF t
  <2> QED
    BY <1>6, <2>2, <2>3, <2>4
       DEF History!Next, History!End, Terminal, History!Terminal
<1> QED
  BY <1>1, <1>2, <1>3, <1>4, <1>5, <1>6, Judged

LEMMA HistoryStep ==
    ASSUME ReadsItsWrites, ChainInv, ChainInv', AllowedInv, FreshInv, HistInv,
           [HistoryNext]_historyVars
    PROVE  [History!Next]_(History!vars)
<1>1. TypeOK /\ [Next]_vars /\ exp \in Object /\ exp' \in Object
  BY DEF ChainInv, TypeInv, TypeOK, HistoryNext, historyVars, vars
<1> DEFINE Step == History!Next \/ UNCHANGED <<Seen, clock, injectedAt>>
<1>2. Step => [History!Next]_(History!vars)
  BY DEF History!vars
<1> HIDE DEF Step
<1>3. ASSUME UNCHANGED historyVars
      PROVE  Step
  BY <1>3 DEF historyVars, vars, Seen, Step
<1>4. ASSUME HistoryNext, PutsIn
      PROVE  Step
  <2>1. exp' = exp /\ clock' = clock
    <3>1. ~UNCHANGED <<jobs, vs>>
      BY <1>4 DEF PutsIn
    <3> QED
      BY <1>1, <3>1, OneThing
  <2>2. PICK o \in Operators : w[o].pc \in {"create_vs", "create_jobs"}
    BY <1>1, <1>4, NewInCluster DEF PutsIn, Live
  <2>3. exp.exists /\ exp.status.phase = "Pending"
    BY <2>2 DEF FreshInv, Holds, Says
  <2>4. Seen' = Seen /\ Seen.exists /\ Seen.phase = "Pending"
    BY <2>1, <2>3 DEF Seen
  <2>5. CASE injectedAt = NoTime
    <3>1. injectedAt' = clock
      BY <1>4, <2>5 DEF HistoryNext
    <3>2. /\ <<injectedAt>>[Seen.gen] = History!NoTime
          /\ <<injectedAt>>' = [<<injectedAt>> EXCEPT ![Seen.gen] = clock]
      BY <2>5, <3>1 DEF Seen, NoTime, History!NoTime
    <3> QED
      BY <2>1, <2>4, <3>2 DEF Step, History!Next, History!Inject
  <2>6. CASE injectedAt # NoTime
    BY <1>4, <2>1, <2>4, <2>6 DEF HistoryNext, Step
  <2> QED
    BY <2>5, <2>6
<1>5. ASSUME HistoryNext, ~PutsIn
      PROVE  Step
  <2>1. injectedAt' = injectedAt
    BY <1>5 DEF HistoryNext
  <2>2. CASE exp' = exp /\ clock' = clock
    BY <2>1, <2>2 DEF Step, Seen
  <2>3. CASE exp' = exp /\ clock' = clock + 1
    <3>1. Seen' = Seen
      BY <2>3 DEF Seen
    <3> QED
      BY <2>1, <2>3, <3>1 DEF Step, History!Next, History!Tick
  <2>4. CASE exp' # exp /\ clock' = clock
    <3>1. ASSUME NEW o \in Operators, PatchStatus(o), exp.exists, exp'.exists,
                 exp'.status = Merge(exp.status, w[o].patch)
          PROVE  Step
      <4>1. exp'.exists = exp.exists
        BY <1>1, <3>1 DEF Object, ObjectType
      <4> QED
        BY <2>1, <2>4, <3>1, <4>1, PatchStep DEF Step
    <3>2. CASE exp'.status = exp.status /\ exp'.exists = exp.exists
      <4>1. Seen' = Seen
        BY <3>2 DEF Seen
      <4> QED
        BY <2>1, <2>4, <4>1 DEF Step
    <3>3. CASE exp'.status = exp.status /\ exp'.exists # exp.exists
      <4>1. exp.exists /\ ~exp'.exists
        BY <1>1, <3>3, StoredStatus DEF Object, ObjectType
      <4>2. Seen' = [Seen EXCEPT !.exists = FALSE] /\ Seen.exists
        BY <1>1, <3>3, <4>1, Versions, SeenView
      <4> QED
        BY <2>1, <2>4, <4>2 DEF Step, History!Next, History!Delete
    <3> QED
      BY <1>1, <3>1, <3>2, <3>3, StoredStatus
  <2> QED
    BY <1>1, <2>2, <2>3, <2>4, OneThing
<1> QED
  BY <1>2, <1>3, <1>4, <1>5 DEF HistoryNext

\* A single operator that reads its own writes implements ExperimentHistory:
\* whatever calls fail, answers are lost and specs are edited, the times in the
\* status come in the order of what they record.
THEOREM HistoryImplemented == ReadsItsWrites => (HistorySpec => ImplementsHistory)
<1> SUFFICES ASSUME ReadsItsWrites PROVE HistorySpec => History!Spec
  BY DEF ImplementsHistory
<1>1. HistoryInit => Init /\ HistInv
  <2> SUFFICES ASSUME HistoryInit PROVE HistInv
    BY DEF HistoryInit
  <2>1. \A o \in Operators : w[o].pc = "idle"
    BY DEF HistoryInit, Init, IdleWorker
  <2>2. injectedAt = NoTime /\ clock = 0 /\ vs = {} /\ \A n \in Nodes : ~Live(n)
    BY DEF HistoryInit, Init, Live
  <2> QED
    BY <2>1, <2>2 DEF HistInv, NoTime
<1>2. [HistoryNext]_historyVars => [Next]_vars
  BY DEF HistoryNext, historyVars, vars
<1>3. HistorySpec => Spec
  BY <1>1, <1>2, PTL DEF HistorySpec, Spec
<1>4. HistorySpec => [](ChainInv /\ RecordInv /\ AllowedInv /\ FreshInv)
  BY <1>3, ChainCorrect, RecordCorrect, AllowedCorrect, FreshCorrect, PTL
<1>5. ChainInv /\ RecordInv /\ FreshInv /\ HistInv /\ [HistoryNext]_historyVars =>
        HistInv'
  BY HistNext
<1>6. HistorySpec => []HistInv
  BY <1>1, <1>4, <1>5, PTL DEF HistorySpec
<1>7. ChainInv /\ ChainInv' /\ AllowedInv /\ FreshInv /\ HistInv
        /\ [HistoryNext]_historyVars => [History!Next]_(History!vars)
  BY HistoryStep
<1> QED
  BY <1>4, <1>6, <1>7, HistoryStart, PTL DEF HistorySpec, History!Spec
=============================================================================
