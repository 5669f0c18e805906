----------------------- MODULE SharedNamespaceProofs -----------------------
(***************************************************************************)
(* Theorems about SharedNamespace, for any slots, users' VirtualServices,  *)
(* worlds, names and bounds.                                               *)
(***************************************************************************)
EXTENDS SharedNamespace, TLAPS, WellFoundedInduction

-----------------------------------------------------------------------------
(* Type correctness: a VirtualService is the one of an experiment or a     *)
(* user's.                                                                 *)

TypeInv ==
    /\ TypeOK
    /\ \A v \in mesh : IF v.managed THEN v.uid \in Uids /\ v.name = VsName[v.uid]
                       ELSE v \in UserVs
    /\ \A s \in Slots : w[s].pc # "idle" => w[s].uid \in Uids

\* The reconcile of slot s moves and no other does.
Moved(s, pc, uid, deletes, todo, phase, cleaned) ==
    /\ w' \in [Slots -> Worker]
    /\ w'[s].pc = pc /\ w'[s].uid = uid /\ w'[s].deletes = deletes
    /\ w'[s].todo = todo /\ w'[s].phase = phase /\ w'[s].cleaned = cleaned
    /\ \A t \in Slots : t # s => w'[t] = w[t]

Names == {VsName[u] : u \in Uids}

To(s, pc) == Moved(s, pc, w[s].uid, w[s].deletes, {}, w[s].phase, w[s].cleaned)
ToPatch(s, p) == Moved(s, "patch", w[s].uid, w[s].deletes, w[s].todo, p, w[s].cleaned)
ToIdle(s) == Moved(s, "idle", NoUid, FALSE, {}, "Pending", FALSE)
ToDelete(s, T) ==
    Moved(s, "delete_vs", w[s].uid, w[s].deletes, T, w[s].phase, w[s].cleaned)

\* The helpers that every handler ends with.
LEMMA Moves ==
    ASSUME w \in [Slots -> Worker], NEW s \in Slots
    PROVE  /\ \A pc \in Steps : Goto(s, pc) => To(s, pc)
           /\ \A p \in Phases : GotoPatch(s, p) => ToPatch(s, p)
           /\ Finish(s) => ToIdle(s)
           /\ \A T \in SUBSET Names :
                w' = [w EXCEPT ![s].pc = "delete_vs", ![s].todo = T] => ToDelete(s, T)
           /\ \A n : w[s].pc = "delete_vs" /\ w' = [w EXCEPT ![s].todo = @ \ {n}] =>
                ToDelete(s, w[s].todo \ {n})
<1>1. ASSUME NEW pc \in Steps, Goto(s, pc)
      PROVE  To(s, pc)
  BY <1>1 DEF Goto, To, Moved, Worker
<1>2. ASSUME NEW p \in Phases, GotoPatch(s, p)
      PROVE  ToPatch(s, p)
  BY <1>2 DEF GotoPatch, ToPatch, Moved, Worker, Steps
<1>3. ASSUME Finish(s)
      PROVE  ToIdle(s)
  BY <1>3 DEF Finish, ToIdle, Moved, Worker, IdleWorker, Steps, Phases
<1>4. ASSUME NEW T \in SUBSET Names,
             w' = [w EXCEPT ![s].pc = "delete_vs", ![s].todo = T]
      PROVE  ToDelete(s, T)
  BY <1>4 DEF ToDelete, Moved, Worker, Steps, Names
<1>5. ASSUME NEW n, w[s].pc = "delete_vs", w' = [w EXCEPT ![s].todo = @ \ {n}]
      PROVE  ToDelete(s, w[s].todo \ {n})
  BY <1>5 DEF ToDelete, Moved, Worker
<1> QED
  BY <1>1, <1>2, <1>3, <1>4, <1>5

LEMMA Begins ==
    ASSUME w \in [Slots -> Worker], exp \in [Uids -> Object], NEW s \in Slots,
           NEW u \in Uids, NEW pc \in Steps, NEW phase \in Phases, NEW cleaned \in BOOLEAN,
           Begin(s, u, pc, phase, cleaned)
    PROVE  Moved(s, pc, u, exp[u].deleting, {}, phase, cleaned)
BY DEF Begin, Moved, Worker, Object

LEMMA SelectedType ==
    ASSUME TypeInv, NEW s \in Slots
    PROVE  Selected(s) \subseteq Names
BY DEF TypeInv, Selected, InNs, Names

\* Where each call may lead.
LEMMA CallMoves ==
    ASSUME TypeInv, NEW s \in Slots
    PROVE  /\ AddFinalizer(s) \/ RemoveFinalizer(s) \/ PatchStatus(s) => ToIdle(s)
           /\ GetSelector(s) => To(s, "conflicts") \/ ToPatch(s, "Failed")
           /\ ListConflicts(s) => To(s, "edge") \/ ToPatch(s, "Failed") \/ ToIdle(s)
           /\ ResolveEdge(s) => To(s, "create_vs") \/ ToPatch(s, "Failed")
           /\ CreateVs(s) => ToPatch(s, "Running") \/ ToIdle(s)
           /\ ListVs(s) \/ DeleteVs(s) =>
                \/ To(s, AfterVs(s))
                \/ w[s].deletes /\ To(s, "remove_finalizer")
                \/ ~w[s].deletes /\ ToIdle(s)
                \/ \E T \in SUBSET Names : ToDelete(s, T)
<1>0. w \in [Slots -> Worker] /\ Selected(s) \in SUBSET Names
  BY SelectedType DEF TypeInv, TypeOK
<1>1. ASSUME GetSelector(s) PROVE To(s, "conflicts") \/ ToPatch(s, "Failed")
  BY <1>0, <1>1, Moves DEF GetSelector, Steps, Phases
<1>2. ASSUME ListConflicts(s) PROVE To(s, "edge") \/ ToPatch(s, "Failed") \/ ToIdle(s)
  BY <1>0, <1>2, Moves DEF ListConflicts, Steps, Phases
<1>3. ASSUME ResolveEdge(s) PROVE To(s, "create_vs") \/ ToPatch(s, "Failed")
  BY <1>0, <1>3, Moves DEF ResolveEdge, Steps, Phases
<1>4. ASSUME CreateVs(s) PROVE ToPatch(s, "Running") \/ ToIdle(s)
  BY <1>0, <1>4, Moves DEF CreateVs, Phases
<1>5. ASSUME CleanupFailed(s)
      PROVE  \/ w[s].deletes /\ To(s, "remove_finalizer")
             \/ ~w[s].deletes /\ ToIdle(s)
  BY <1>0, <1>5, Moves DEF CleanupFailed, Steps
<1>6. ASSUME Goto(s, AfterVs(s)) PROVE To(s, AfterVs(s))
  BY <1>0, <1>6, Moves DEF AfterVs, Steps
<1>7. ASSUME ListVs(s)
      PROVE  \/ To(s, AfterVs(s)) \/ CleanupFailed(s)
             \/ \E T \in SUBSET Names : ToDelete(s, T)
  BY <1>0, <1>6, <1>7, Moves DEF ListVs
<1>8. ASSUME DeleteVs(s)
      PROVE  \/ To(s, AfterVs(s)) \/ CleanupFailed(s)
             \/ \E T \in SUBSET Names : ToDelete(s, T)
  <2>1. w[s].pc = "delete_vs" /\ \A n : w[s].todo \ {n} \in SUBSET Names
    BY <1>0, <1>8 DEF DeleteVs, Worker, Names
  <2>2. PICK n : \/ CleanupFailed(s) \/ Goto(s, AfterVs(s))
                 \/ w' = [w EXCEPT ![s].todo = @ \ {n}]
    BY <1>8 DEF DeleteVs
  <2>3. w' = [w EXCEPT ![s].todo = @ \ {n}] => ToDelete(s, w[s].todo \ {n})
    BY <1>0, <2>1, Moves
  <2> QED
    BY <1>6, <2>1, <2>2, <2>3
<1> QED
  BY <1>0, <1>1, <1>2, <1>3, <1>4, <1>5, <1>7, <1>8, Moves
     DEF AddFinalizer, RemoveFinalizer, PatchStatus

\* An object keeps its type.
LEMMA ObjectType ==
    ASSUME NEW o \in Object
    PROVE  /\ Gone(o) \in Object
           /\ \A b \in BOOLEAN : [o EXCEPT !.finalizer = b] \in Object
           /\ [o EXCEPT !.deleting = TRUE] \in Object
           /\ \A p \in Phases, b \in BOOLEAN :
                [o EXCEPT !.phase = p, !.cleaned = b] \in Object
           /\ \A s \in Slots : [Unborn EXCEPT !.state = "stored", !.slot = s] \in Object
BY DEF Object, Gone, Unborn, NoSlot, Phases

LEMMA TypeInit == Init => TypeInv
BY UserVsAssumption, BoundAssumption
   DEF Init, TypeInv, TypeOK, VsType, Object, Unborn, Worker, IdleWorker, Phases, Steps,
       Uids, NoUid

LEMMA ChargeType == ASSUME TypeOK, NEW r, Charge(r), UNCHANGED crashes
                    PROVE  errors' \in Nat /\ crashes' \in Nat
                           /\ errors' + crashes' <= MaxFaults
BY BoundAssumption DEF TypeOK, Charge

\* What a call leaves alone.
LEMMA CallFrame ==
    ASSUME NEW s \in Slots, Call(s)
    PROVE  /\ w[s].pc # "idle"
           /\ UNCHANGED <<world, held, seen, crashes>>
           /\ UNCHANGED errors \/ \E r : Charge(r)
           /\ (UNCHANGED exp) \/ AddFinalizer(s) \/ RemoveFinalizer(s) \/ PatchStatus(s)
           /\ (UNCHANGED mesh) \/ CreateVs(s) \/ DeleteVs(s)
BY DEF Call, AddFinalizer, RemoveFinalizer, PatchStatus, GetSelector, ListConflicts,
       ResolveEdge, CreateVs, ListVs, DeleteVs, history

LEMMA TypeCall == ASSUME TypeInv, NEW s \in Slots, Call(s) PROVE TypeInv'
<1>1. /\ w' \in [Slots -> Worker]
      /\ w'[s].pc # "idle" => w'[s].uid = w[s].uid
      /\ \A t \in Slots : t # s => w'[t] = w[t]
  BY CallMoves DEF Call, To, ToPatch, ToIdle, ToDelete, Moved
<1>2. w[s].pc # "idle" /\ w[s].uid \in Uids
  BY CallFrame DEF TypeInv
<1>3. errors' \in Nat /\ crashes' \in Nat /\ errors' + crashes' <= MaxFaults
  BY CallFrame, ChargeType DEF TypeInv, TypeOK
<1>4. exp' \in [Uids -> Object]
  <2>0. /\ exp \in [Uids -> Object]
        /\ w[s].phase \in Phases /\ w[s].cleaned \in BOOLEAN
    BY DEF TypeInv, TypeOK, Worker
  <2>1. CASE AddFinalizer(s)
    BY <2>0, <2>1, ObjectType DEF AddFinalizer
  <2>2. CASE RemoveFinalizer(s)
    BY <2>0, <2>2, ObjectType DEF RemoveFinalizer
  <2>3. CASE PatchStatus(s)
    <3>1. \A u \in Uids : [exp[u] EXCEPT !.phase = w[s].phase, !.cleaned = w[s].cleaned]
                           \in Object
      BY <2>0, ObjectType
    <3> QED
      BY <2>0, <2>3, <3>1 DEF PatchStatus
  <2> QED
    BY <2>0, <2>1, <2>2, <2>3, CallFrame
<1>5. \A v \in mesh' : /\ VsType(v)
                       /\ IF v.managed THEN v.uid \in Uids /\ v.name = VsName[v.uid]
                          ELSE v \in UserVs
  <2>1. CASE CreateVs(s)
    <3> DEFINE v == build_virtual_service(s, w[s].uid)
    <3>1. VsType(v) /\ v.managed /\ v.uid \in Uids /\ v.name = VsName[v.uid]
      BY <1>2 DEF build_virtual_service, VsType
    <3>2. mesh' \subseteq mesh \cup {v}
      BY <2>1 DEF CreateVs
    <3> QED
      BY <3>1, <3>2 DEF TypeInv, TypeOK
  <2>2. CASE DeleteVs(s)
    BY <2>2 DEF DeleteVs, TypeInv, TypeOK
  <2> QED
    BY <2>1, <2>2, CallFrame DEF TypeInv, TypeOK
<1> QED
  BY <1>1, <1>2, <1>3, <1>4, <1>5, CallFrame DEF TypeInv, TypeOK

LEMMA TypeReconcile == ASSUME TypeInv, NEW s \in Slots, Reconcile(s) PROVE TypeInv'
<1>1. PICK u \in Uids, pc \in Steps, phase \in Phases, cleaned \in BOOLEAN :
          Begin(s, u, pc, phase, cleaned)
  BY DEF Reconcile, Current, Steps, Phases, TypeInv, TypeOK, Object
<1>2. Moved(s, pc, u, exp[u].deleting, {}, phase, cleaned)
  BY <1>1, Begins DEF TypeInv, TypeOK
<1> QED
  BY <1>1, <1>2 DEF Moved, Begin, TypeInv, TypeOK, history, budget

LEMMA ForeignType ==
    ASSUME TypeInv, NEW s \in Slots
    PROVE  Foreign(s) \in SUBSET UserVs
BY DEF TypeInv, Foreign, InNs

LEMMA TypeSurroundings ==
    ASSUME TypeInv,
           \/ \E s \in Slots : Apply(s) \/ Delete(s)
           \/ \E v \in UserVs : UserCreates(v) \/ UserDeletes(v)
           \/ \E v \in mesh : Collect(v)
           \/ Crash
    PROVE  TypeInv'
<1>1. ASSUME NEW s \in Slots, Apply(s) PROVE TypeInv'
  <2>1. exp' \in [Uids -> Object]
    BY <1>1, ObjectType DEF Apply, TypeInv, TypeOK
  <2>2. held' \in [Slots -> SUBSET UserVs] /\ seen' \in [Slots -> SUBSET UserVs]
        /\ \A t \in Slots : held'[t] \subseteq seen'[t]
    BY <1>1, ForeignType DEF Apply, TypeInv, TypeOK
  <2> QED
    BY <1>1, <2>1, <2>2 DEF Apply, TypeInv, TypeOK, budget
<1>2. ASSUME NEW s \in Slots, Delete(s) PROVE TypeInv'
  <2>1. PICK u \in Uids : exp' = [exp EXCEPT ![u] =
                 IF exp[u].finalizer THEN [exp[u] EXCEPT !.deleting = TRUE] ELSE Gone(exp[u])]
    BY <1>2 DEF Delete, Current
  <2>2. exp[u] \in Object /\ exp \in [Uids -> Object]
    BY DEF TypeInv, TypeOK
  <2>3. [exp[u] EXCEPT !.deleting = TRUE] \in Object /\ Gone(exp[u]) \in Object
    BY <2>2, ObjectType
  <2>4. exp' \in [Uids -> Object]
    BY <2>1, <2>2, <2>3
  <2> QED
    BY <1>2, <2>4 DEF Delete, TypeInv, TypeOK, history, budget
<1>3. ASSUME NEW v \in UserVs, UserCreates(v) PROVE TypeInv'
  <2>1. seen' \in [Slots -> SUBSET UserVs]
        /\ \A t \in Slots : seen[t] \subseteq seen'[t]
    BY <1>3 DEF UserCreates, TypeInv, TypeOK
  <2>2. VsType(v) /\ ~v.managed
    BY UserVsAssumption
  <2> QED
    BY <1>3, <2>1, <2>2 DEF UserCreates, TypeInv, TypeOK, budget
<1>4. ASSUME NEW v \in UserVs, UserDeletes(v) PROVE TypeInv'
  <2>1. held' \in [Slots -> SUBSET UserVs]
        /\ \A t \in Slots : held'[t] \subseteq held[t]
    BY <1>4 DEF UserDeletes, TypeInv, TypeOK
  <2> QED
    BY <1>4, <2>1 DEF UserDeletes, TypeInv, TypeOK, budget
<1>5. ASSUME NEW v \in mesh, Collect(v) PROVE TypeInv'
  BY <1>5 DEF Collect, TypeInv, TypeOK, history, budget
<1>6. CASE Crash
  <2>1. w' \in [Slots -> Worker] /\ \A s \in Slots : w'[s].pc = "idle"
    BY <1>6 DEF Crash, IdleWorker, Worker, Steps, Phases
  <2> QED
    BY <1>6, <2>1, BoundAssumption DEF Crash, TypeInv, TypeOK, history
<1> QED
  BY <1>1, <1>2, <1>3, <1>4, <1>5, <1>6

LEMMA TypeNext == TypeInv /\ [Next]_vars => TypeInv'
<1> SUFFICES ASSUME TypeInv, [Next]_vars PROVE TypeInv'
  OBVIOUS
<1>1. CASE UNCHANGED vars
  BY <1>1 DEF vars, TypeInv, TypeOK
<1> QED
  BY <1>1, TypeCall, TypeReconcile, TypeSurroundings DEF Next

\* Every VirtualService is an experiment's, under the name of its uid, or a
\* user's; a reconcile works on an experiment that was applied; the steps, phases
\* and names it carries are those of the code; the budget is kept.
THEOREM TypeCorrect == Spec => []TypeOK
<1>1. TypeInv => TypeOK
  BY DEF TypeInv
<1> QED
  BY <1>1, TypeInit, TypeNext, PTL DEF Spec

-----------------------------------------------------------------------------
(* Control: what a reconcile in progress may rely on.  The object of its   *)
(* snapshot stays stored while it is busy with it, and only it changes the *)
(* phase.                                                                  *)

Injecting == {"selector", "conflicts", "edge", "create_vs"}
Cleaning == {"list_vs", "delete_vs", "remove_finalizer"}
Busy == Steps \ {"idle", "add_finalizer"}

Stored(u) == exp[u].state = "stored"

ObjectInv(o) ==
    /\ o.state = "unborn" => o = Unborn
    /\ o.state = "gone" => ~o.deleting /\ o.phase = "Pending"
    /\ o.state = "stored" => o.slot \in Slots /\ (o.cleaned => o.phase \in Terminal)

OneEach == \A u, x \in Uids :
    Stored(u) /\ Stored(x) /\ exp[u].slot = exp[x].slot => u = x

\* The phases a status patch writes, from the phase of the object.
Transitions == {<<"Pending", "Failed">>, <<"Pending", "Running">>, <<"Running", "Succeeded">>}

WorkOn(k, o, s) ==
    /\ k.pc \in Busy => o.state = "stored" /\ o.slot = s /\ o.finalizer
    /\ k.pc \in Injecting => o.phase = "Pending" /\ ~k.deletes /\ ~k.cleaned
    /\ k.pc \in Cleaning => IF k.deletes THEN o.deleting
                            ELSE o.phase \in Terminal /\ k.phase = o.phase /\ k.cleaned
    /\ k.pc = "remove_finalizer" => k.deletes
    /\ k.pc = "patch" => IF k.cleaned THEN o.phase \in Terminal /\ k.phase = o.phase
                         ELSE <<o.phase, k.phase>> \in Transitions

Work(s) == WorkOn(w[s], exp[w[s].uid], s)

Control == /\ TypeInv /\ OneEach
           /\ \A u \in Uids : ObjectInv(exp[u])
           /\ \A s \in Slots : Work(s)

LEMMA ControlInit == Init => Control
BY TypeInit DEF Init, Control, OneEach, ObjectInv, Unborn, Stored, Work, WorkOn, IdleWorker,
                Busy, Injecting, Cleaning

\* The one object of a slot that a reconcile is busy with.
LEMMA Mine ==
    ASSUME Control, NEW s \in Slots, w[s].pc \in Busy
    PROVE  /\ w[s].uid \in Uids /\ Current(s) = {w[s].uid}
           /\ exp[w[s].uid].finalizer /\ exp[w[s].uid].slot = s /\ Stored(w[s].uid)
<1>1. w[s].uid \in Uids
  BY DEF Control, TypeInv, Busy
<1>2. Stored(w[s].uid) /\ exp[w[s].uid].slot = s /\ exp[w[s].uid].finalizer
  BY DEF Control, Work, WorkOn, Stored
<1>3. \A u \in Uids : Stored(u) /\ exp[u].slot = s => u = w[s].uid
  BY <1>1, <1>2 DEF Control, OneEach
<1> QED
  BY <1>1, <1>2, <1>3 DEF Current, Stored

\* The phase, the state and the slot of the other objects stay.
LEMMA CallObjects ==
    ASSUME Control, NEW s \in Slots, Call(s), NEW u \in Uids
    PROVE  \/ exp'[u] = exp[u]
           \/ /\ u \in Current(s) /\ Stored(u)
              /\ \/ /\ AddFinalizer(s)
                    /\ exp'[u] = [exp[u] EXCEPT !.finalizer = TRUE]
                 \/ /\ PatchStatus(s) /\ u = w[s].uid
                    /\ exp'[u] = [exp[u] EXCEPT !.phase = w[s].phase,
                                                !.cleaned = w[s].cleaned]
                 \/ /\ RemoveFinalizer(s) /\ u = w[s].uid
                    /\ exp'[u] = Gone(exp[u])
<1>0. exp \in [Uids -> Object]
  BY DEF Control, TypeInv, TypeOK
<1>1. CASE AddFinalizer(s)
  BY <1>0, <1>1 DEF AddFinalizer, Patched, Current, Stored
<1>2. CASE PatchStatus(s)
  <2>1. Current(s) = {w[s].uid}
    BY <1>2, Mine DEF PatchStatus, Busy, Steps
  <2> QED
    BY <1>0, <1>2, <2>1 DEF PatchStatus, Patched, Current, Stored
<1>3. CASE RemoveFinalizer(s)
  <2>1. Current(s) = {w[s].uid}
    BY <1>3, Mine DEF RemoveFinalizer, Busy, Steps
  <2>2. exp[w[s].uid].deleting
    BY <1>3 DEF RemoveFinalizer, Control, Work, WorkOn, Cleaning
  <2> QED
    BY <1>0, <1>3, <2>1, <2>2 DEF RemoveFinalizer, Patched, Current, Stored
<1> QED
  BY <1>1, <1>2, <1>3, CallFrame

\* No call applies an object, and none moves one.
LEMMA CallStored ==
    ASSUME Control, NEW s \in Slots, Call(s), NEW u \in Uids
    PROVE  /\ Stored(u)' => Stored(u) /\ exp'[u].slot = exp[u].slot
           /\ exp'[u].state = "unborn" => exp[u].state = "unborn"
<1>1. exp[u] \in Object
  BY DEF Control, TypeInv, TypeOK
<1>2. \/ exp'[u] = exp[u]
      \/ /\ Stored(u)
         /\ \/ exp'[u] = [exp[u] EXCEPT !.finalizer = TRUE]
            \/ exp'[u] = [exp[u] EXCEPT !.phase = w[s].phase, !.cleaned = w[s].cleaned]
            \/ exp'[u] = Gone(exp[u])
  BY CallObjects
<1> QED
  BY <1>1, <1>2 DEF Stored, Object, Gone, Unborn

LEMMA CallOther ==
    ASSUME Control, NEW s \in Slots, Call(s), NEW t \in Slots, t # s
    PROVE  w'[t] = w[t] /\ (w[t].pc \in Busy => exp'[w[t].uid] = exp[w[t].uid])
<1>1. w'[t] = w[t]
  BY CallMoves DEF Control, Call, To, ToPatch, ToIdle, ToDelete, Moved
<1>2. ASSUME w[t].pc \in Busy PROVE exp'[w[t].uid] = exp[w[t].uid]
  <2>1. w[t].uid \in Uids /\ w[t].uid \notin Current(s)
    BY <1>2, Mine DEF Current
  <2> QED
    BY <2>1, CallObjects
<1> QED
  BY <1>1, <1>2

\* What the deletion by a user does.
LEMMA DeleteObjects ==
    ASSUME Control, NEW s \in Slots, Delete(s), NEW u \in Uids
    PROVE  /\ \/ exp'[u] = exp[u]
              \/ /\ Stored(u) /\ exp[u].slot = s /\ exp[u].finalizer
                 /\ exp'[u] = [exp[u] EXCEPT !.deleting = TRUE]
              \/ /\ Stored(u) /\ exp[u].slot = s /\ ~exp[u].finalizer
                 /\ exp'[u] = Gone(exp[u])
           /\ Stored(u)' => Stored(u) /\ exp'[u].slot = exp[u].slot
           /\ exp'[u].state = "unborn" => exp[u].state = "unborn"
<1>1. PICK x \in Current(s) : exp' = [exp EXCEPT ![x] =
               IF exp[x].finalizer THEN [exp[x] EXCEPT !.deleting = TRUE] ELSE Gone(exp[x])]
  BY DEF Delete
<1>2. exp[u] \in Object /\ exp \in [Uids -> Object] /\ x \in Uids
  BY DEF Control, TypeInv, TypeOK, Current
<1>3. \/ exp'[u] = exp[u]
      \/ /\ Stored(u) /\ exp[u].slot = s /\ exp[u].finalizer
         /\ exp'[u] = [exp[u] EXCEPT !.deleting = TRUE]
      \/ /\ Stored(u) /\ exp[u].slot = s /\ ~exp[u].finalizer
         /\ exp'[u] = Gone(exp[u])
  BY <1>1, <1>2 DEF Current, Stored
<1> QED
  BY <1>2, <1>3 DEF Stored, Object, Gone, Unborn

\* A patch keeps what is true of every object.
LEMMA PatchObject ==
    ASSUME NEW o \in Object, o.state = "stored", ObjectInv(o)
    PROVE  /\ ObjectInv([o EXCEPT !.finalizer = TRUE])
           /\ ObjectInv([o EXCEPT !.deleting = TRUE])
           /\ ObjectInv(Gone(o))
           /\ \A p \in Phases, b \in BOOLEAN : (b => p \in Terminal) =>
                ObjectInv([o EXCEPT !.phase = p, !.cleaned = b])
           /\ \A s \in Slots : ObjectInv([Unborn EXCEPT !.state = "stored", !.slot = s])
BY DEF Object, ObjectInv, Gone, Unborn

\* What is recorded as cleaned up has ended.
LEMMA PatchPhase ==
    ASSUME Control, NEW s \in Slots, w[s].pc = "patch", w[s].cleaned
    PROVE  w[s].phase \in Terminal
BY DEF Control, Work, WorkOn

LEMMA ControlCall == ASSUME Control, NEW s \in Slots, Call(s) PROVE Control'
<1>0. /\ exp \in [Uids -> Object] /\ TypeInv /\ TypeInv'
      /\ w[s].phase \in Phases /\ w[s].cleaned \in BOOLEAN
      /\ w[s].uid \in Uids /\ exp[w[s].uid] \in Object
  BY TypeCall, CallFrame DEF Control, TypeInv, TypeOK, Worker
<1>1. ASSUME NEW u \in Uids PROVE ObjectInv(exp'[u])
  <2>1. exp[u] \in Object /\ ObjectInv(exp[u])
    BY <1>0 DEF Control
  <2>2. PatchStatus(s) => (w[s].cleaned => w[s].phase \in Terminal)
    BY PatchPhase DEF PatchStatus
  <2>3. CASE exp'[u] = exp[u]
    BY <2>1, <2>3
  <2>4. CASE exp'[u] # exp[u]
    <3>1. \/ exp'[u] = [exp[u] EXCEPT !.finalizer = TRUE]
          \/ PatchStatus(s) /\ exp'[u] = [exp[u] EXCEPT !.phase = w[s].phase,
                                                       !.cleaned = w[s].cleaned]
          \/ exp'[u] = Gone(exp[u])
      BY <2>4, CallObjects
    <3>2. exp[u].state = "stored"
      BY <2>4, CallObjects DEF Stored
    <3>3. ObjectInv([exp[u] EXCEPT !.finalizer = TRUE]) /\ ObjectInv(Gone(exp[u]))
      BY <2>1, <3>2, PatchObject
    <3>4. PatchStatus(s) =>
            ObjectInv([exp[u] EXCEPT !.phase = w[s].phase, !.cleaned = w[s].cleaned])
      BY <1>0, <2>1, <2>2, <3>2, PatchObject
    <3> QED
      BY <3>1, <3>3, <3>4
  <2> QED
    BY <2>3, <2>4
<1>3. OneEach'
  BY CallStored DEF OneEach, Control
<1>4. ASSUME NEW t \in Slots, t # s PROVE Work(t)'
  BY <1>4, CallOther DEF Control, Work, WorkOn, Busy, Injecting, Cleaning, Steps
<1>5. Work(s)'
  <2> DEFINE o == exp[w[s].uid]
  <2>1. Work(s)
    BY DEF Control
  <2>2. CASE AddFinalizer(s) \/ RemoveFinalizer(s) \/ PatchStatus(s)
    BY <1>0, <2>2, CallMoves DEF ToIdle, Moved, Work, WorkOn, Busy, Injecting, Cleaning
  <2>3. CASE GetSelector(s) \/ ListConflicts(s) \/ ResolveEdge(s) \/ CreateVs(s)
    <3>1. exp' = exp /\ w[s].pc \in Injecting /\ w[s].pc \in Busy
      BY <2>3 DEF GetSelector, ListConflicts, ResolveEdge, CreateVs, Injecting, Busy, Steps
    <3>2. \/ ToIdle(s) \/ \E pc \in Injecting : To(s, pc)
          \/ \E p \in {"Failed", "Running"} : ToPatch(s, p)
      BY <1>0, <2>3, CallMoves DEF Injecting
    <3> QED
      BY <2>1, <3>1, <3>2 DEF ToIdle, To, ToPatch, Moved, Work, WorkOn, Busy, Injecting,
                              Cleaning, Transitions
  <2>4. CASE ListVs(s) \/ DeleteVs(s)
    <3>1. exp' = exp /\ w[s].pc \in {"list_vs", "delete_vs"}
      BY <2>4 DEF ListVs, DeleteVs
    <3>2. \/ ToIdle(s) \/ \E T \in SUBSET Names : ToDelete(s, T)
          \/ w[s].deletes /\ To(s, "remove_finalizer")
          \/ ~w[s].deletes /\ To(s, "patch")
      BY <1>0, <2>4, CallMoves DEF AfterVs
    <3> QED
      BY <2>1, <3>1, <3>2 DEF ToIdle, To, ToDelete, Moved, Work, WorkOn, Busy, Injecting,
                              Cleaning, Steps
  <2> QED
    BY <2>2, <2>3, <2>4 DEF Call
<1> QED
  BY <1>0, <1>1, <1>3, <1>4, <1>5 DEF Control

LEMMA ControlReconcile == ASSUME Control, NEW s \in Slots, Reconcile(s) PROVE Control'
<1>0. TypeInv /\ TypeInv' /\ w \in [Slots -> Worker] /\ exp \in [Uids -> Object]
  BY TypeReconcile DEF Control, TypeInv, TypeOK
<1>1. exp' = exp
  BY DEF Reconcile, Begin
<1>2. PICK u \in Current(s) :
        \/ Begin(s, u, "add_finalizer", "Pending", FALSE)
        \/ exp[u].finalizer /\ exp[u].deleting /\ Begin(s, u, "list_vs", exp[u].phase, FALSE)
        \/ /\ exp[u].finalizer /\ ~exp[u].deleting
           /\ \/ exp[u].phase = "Pending" /\ Begin(s, u, "selector", "Running", FALSE)
              \/ exp[u].phase = "Running" /\ Begin(s, u, "patch", "Succeeded", FALSE)
              \/ exp[u].phase \in Terminal /\ Begin(s, u, "list_vs", exp[u].phase, TRUE)
  BY DEF Reconcile
<1>3. u \in Uids /\ exp[u] \in Object /\ exp[u].state = "stored" /\ exp[u].slot = s
  BY <1>0, <1>2 DEF Current
<1>4. \A t \in Slots : t # s => w'[t] = w[t]
  BY <1>0, <1>2 DEF Begin
<1>5. Work(s)'
  <2>1. /\ exp[u].phase \in Phases /\ exp[u].deleting \in BOOLEAN
        /\ \A pc \in Steps, p \in Phases, b \in BOOLEAN : Begin(s, u, pc, p, b) =>
             Moved(s, pc, u, exp[u].deleting, {}, p, b)
    BY <1>0, <1>3, Begins DEF Object
  <2>2. \/ Moved(s, "add_finalizer", u, exp[u].deleting, {}, "Pending", FALSE)
        \/ /\ exp[u].finalizer /\ exp[u].deleting
           /\ Moved(s, "list_vs", u, exp[u].deleting, {}, exp[u].phase, FALSE)
        \/ /\ exp[u].finalizer /\ ~exp[u].deleting
           /\ \/ /\ exp[u].phase = "Pending"
                 /\ Moved(s, "selector", u, exp[u].deleting, {}, "Running", FALSE)
              \/ /\ exp[u].phase = "Running"
                 /\ Moved(s, "patch", u, exp[u].deleting, {}, "Succeeded", FALSE)
              \/ /\ exp[u].phase \in Terminal
                 /\ Moved(s, "list_vs", u, exp[u].deleting, {}, exp[u].phase, TRUE)
    BY <1>2, <2>1 DEF Steps, Phases, Terminal
  <2> QED
    BY <1>1, <1>3, <2>2 DEF Moved, Work, WorkOn, Busy, Injecting, Cleaning, Transitions
<1> QED
  BY <1>0, <1>1, <1>4, <1>5 DEF Control, Work, OneEach, Stored

LEMMA ControlSurroundings ==
    ASSUME Control,
           \/ \E s \in Slots : Apply(s) \/ Delete(s)
           \/ \E v \in UserVs : UserCreates(v) \/ UserDeletes(v)
           \/ \E v \in mesh : Collect(v)
           \/ Crash
    PROVE  Control'
<1>0. TypeInv /\ TypeInv' /\ exp \in [Uids -> Object]
  BY TypeSurroundings DEF Control, TypeInv, TypeOK
<1>1. ASSUME NEW s \in Slots, Apply(s) PROVE Control'
  <2>1. PICK u \in Uids :
          /\ exp[u].state = "unborn"
          /\ exp' = [exp EXCEPT ![u] = [Unborn EXCEPT !.state = "stored", !.slot = s]]
    BY <1>1 DEF Apply
  <2>2. /\ w' = w /\ Current(s) = {}
        /\ \A x \in Uids : x # u => exp'[x] = exp[x]
        /\ exp'[u].slot = s /\ ObjectInv(exp'[u])
    BY <1>0, <1>1, <2>1 DEF Apply, ObjectInv, Unborn
  <2>3. OneEach'
    BY <2>2 DEF OneEach, Stored, Current, Control
  <2>4. ASSUME NEW t \in Slots PROVE Work(t)'
    BY <2>1, <2>2, Mine DEF Control, Work, WorkOn, Busy, Injecting, Cleaning, Steps, Stored
  <2> QED
    BY <1>0, <2>2, <2>3, <2>4 DEF Control
<1>2. ASSUME NEW s \in Slots, Delete(s) PROVE Control'
  <2>1. PICK u \in Current(s) : exp' = [exp EXCEPT ![u] =
                 IF exp[u].finalizer THEN [exp[u] EXCEPT !.deleting = TRUE] ELSE Gone(exp[u])]
    BY <1>2 DEF Delete
  <2>2. /\ w' = w /\ u \in Uids /\ exp[u] \in Object /\ Stored(u) /\ ObjectInv(exp[u])
        /\ \A x \in Uids : x # u => exp'[x] = exp[x]
    BY <1>0, <1>2, <2>1 DEF Delete, Current, Control, Stored
  <2>3. exp'[u] = IF exp[u].finalizer THEN [exp[u] EXCEPT !.deleting = TRUE] ELSE Gone(exp[u])
    BY <1>0, <2>1, <2>2
  <2>4. ObjectInv(exp'[u]) /\ (Stored(u)' => exp'[u].slot = exp[u].slot)
    BY <2>2, <2>3, PatchObject DEF Stored, Object, Gone, Unborn
  <2>5. OneEach'
    BY <2>2, <2>4 DEF OneEach, Stored, Control
  <2>6. ASSUME NEW t \in Slots PROVE Work(t)'
    <3>1. CASE w[t].pc \in Busy /\ w[t].uid = u
      <4>1. exp'[u] = [exp[u] EXCEPT !.deleting = TRUE]
        BY <2>3, <3>1, Mine
      <4>2. /\ exp'[u].deleting /\ exp'[u].state = exp[u].state
            /\ exp'[u].slot = exp[u].slot /\ exp'[u].finalizer = exp[u].finalizer
            /\ exp'[u].phase = exp[u].phase
        BY <2>2, <4>1 DEF Object
      <4> QED
        BY <2>2, <3>1, <4>2 DEF Control, Work, WorkOn
    <3>2. CASE w[t].pc \in Busy /\ w[t].uid # u
      BY <2>2, <3>2, Mine DEF Control, Work
    <3>3. CASE w[t].pc \notin Busy
      BY <2>2, <3>3 DEF Work, WorkOn, Busy, Injecting, Cleaning, Steps
    <3> QED
      BY <3>1, <3>2, <3>3
  <2> QED
    BY <1>0, <2>2, <2>4, <2>5, <2>6 DEF Control
<1>3. CASE UNCHANGED <<exp, w>>
  BY <1>0, <1>3 DEF Control, OneEach, Stored, Work
<1>4. CASE Crash
  <2>1. exp' = exp /\ \A s \in Slots : w'[s].pc = "idle"
    BY <1>4 DEF Crash, IdleWorker
  <2> QED
    BY <1>0, <2>1 DEF Control, OneEach, Stored, Work, WorkOn, Busy, Injecting, Cleaning
<1> QED
  BY <1>1, <1>2, <1>3, <1>4 DEF UserCreates, UserDeletes, Collect

LEMMA ControlNext == Control /\ [Next]_vars => Control'
<1> SUFFICES ASSUME Control, [Next]_vars PROVE Control'
  OBVIOUS
<1>1. CASE UNCHANGED vars
  BY <1>1, TypeNext DEF vars, Control, OneEach, Stored, Work
<1> QED
  BY <1>1, ControlCall, ControlReconcile, ControlSurroundings DEF Next

-----------------------------------------------------------------------------
(* Why an experiment is turned down, and what its injection rests on.      *)

HasSource(s) == <<s.source, target_namespace(s)>> \in world.services
HasTraffic(s) == \E i \in EdgeMetrics(s) : world.metrics[i].rps >= MinRps

Cause(s) == \/ seen[s] # {} \/ ~HasSource(s) \/ EdgeMetrics(s) = {}
            \/ \E i \in EdgeMetrics(s) : world.metrics[i].rps < MinRps

\* Of the metrics of an edge one comes first.
LEMMA FirstMetric ==
    ASSUME NEW s \in Slots, EdgeMetrics(s) # {}
    PROVE  \E i \in EdgeMetrics(s) : \A j \in EdgeMetrics(s) : i <= j
<1>1. EdgeMetrics(s) \subseteq Nat
  BY DEF EdgeMetrics
<1>2. PICK i \in EdgeMetrics(s) : \A j \in EdgeMetrics(s) : ~(<<j, i>> \in OpToRel(<, Nat))
  BY <1>1, NatLessThanWellFounded, WFMin, Zenon
<1>3. \A j \in EdgeMetrics(s) : ~(j < i)
  BY <1>1, <1>2, Zenon DEF OpToRel
<1> QED
  BY <1>1, <1>3

\* An edge that find_edge misses is not observed, or below the threshold.
LEMMA EdgeMissed ==
    ASSUME TypeOK, NEW s \in Slots, ~find_edge(s), EdgeMetrics(s) # {}
    PROVE  \E i \in EdgeMetrics(s) : world.metrics[i].rps < MinRps
<1>1. MinRps \in Nat /\ \A i \in EdgeMetrics(s) : world.metrics[i].rps \in Nat
  <2>1. world.metrics \in Seq(MetricType) /\ MinRps \in Nat
    BY WorldsAssumption DEF TypeOK
  <2>2. \A i \in EdgeMetrics(s) : world.metrics[i] \in MetricType
    BY <2>1 DEF EdgeMetrics
  <2> QED
    BY <2>1, <2>2 DEF MetricType
<1>2. PICK i \in EdgeMetrics(s) : \A j \in EdgeMetrics(s) : i <= j
  BY FirstMetric
<1> QED
  BY <1>1, <1>2 DEF find_edge

\* What each of the three checks of handle_pending_edge has found when it is
\* over: it failed only for its cause, or because a call did.
LEMMA Verdicts ==
    ASSUME TypeInv, NEW s \in Slots
    PROVE  /\ GetSelector(s) => \/ w'[s].pc = "conflicts" /\ HasSource(s)
                                \/ w'[s].pc = "patch" /\ (errors' = 0 => ~HasSource(s))
           /\ ListConflicts(s) => \/ w'[s].pc = "edge" /\ Foreign(s) = {}
                                  \/ w'[s].pc = "patch" /\ Foreign(s) # {}
                                  \/ w'[s].pc = "idle"
           /\ ResolveEdge(s) => \/ w'[s].pc = "create_vs" /\ find_edge(s)
                                \/ w'[s].pc = "patch" /\ (errors' = 0 => ~find_edge(s))
<1>0. w \in [Slots -> Worker] /\ errors \in Nat
  BY DEF TypeInv, TypeOK
<1>1. /\ \A pc \in Steps : Goto(s, pc) => w'[s].pc = pc
      /\ GotoPatch(s, "Failed") => w'[s].pc = "patch"
      /\ Finish(s) => w'[s].pc = "idle"
  BY <1>0, Moves DEF To, ToPatch, ToIdle, Moved, Phases
<1>2. Charge("refused") => errors' # 0
  BY <1>0 DEF Charge
<1>3. GetSelector(s) => \/ w'[s].pc = "conflicts" /\ HasSource(s)
                        \/ w'[s].pc = "patch" /\ (errors' = 0 => ~HasSource(s))
  BY <1>1, <1>2 DEF GetSelector, HasSource, Steps
<1>4. ListConflicts(s) => \/ w'[s].pc = "edge" /\ Foreign(s) = {}
                          \/ w'[s].pc = "patch" /\ Foreign(s) # {}
                          \/ w'[s].pc = "idle"
  BY <1>1 DEF ListConflicts, Conflicts, Steps
<1>5. ResolveEdge(s) => \/ w'[s].pc = "create_vs" /\ find_edge(s)
                        \/ w'[s].pc = "patch" /\ (errors' = 0 => ~find_edge(s))
  BY <1>1, <1>2 DEF ResolveEdge, Steps
<1> QED
  BY <1>3, <1>4, <1>5

CauseInv ==
    /\ Control
    /\ \A s \in Slots :
         /\ Current(s) # {} => Foreign(s) \subseteq seen[s]
         /\ w[s].pc = "patch" /\ w[s].phase = "Failed" /\ errors = 0 => Cause(s)
    /\ FailedHasCause

LEMMA FailedCause ==
    FailedHasCause <=> \A u \in Uids : exp[u].phase = "Failed" /\ errors = 0 => Cause(exp[u].slot)
BY DEF FailedHasCause, HasCause, Cause, HasSource

LEMMA CauseInit == Init => CauseInv
BY ControlInit, FailedCause DEF Init, CauseInv, Unborn, IdleWorker, Current

\* A call leaves no new VirtualService of a user behind.
LEMMA CallForeign ==
    ASSUME Control, NEW s \in Slots, Call(s), NEW t \in Slots
    PROVE  Foreign(t)' \subseteq Foreign(t) /\ (Current(t)' # {} => Current(t) # {})
<1>1. Foreign(t)' \subseteq Foreign(t)
  <2>1. CASE CreateVs(s)
    BY <2>1 DEF CreateVs, Foreign, InNs, build_virtual_service
  <2>2. CASE DeleteVs(s)
    BY <2>2 DEF DeleteVs, Foreign, InNs
  <2> QED
    BY <2>1, <2>2, CallFrame DEF Foreign, InNs
<1>2. Current(t)' \subseteq Current(t)
  BY CallStored DEF Current, Stored
<1> QED
  BY <1>1, <1>2 DEF Current

\* A status patch is the only call that makes an experiment Failed.
LEMMA FailedByPatch ==
    ASSUME Control, NEW s \in Slots, Call(s), NEW u \in Uids, exp'[u].phase = "Failed"
    PROVE  \/ exp[u].phase = "Failed" /\ exp'[u].slot = exp[u].slot
           \/ /\ PatchStatus(s) /\ w[s].phase = "Failed" /\ u = w[s].uid
              /\ exp'[u].slot = s
<1>0. exp[u] \in Object
  BY DEF Control, TypeInv, TypeOK
<1>1. CASE exp'[u] = exp[u]
  BY <1>1
<1>2. CASE PatchStatus(s) /\ u = w[s].uid
           /\ exp'[u] = [exp[u] EXCEPT !.phase = w[s].phase, !.cleaned = w[s].cleaned]
  <2>1. exp[u].slot = s
    BY <1>2, Mine DEF PatchStatus, Busy, Steps
  <2> QED
    BY <1>0, <1>2, <2>1 DEF Object
<1>3. CASE exp'[u] = [exp[u] EXCEPT !.finalizer = TRUE]
  BY <1>0, <1>3 DEF Object
<1>4. CASE exp'[u] = Gone(exp[u])
  BY <1>4 DEF Gone, Unborn
<1> QED
  BY <1>1, <1>2, <1>3, <1>4, CallObjects

LEMMA CauseCall == ASSUME CauseInv, NEW s \in Slots, Call(s) PROVE CauseInv'
<1>0. Control /\ Control' /\ TypeInv /\ TypeInv' /\ world' = world /\ seen' = seen
  BY ControlCall, CallFrame DEF CauseInv, Control
<1>1. errors' = 0 => errors = 0
  BY <1>0, CallFrame DEF TypeInv, TypeOK, Charge
<1>2. \A t : Cause(t)' <=> Cause(t)
  BY <1>0 DEF Cause, HasSource, EdgeMetrics
<1>3. ASSUME NEW t \in Slots PROVE Current(t)' # {} => Foreign(t)' \subseteq seen'[t]
  BY <1>0, CallForeign DEF CauseInv
<1>4. ASSUME NEW t \in Slots, w'[t].pc = "patch", w'[t].phase = "Failed", errors' = 0
      PROVE  Cause(t)
  <2>1. CASE t # s
    BY <1>0, <1>1, <1>4, <2>1, CallOther DEF CauseInv
  <2>2. CASE t = s
    <3>1. CASE GetSelector(s)
      BY <1>0, <1>4, <2>2, <3>1, Verdicts DEF Cause
    <3>2. CASE ListConflicts(s)
      <4>1. Foreign(s) # {}
        BY <1>0, <1>4, <2>2, <3>2, Verdicts
      <4>2. Current(s) # {}
        BY <1>0, <3>2, Mine DEF ListConflicts, Busy, Steps
      <4> QED
        BY <2>2, <4>1, <4>2 DEF CauseInv, Cause
    <3>3. CASE ResolveEdge(s)
      <4>1. ~find_edge(s)
        BY <1>0, <1>4, <2>2, <3>3, Verdicts
      <4> QED
        BY <1>0, <2>2, <4>1, EdgeMissed DEF Cause, TypeInv
    <3>4. CASE ListVs(s) \/ DeleteVs(s)
      <4>1. w'[s].phase = w[s].phase /\ ~w[s].deletes
        BY <1>0, <1>4, <2>2, <3>4, CallMoves DEF To, ToIdle, ToDelete, Moved, AfterVs
      <4>2. exp[w[s].uid].phase = "Failed" /\ w[s].pc \in Busy
        BY <1>0, <1>4, <2>2, <3>4, <4>1
           DEF Control, Work, WorkOn, Cleaning, Busy, Steps, ListVs, DeleteVs
      <4>3. w[s].uid \in Uids /\ exp[w[s].uid].slot = s
        BY <1>0, <4>2, Mine
      <4> QED
        BY <1>1, <1>4, <2>2, <4>2, <4>3, FailedCause DEF CauseInv
    <3>5. CASE CreateVs(s)
      BY <1>0, <1>4, <2>2, <3>5, CallMoves DEF ToPatch, ToIdle, Moved
    <3>6. CASE AddFinalizer(s) \/ RemoveFinalizer(s) \/ PatchStatus(s)
      BY <1>0, <1>4, <2>2, <3>6, CallMoves DEF ToIdle, Moved
    <3> QED
      BY <3>1, <3>2, <3>3, <3>4, <3>5, <3>6 DEF Call
  <2> QED
    BY <2>1, <2>2
<1>5. ASSUME NEW u \in Uids, exp'[u].phase = "Failed", errors' = 0
      PROVE  Cause(exp'[u].slot)
  BY <1>0, <1>1, <1>5, FailedByPatch, FailedCause DEF CauseInv, PatchStatus
<1>6. FailedHasCause'
  BY <1>2, <1>5 DEF FailedHasCause, HasCause, Cause, HasSource
<1> QED
  BY <1>0, <1>2, <1>3, <1>4, <1>6 DEF CauseInv

LEMMA CauseReconcile == ASSUME CauseInv, NEW s \in Slots, Reconcile(s) PROVE CauseInv'
<1>0. /\ Control /\ Control' /\ TypeInv /\ UNCHANGED <<world, exp, mesh, held, seen, errors>>
      /\ w \in [Slots -> Worker]
  BY ControlReconcile DEF CauseInv, Control, TypeInv, TypeOK, Reconcile, Begin, history, budget
<1>1. ASSUME NEW t \in Slots, w'[t].pc = "patch", w'[t].phase = "Failed"
      PROVE  w[t].pc = "patch" /\ w[t].phase = "Failed"
  <2>1. PICK u \in Uids, pc \in Steps, p \in Phases, b \in BOOLEAN :
          Begin(s, u, pc, p, b) /\ (pc = "patch" => p = "Succeeded")
    BY <1>0 DEF Reconcile, Current, Steps, Phases, TypeInv, TypeOK, Object
  <2>2. Moved(s, pc, u, exp[u].deleting, {}, p, b)
    BY <1>0, <2>1, Begins DEF TypeInv, TypeOK
  <2> QED
    BY <1>1, <2>1, <2>2 DEF Moved
<1> QED
  BY <1>0, <1>1
     DEF CauseInv, FailedHasCause, HasCause, Cause, HasSource, Current, Foreign, InNs, EdgeMetrics

LEMMA CauseSurroundings ==
    ASSUME CauseInv,
           \/ \E s \in Slots : Apply(s) \/ Delete(s)
           \/ \E v \in UserVs : UserCreates(v) \/ UserDeletes(v)
           \/ \E v \in mesh : Collect(v)
           \/ Crash
    PROVE  CauseInv'
<1>0. /\ Control /\ Control' /\ TypeInv /\ exp \in [Uids -> Object]
      /\ world' = world /\ errors' = errors /\ seen \in [Slots -> SUBSET UserVs]
  BY ControlSurroundings DEF CauseInv, Control, TypeInv, TypeOK, Apply, Delete, UserCreates,
     UserDeletes, Collect, Crash, budget
<1>c. \A t : seen[t] \subseteq seen'[t] /\ Cause(t) => Cause(t)'
  BY <1>0 DEF Cause, HasSource, EdgeMetrics
<1>1. ASSUME NEW s \in Slots, Apply(s) PROVE CauseInv'
  <2>1. PICK u \in Uids :
          /\ exp[u].state = "unborn"
          /\ exp' = [exp EXCEPT ![u] = [Unborn EXCEPT !.state = "stored", !.slot = s]]
    BY <1>1 DEF Apply
  <2>2. /\ w' = w /\ mesh' = mesh /\ Current(s) = {} /\ seen'[s] = Foreign(s)
        /\ \A t \in Slots : t # s => seen'[t] = seen[t]
        /\ \A x \in Uids : x # u => exp'[x] = exp[x]
        /\ exp'[u].phase = "Pending" /\ exp'[u].slot = s
    BY <1>0, <1>1, <2>1 DEF Apply, Unborn
  <2>3. \A t \in Slots : Foreign(t)' = Foreign(t)
    BY <2>2 DEF Foreign, InNs
  <2>4. ASSUME NEW t \in Slots, t # s PROVE Current(t)' # {} => Current(t) # {}
    BY <2>2, <2>4 DEF Current
  <2>5. w[s].pc # "patch"
    BY <1>0, <2>2, Mine DEF Busy, Steps
  <2>6. ASSUME NEW x \in Uids, exp'[x].phase = "Failed", errors = 0
        PROVE  exp[x].phase = "Failed" /\ exp'[x].slot = exp[x].slot
               /\ exp[x].slot \in Slots /\ exp[x].slot # s
    <3>1. x # u /\ exp'[x] = exp[x] /\ exp[x] \in Object /\ ObjectInv(exp[x])
      BY <1>0, <2>2, <2>6 DEF Control
    <3> QED
      BY <2>2, <2>6, <3>1 DEF ObjectInv, Object, Unborn, Current
  <2>7. FailedHasCause'
    <3>1. \A x \in Uids : exp'[x].phase = "Failed" /\ errors = 0 =>
             seen'[exp'[x].slot] = seen[exp[x].slot]
      BY <2>2, <2>6
    <3> QED
      BY <1>0, <2>6, <3>1 DEF FailedHasCause, HasCause, CauseInv, EdgeMetrics
  <2> QED
    BY <1>0, <1>c, <2>2, <2>3, <2>4, <2>5, <2>7 DEF CauseInv
<1>2. ASSUME NEW s \in Slots, Delete(s) PROVE CauseInv'
  <2>1. PICK u \in Current(s) : exp' = [exp EXCEPT ![u] =
                 IF exp[u].finalizer THEN [exp[u] EXCEPT !.deleting = TRUE] ELSE Gone(exp[u])]
    BY <1>2 DEF Delete
  <2>2. UNCHANGED <<w, mesh, seen>> /\ u \in Uids /\ exp[u] \in Object
    BY <1>0, <1>2, <2>1 DEF Delete, Current, history
  <2>3. ASSUME NEW x \in Uids
        PROVE  /\ exp'[x].phase = "Failed" => exp'[x].slot = exp[x].slot /\ exp[x].phase = "Failed"
               /\ exp'[x].state = "stored" => exp'[x].slot = exp[x].slot /\ exp[x].state = "stored"
    <3>1. \/ exp'[x] = exp[x]
          \/ x = u /\ exp'[x] = [exp[u] EXCEPT !.deleting = TRUE]
          \/ x = u /\ exp'[x] = Gone(exp[u])
      BY <1>0, <2>1, <2>2
    <3> QED
      BY <2>2, <3>1 DEF Object, Gone, Unborn
  <2>4. \A t \in Slots : /\ Foreign(t)' = Foreign(t) /\ Current(t)' \subseteq Current(t)
                         /\ Cause(t) => Cause(t)'
    BY <1>c, <2>2, <2>3 DEF Foreign, InNs, Current
  <2>5. FailedHasCause'
    BY <1>0, <2>2, <2>3 DEF FailedHasCause, HasCause, CauseInv, EdgeMetrics
  <2> QED
    BY <1>0, <2>2, <2>4, <2>5 DEF CauseInv
<1>3. ASSUME NEW v \in UserVs, UserCreates(v) PROVE CauseInv'
  <2>1. UNCHANGED <<exp, w>> /\ mesh' = mesh \cup {v}
        /\ \A t \in Slots : seen'[t] = IF InTheWay(v, t) THEN seen[t] \cup {v} ELSE seen[t]
    BY <1>3 DEF UserCreates
  <2>2. \A t \in Slots : seen[t] \subseteq seen'[t] /\ Current(t)' = Current(t)
    BY <2>1 DEF Current
  <2>3. ASSUME NEW t \in Slots, Current(t) # {} PROVE Foreign(t)' \subseteq seen'[t]
    BY <2>1, <2>2, <2>3 DEF Foreign, InNs, InTheWay, CauseInv
  <2>4. FailedHasCause'
    <3>1. \A x \in Uids : exp[x].phase = "Failed" => exp[x].slot \in Slots
      BY <1>0 DEF Control, ObjectInv, Object, Unborn
    <3>2. \A x \in Uids : exp[x].phase = "Failed" =>
             (seen[exp[x].slot] # {} => seen'[exp[x].slot] # {})
      BY <2>2, <3>1
    <3> QED
      BY <1>0, <2>1, <3>2 DEF FailedHasCause, HasCause, CauseInv, EdgeMetrics
  <2> QED
    BY <1>0, <1>c, <2>1, <2>2, <2>3, <2>4 DEF CauseInv
<1>4. ASSUME UNCHANGED <<exp, seen>>, mesh' \subseteq mesh,
             \A t \in Slots : w'[t].pc = "idle" \/ w'[t] = w[t]
      PROVE  CauseInv'
  <2>1. \A t : /\ Foreign(t)' \subseteq Foreign(t) /\ Current(t)' = Current(t)
               /\ Cause(t) => Cause(t)'
    BY <1>c, <1>4 DEF Foreign, InNs, Current
  <2>2. FailedHasCause'
    BY <1>0, <1>4 DEF FailedHasCause, HasCause, CauseInv, EdgeMetrics
  <2> QED
    BY <1>0, <1>4, <2>1, <2>2 DEF CauseInv
<1> QED
  BY <1>1, <1>2, <1>3, <1>4 DEF UserDeletes, Collect, Crash, IdleWorker, history

LEMMA CauseNext == CauseInv /\ [Next]_vars => CauseInv'
<1> SUFFICES ASSUME CauseInv, [Next]_vars PROVE CauseInv'
  OBVIOUS
<1>1. CASE UNCHANGED vars
  <2>1. Control'
    BY <1>1, ControlNext DEF CauseInv
  <2> QED
    BY <1>1, <2>1 DEF vars, CauseInv, FailedHasCause, HasCause, Cause, HasSource, Current, Foreign,
                      InNs, EdgeMetrics
<1> QED
  BY <1>1, CauseCall, CauseReconcile, CauseSurroundings DEF Next

\* When no call failed, an experiment that was turned down had a cause: the source
\* service, the traffic of the edge or a VirtualService that a user had in its
\* namespace, for whatever host; never another experiment (handle_pending_edge,
\* is_chaos_managed).
THEOREM FailedOnlyForCause == Spec => []FailedHasCause
<1>1. CauseInv => FailedHasCause
  BY DEF CauseInv
<1> QED
  BY <1>1, CauseInit, CauseNext, PTL DEF Spec

-----------------------------------------------------------------------------
(* Where faults are injected.  An experiment's VirtualService is in its own *)
(* namespace, under its own label, and was not there before it.            *)

Owned == \A v \in mesh : v.managed =>
    /\ exp[v.uid].state # "unborn"
    /\ Stored(v.uid) => /\ v.ns = target_namespace(exp[v.uid].slot)
                        /\ v.label = exp[v.uid].slot.name

OwnedInv == Control /\ Owned

\* The VirtualService of an experiment is managed, and bears its name.
LEMMA Managed ==
    ASSUME TypeInv, NEW v \in mesh, v.uid \in Uids
    PROVE  v.managed /\ v.name = VsName[v.uid]
BY UserVsAssumption, BoundAssumption DEF TypeInv, Uids, NoUid

LEMMA OwnedNext == OwnedInv /\ [Next]_vars => OwnedInv'
<1> SUFFICES ASSUME OwnedInv, [Next]_vars PROVE Owned'
  BY ControlNext DEF OwnedInv
<1>0. Control /\ TypeInv /\ exp \in [Uids -> Object]
      /\ \A v \in mesh : v.managed => v.uid \in Uids
  BY DEF OwnedInv, Control, TypeInv, TypeOK
<1>1. ASSUME NEW s \in Slots, Call(s) PROVE Owned'
  <2>1. CASE CreateVs(s)
    <3> DEFINE v == build_virtual_service(s, w[s].uid)
    <3>1. mesh' \subseteq mesh \cup {v} /\ exp' = exp
      BY <2>1 DEF CreateVs
    <3>2. w[s].uid \in Uids /\ exp[w[s].uid].slot = s /\ Stored(w[s].uid)
      BY <1>0, <2>1, Mine DEF CreateVs, Busy, Steps
    <3>3. /\ v.uid = w[s].uid /\ v.ns = target_namespace(s) /\ v.label = s.name
      BY DEF build_virtual_service
    <3> QED
      BY <3>1, <3>2, <3>3 DEF Owned, OwnedInv, Stored
  <2>2. CASE mesh' \subseteq mesh
    BY <1>0, <1>1, <2>2, CallStored DEF Owned, OwnedInv
  <2> QED
    BY <1>1, <2>1, <2>2, CallFrame DEF DeleteVs
<1>2. ASSUME NEW s \in Slots, Delete(s) PROVE Owned'
  <2>1. mesh' = mesh
    BY <1>2 DEF Delete
  <2>2. ASSUME NEW u \in Uids
        PROVE  /\ Stored(u)' => Stored(u) /\ exp'[u].slot = exp[u].slot
               /\ exp'[u].state = "unborn" => exp[u].state = "unborn"
    BY <1>0, <1>2, DeleteObjects
  <2> QED
    BY <1>0, <2>1, <2>2 DEF Owned, OwnedInv
<1>3. ASSUME NEW s \in Slots, Apply(s) PROVE Owned'
  <2>1. PICK u \in Uids :
          /\ exp[u].state = "unborn"
          /\ exp' = [exp EXCEPT ![u] = [Unborn EXCEPT !.state = "stored", !.slot = s]]
    BY <1>3 DEF Apply
  <2>2. mesh' = mesh /\ \A x \in Uids : x # u => exp'[x] = exp[x]
    BY <1>0, <1>3, <2>1 DEF Apply
  <2>3. \A v \in mesh : v.managed => v.uid # u
    BY <2>1 DEF Owned, OwnedInv
  <2> QED
    BY <1>0, <2>2, <2>3 DEF Owned, OwnedInv, Stored
<1>4. CASE exp' = exp /\ \A v \in mesh' : v \in mesh \/ ~v.managed
  BY <1>4 DEF Owned, OwnedInv, Stored
<1> QED
  BY <1>1, <1>2, <1>3, <1>4, UserVsAssumption
     DEF Next, Reconcile, Begin, UserCreates, UserDeletes, Collect, Crash, vars

LEMMA OwnedInit == Init => OwnedInv
BY ControlInit, UserVsAssumption DEF Init, OwnedInv, Owned

\* The names that virtual_service_name gives are not those of users'
\* VirtualServices: a deletion by name would take these away.
NamesApart == \A v \in UserVs, u \in Uids : v.name # VsName[u]

\* What the checks of handle_pending_edge have established, and still holds.
Checked(s) ==
    /\ held[s] \subseteq Foreign(s)
    /\ w[s].pc \in {"conflicts", "edge", "create_vs"} => HasSource(s)
    /\ w[s].pc \in {"edge", "create_vs"} => held[s] = {}
    /\ w[s].pc = "create_vs" => HasTraffic(s)

WaysInv == OwnedInv /\ (\A s \in Slots : Checked(s)) /\ InjectsOnlyWhereItMay

MayBeAt(s) == held[s] = {} /\ HasSource(s) /\ HasTraffic(s)

LEMMA WaysInit == Init => WaysInv
<1> SUFFICES ASSUME Init PROVE (\A s \in Slots : Checked(s)) /\ InjectsOnlyWhereItMay
  BY OwnedInit DEF WaysInv
<1> QED
  BY DEF Init, Checked, IdleWorker, InjectsOnlyWhereItMay, Unborn

\* A step keeps InjectsOnlyWhereItMay if the experiments it leaves in the mesh
\* were there before, or may be there.
LEMMA WaysKept ==
    ASSUME WaysInv, world' = world,
           \A u \in Uids : Stored(u)' /\ Injected(u)' =>
               /\ Stored(u) /\ exp'[u].slot = exp[u].slot
               /\ Injected(u) \/ MayBeAt(exp[u].slot)
               /\ held'[exp[u].slot] \subseteq held[exp[u].slot]
    PROVE  InjectsOnlyWhereItMay'
<1>1. ASSUME NEW u \in Uids, Stored(u)', Injected(u)'
      PROVE  LET s == exp[u].slot
             IN  exp'[u].slot = s /\ held'[s] = {} /\ HasSource(s) /\ HasTraffic(s)
  <2>1. MayBeAt(exp[u].slot)
    BY <1>1 DEF WaysInv, InjectsOnlyWhereItMay, MayBeAt, HasSource, HasTraffic, Stored
  <2> QED
    BY <1>1, <2>1 DEF MayBeAt
<1> QED
  BY <1>1 DEF InjectsOnlyWhereItMay, HasSource, HasTraffic, EdgeMetrics, Stored

LEMMA WaysCall == ASSUME NamesApart, WaysInv, NEW s \in Slots, Call(s) PROVE WaysInv'
<1>0. /\ Control /\ Owned /\ TypeInv /\ OwnedInv' /\ world' = world /\ held' = held
      /\ w \in [Slots -> Worker]
  BY OwnedNext, CallFrame DEF WaysInv, OwnedInv, Control, TypeInv, TypeOK, Next
<1>1. \A t : (HasSource(t)' <=> HasSource(t)) /\ (HasTraffic(t)' <=> HasTraffic(t))
  BY <1>0 DEF HasSource, HasTraffic, EdgeMetrics
<1>2. ASSUME NEW t \in Slots PROVE held'[t] \subseteq Foreign(t)'
  <2>1. Foreign(t) \subseteq Foreign(t)'
    <3>1. CASE DeleteVs(s)
      <4>1. PICK n \in w[s].todo :
              \A v \in mesh : v.name # n => v \in mesh'
        BY <3>1 DEF DeleteVs
      <4>2. n \in Names
        BY <1>0 DEF Worker, Names
      <4>3. \A v \in Foreign(t) : v \in UserVs /\ v.name # n
        BY <1>0, <4>2, ForeignType DEF NamesApart, Names
      <4> QED
        BY <4>1, <4>3 DEF Foreign, InNs
    <3>2. CASE mesh \subseteq mesh'
      BY <3>2 DEF Foreign, InNs
    <3> QED
      BY <3>1, <3>2, CallFrame DEF CreateVs
  <2> QED
    BY <1>0, <2>1 DEF WaysInv, Checked
<1>3. ASSUME NEW t \in Slots PROVE Checked(t)'
  <2>1. CASE t # s
    BY <1>0, <1>1, <1>2, <2>1, CallOther DEF WaysInv, Checked
  <2>2. CASE t = s
    <3>1. w'[s].pc \in {"conflicts", "edge", "create_vs"} => HasSource(s)
      BY <1>0, Verdicts, CallMoves
         DEF Call, To, ToPatch, ToIdle, ToDelete, Moved, AfterVs, WaysInv, Checked,
             ListConflicts, ResolveEdge
    <3>2. w'[s].pc \in {"edge", "create_vs"} => held[s] = {}
      BY <1>0, Verdicts, CallMoves
         DEF Call, To, ToPatch, ToIdle, ToDelete, Moved, AfterVs, WaysInv, Checked,
             ListConflicts, ResolveEdge
    <3>3. w'[s].pc = "create_vs" => HasTraffic(s)
      BY <1>0, Verdicts, CallMoves
         DEF Call, To, ToPatch, ToIdle, ToDelete, Moved, AfterVs, find_edge, HasTraffic
    <3> QED
      BY <1>0, <1>1, <1>2, <2>2, <3>1, <3>2, <3>3 DEF Checked
  <2> QED
    BY <2>1, <2>2
<1>4. ASSUME NEW u \in Uids, Stored(u)', Injected(u)'
      PROVE  /\ Stored(u) /\ exp'[u].slot = exp[u].slot
             /\ Injected(u) \/ MayBeAt(exp[u].slot)
  <2>1. Stored(u) /\ exp'[u].slot = exp[u].slot
    BY <1>0, <1>4, CallStored
  <2>2. CASE CreateVs(s)
    <3>1. mesh' \subseteq mesh \cup {build_virtual_service(s, w[s].uid)}
      BY <2>2 DEF CreateVs
    <3>2. Injected(u) \/ u = w[s].uid
      BY <1>4, <3>1 DEF Injected, build_virtual_service
    <3>3. exp[w[s].uid].slot = s /\ MayBeAt(s)
      BY <1>0, <2>2, Mine DEF CreateVs, Busy, Steps, WaysInv, Checked, MayBeAt
    <3> QED
      BY <2>1, <3>2, <3>3
  <2>3. CASE mesh' \subseteq mesh
    BY <1>4, <2>1, <2>3 DEF Injected
  <2> QED
    BY <2>2, <2>3, CallFrame DEF DeleteVs
<1>5. InjectsOnlyWhereItMay'
  BY <1>0, <1>4, WaysKept
<1> QED
  BY <1>0, <1>3, <1>5 DEF WaysInv

LEMMA WaysReconcile == ASSUME WaysInv, NEW s \in Slots, Reconcile(s) PROVE WaysInv'
<1>0. /\ Control /\ TypeInv /\ OwnedInv' /\ UNCHANGED <<world, exp, mesh, held>>
      /\ w \in [Slots -> Worker]
  BY OwnedNext DEF WaysInv, OwnedInv, Control, TypeInv, TypeOK, Next, Reconcile, Begin, history
<1>1. ASSUME NEW t \in Slots, w'[t].pc \in {"conflicts", "edge", "create_vs"}
      PROVE  w'[t] = w[t]
  <2>1. PICK u \in Uids, pc \in Steps \ {"conflicts", "edge", "create_vs"},
             p \in Phases, b \in BOOLEAN : Begin(s, u, pc, p, b)
    BY <1>0 DEF Reconcile, Current, Steps, Phases, TypeInv, TypeOK, Object
  <2>2. Moved(s, pc, u, exp[u].deleting, {}, p, b)
    BY <1>0, <2>1, Begins DEF TypeInv, TypeOK
  <2> QED
    BY <1>1, <2>1, <2>2 DEF Moved
<1>2. \A t \in Slots : Checked(t)'
  BY <1>0, <1>1 DEF WaysInv, Checked, HasSource, HasTraffic, EdgeMetrics, Foreign, InNs
<1>3. InjectsOnlyWhereItMay'
  BY <1>0 DEF WaysInv, InjectsOnlyWhereItMay, Injected, EdgeMetrics
<1> QED
  BY <1>0, <1>2, <1>3 DEF WaysInv

LEMMA WaysSurroundings ==
    ASSUME WaysInv,
           \/ \E s \in Slots : Apply(s) \/ Delete(s)
           \/ \E v \in UserVs : UserCreates(v) \/ UserDeletes(v)
           \/ \E v \in mesh : Collect(v)
           \/ Crash
    PROVE  WaysInv'
<1>0. /\ Control /\ Owned /\ TypeInv /\ OwnedInv' /\ world' = world
      /\ exp \in [Uids -> Object] /\ held \in [Slots -> SUBSET UserVs]
  BY OwnedNext DEF WaysInv, OwnedInv, Control, TypeInv, TypeOK, Next, Apply, Delete,
     UserCreates, UserDeletes, Collect, Crash
<1>c. ASSUME NEW t \in Slots, held'[t] \subseteq Foreign(t)', w'[t].pc = "idle" \/ w'[t] = w[t],
             held'[t] \subseteq held[t]
      PROVE  Checked(t)'
  <2>1. (HasSource(t)' <=> HasSource(t)) /\ (HasTraffic(t)' <=> HasTraffic(t)) /\ Checked(t)
    BY <1>0 DEF HasSource, HasTraffic, EdgeMetrics, WaysInv
  <2> QED
    BY <1>c, <2>1 DEF Checked
<1>1. ASSUME NEW s \in Slots, Apply(s) PROVE WaysInv'
  <2>1. PICK u \in Uids :
          /\ exp[u].state = "unborn"
          /\ exp' = [exp EXCEPT ![u] = [Unborn EXCEPT !.state = "stored", !.slot = s]]
    BY <1>1 DEF Apply
  <2>2. /\ w' = w /\ mesh' = mesh /\ Current(s) = {} /\ held'[s] = Foreign(s)
        /\ \A t \in Slots : t # s => held'[t] = held[t]
        /\ \A x \in Uids : x # u => exp'[x] = exp[x]
    BY <1>0, <1>1, <2>1 DEF Apply
  <2>3. \A t \in Slots : Foreign(t)' = Foreign(t)
    BY <2>2 DEF Foreign, InNs
  <2>4. ~Injected(u)
    BY <1>0, <2>1, Managed DEF Injected, Owned
  <2>5. w[s].pc \notin Busy
    BY <1>0, <2>2, Mine
  <2>6. ASSUME NEW t \in Slots PROVE Checked(t)'
    <3>1. CASE t = s
      BY <2>2, <2>3, <2>5, <3>1 DEF Checked, Busy, Steps
    <3>2. CASE t # s
      BY <1>c, <2>2, <2>3, <3>2 DEF WaysInv, Checked
    <3> QED
      BY <3>1, <3>2
  <2>7. \A x \in Uids : Stored(x)' /\ Injected(x)' =>
          /\ Stored(x) /\ exp'[x].slot = exp[x].slot /\ Injected(x)
          /\ held'[exp[x].slot] \subseteq held[exp[x].slot]
    <3>1. ASSUME NEW x \in Uids, Stored(x)', Injected(x)'
          PROVE  /\ Stored(x) /\ exp'[x] = exp[x] /\ Injected(x)
                 /\ exp[x].slot \in Slots /\ exp[x].slot # s
      BY <1>0, <2>2, <2>4, <3>1 DEF Stored, Injected, Current, Control, ObjectInv
    <3> QED
      BY <2>2, <3>1
  <2> QED
    BY <1>0, <2>6, <2>7, WaysKept DEF WaysInv
<1>2. ASSUME NEW s \in Slots, Delete(s) PROVE WaysInv'
  <2>1. UNCHANGED <<mesh, w, held>>
    BY <1>2 DEF Delete, history
  <2>2. \A t \in Slots : Checked(t)'
    BY <1>c, <2>1 DEF WaysInv, Checked, Foreign, InNs
  <2>3. \A x \in Uids : Stored(x)' /\ Injected(x)' =>
          /\ Stored(x) /\ exp'[x].slot = exp[x].slot /\ Injected(x)
          /\ held'[exp[x].slot] \subseteq held[exp[x].slot]
    BY <1>0, <1>2, <2>1, DeleteObjects DEF Injected
  <2> QED
    BY <1>0, <2>2, <2>3, WaysKept DEF WaysInv
<1>3. ASSUME exp' = exp, \A v \in mesh' : v \in mesh \/ v \in UserVs,
             \A t \in Slots : w'[t].pc = "idle" \/ w'[t] = w[t],
             \A t \in Slots : held'[t] \subseteq held[t] /\ held'[t] \subseteq Foreign(t)'
      PROVE  WaysInv'
  <2>1. \A x \in Uids : Stored(x)' /\ Injected(x)' =>
          /\ Stored(x) /\ exp'[x].slot = exp[x].slot /\ Injected(x)
          /\ held'[exp[x].slot] \subseteq held[exp[x].slot]
    <3>1. ASSUME NEW x \in Uids, Stored(x)' PROVE Stored(x) /\ exp[x].slot \in Slots
      BY <1>0, <1>3, <3>1 DEF Stored, Control, ObjectInv
    <3>2. ASSUME NEW x \in Uids, Injected(x)' PROVE Injected(x)
      BY <1>3, <3>2, UserVsAssumption, BoundAssumption DEF Injected, Uids, NoUid
    <3> QED
      BY <1>3, <3>1, <3>2
  <2> QED
    BY <1>0, <1>c, <1>3, <2>1, WaysKept DEF WaysInv
<1>4. ASSUME NEW v \in UserVs, UserCreates(v) PROVE WaysInv'
  <2>1. \A t \in Slots : held[t] \subseteq Foreign(t)'
    BY <1>4 DEF WaysInv, Checked, UserCreates, Foreign, InNs
  <2> QED
    BY <1>3, <1>4, <2>1 DEF UserCreates
<1>5. ASSUME NEW v \in UserVs, UserDeletes(v) PROVE WaysInv'
  <2>1. \A t \in Slots : held'[t] = held[t] \ {v}
    BY <1>5 DEF UserDeletes
  <2>2. \A t \in Slots : held'[t] \subseteq Foreign(t)'
    BY <1>5, <2>1 DEF WaysInv, Checked, UserDeletes, Foreign, InNs
  <2> QED
    BY <1>3, <1>5, <2>1, <2>2 DEF UserDeletes
<1>6. ASSUME NEW v \in mesh, Collect(v) PROVE WaysInv'
  <2>1. \A t \in Slots : held'[t] = held[t] /\ held'[t] \subseteq Foreign(t)'
    BY <1>6 DEF WaysInv, Checked, Collect, Foreign, InNs, history
  <2> QED
    BY <1>3, <1>6, <2>1 DEF Collect
<1>7. CASE Crash
  <2>1. \A t \in Slots : /\ held'[t] = held[t] /\ held'[t] \subseteq Foreign(t)'
                         /\ w'[t].pc = "idle"
    BY <1>7 DEF WaysInv, Checked, Crash, Foreign, InNs, history, IdleWorker
  <2> QED
    BY <1>3, <1>7, <2>1 DEF Crash
<1> QED
  BY <1>1, <1>2, <1>4, <1>5, <1>6, <1>7

LEMMA WaysNext == NamesApart => (WaysInv /\ [Next]_vars => WaysInv')
<1> SUFFICES ASSUME NamesApart, WaysInv, [Next]_vars PROVE WaysInv'
  OBVIOUS
<1>1. CASE UNCHANGED vars
  <2>1. OwnedInv'
    BY <1>1, OwnedNext DEF WaysInv
  <2> QED
    BY <1>1, <2>1 DEF vars, WaysInv, Checked, HasSource, HasTraffic, EdgeMetrics, Foreign,
                      InNs, InjectsOnlyWhereItMay, Injected
<1> QED
  BY <1>1, WaysCall, WaysReconcile, WaysSurroundings DEF Next

\* A fault in the mesh, of an experiment that is stored, was put there when no
\* user's VirtualService had been in the way all the time since it was applied,
\* its source service exists and its edge has enough traffic, however often the
\* three checks were retried and whatever was deleted in between.
THEOREM InjectedOnlyWhereItMay == NamesApart => (Spec => []InjectsOnlyWhereItMay)
<1> SUFFICES ASSUME NamesApart PROVE Spec => []InjectsOnlyWhereItMay
  OBVIOUS
<1>1. WaysInv /\ [Next]_vars => WaysInv'
  BY WaysNext
<1>2. WaysInv => InjectsOnlyWhereItMay
  BY DEF WaysInv
<1> QED
  BY <1>1, <1>2, WaysInit, PTL DEF Spec

-----------------------------------------------------------------------------
(* A fault stays in the mesh as long as its experiment needs it.           *)

\* The experiments inject into their own namespace, where a name is taken once.
Home == \A s \in Slots : target_namespace(s) = s.namespace
Keys == \A s, t \in Slots : s.name = t.name /\ s.namespace = t.namespace => s = t

DistinctNames == \A u, x \in Uids : VsName[u] = VsName[x] => u = x

Apart == Home /\ Keys /\ NamesApart /\ DistinctNames

\* A cleanup has only names of its own slot left, its experiment's among them;
\* a status patch says of the fault what is so.
Cleanup(s) ==
    /\ \A x \in Uids : VsName[x] \in w[s].todo =>
         exp[x].state # "unborn" /\ (Stored(x) => exp[x].slot = s)
    /\ w[s].pc = "delete_vs" => \A v \in mesh : v.uid = w[s].uid => v.name \in w[s].todo
    /\ w[s].pc = "patch" => /\ w[s].phase = "Running" => Injected(w[s].uid)
                            /\ w[s].cleaned => ~Injected(w[s].uid)

FaultInv == OwnedInv /\ (\A s \in Slots : Cleanup(s)) /\ RunningHasFault

LEMMA FaultInit == Init => FaultInv
<1> SUFFICES ASSUME Init PROVE (\A s \in Slots : Cleanup(s)) /\ RunningHasFault
  BY OwnedInit DEF FaultInv
<1> QED
  BY DEF Init, Cleanup, IdleWorker, RunningHasFault, Unborn

\* CallMoves, with what the calls on VirtualServices do to the mesh.
LEMMA MeshMoves ==
    ASSUME TypeInv, NEW s \in Slots
    PROVE  /\ ListVs(s) => \/ Selected(s) = {} /\ To(s, AfterVs(s))
                           \/ ToDelete(s, Selected(s))
                           \/ To(s, "remove_finalizer") \/ ToIdle(s)
           /\ DeleteVs(s) => \E n \in w[s].todo :
                \/ /\ \A v \in mesh' : v \in mesh /\ ~(v.ns = target_namespace(s) /\ v.name = n)
                   /\ \/ w[s].todo = {n} /\ To(s, AfterVs(s))
                      \/ ToDelete(s, w[s].todo \ {n})
                \/ To(s, "remove_finalizer") \/ ToIdle(s)
           /\ DeleteVs(s) => \E n \in w[s].todo :
                mesh' \subseteq mesh /\ \A v \in mesh : v.name # n => v \in mesh'
           /\ CreateVs(s) => LET v == build_virtual_service(s, w[s].uid)
                             IN  \/ ToIdle(s)
                                 \/ /\ ToPatch(s, "Running")
                                    /\ v \in mesh' \/ \E x \in mesh : x.name = v.name
<1>0. w \in [Slots -> Worker] /\ Selected(s) \in SUBSET Names
  BY SelectedType DEF TypeInv, TypeOK
<1>1. CleanupFailed(s) => To(s, "remove_finalizer") \/ ToIdle(s)
  BY <1>0, Moves DEF CleanupFailed, Steps
<1>2. Goto(s, AfterVs(s)) => To(s, AfterVs(s))
  BY <1>0, Moves DEF AfterVs, Steps
<1>3. ASSUME ListVs(s)
      PROVE  \/ Selected(s) = {} /\ To(s, AfterVs(s))
             \/ ToDelete(s, Selected(s))
             \/ To(s, "remove_finalizer") \/ ToIdle(s)
  BY <1>0, <1>1, <1>2, <1>3, Moves DEF ListVs
<1>4. ASSUME DeleteVs(s)
      PROVE  \E n \in w[s].todo :
                \/ /\ \A v \in mesh' : v \in mesh /\ ~(v.ns = target_namespace(s) /\ v.name = n)
                   /\ \/ w[s].todo = {n} /\ To(s, AfterVs(s))
                      \/ ToDelete(s, w[s].todo \ {n})
                \/ To(s, "remove_finalizer") \/ ToIdle(s)
  <2>1. PICK n \in w[s].todo, r \in Answers :
          /\ mesh' = IF Applied(r)
                     THEN {v \in mesh : ~(v.ns = target_namespace(s) /\ v.name = n)}
                     ELSE mesh
          /\ IF r # "ok" THEN CleanupFailed(s)
             ELSE IF w[s].todo = {n} THEN Goto(s, AfterVs(s))
             ELSE w' = [w EXCEPT ![s].todo = @ \ {n}]
    BY <1>4 DEF DeleteVs
  <2>2. w' = [w EXCEPT ![s].todo = @ \ {n}] => ToDelete(s, w[s].todo \ {n})
    BY <1>0, <1>4, Moves DEF DeleteVs
  <2> QED
    BY <1>1, <1>2, <2>1, <2>2 DEF Applied
<1>5. DeleteVs(s) => \E n \in w[s].todo :
                mesh' \subseteq mesh /\ \A v \in mesh : v.name # n => v \in mesh'
  BY DEF DeleteVs
<1>6. ASSUME CreateVs(s)
      PROVE  LET v == build_virtual_service(s, w[s].uid)
             IN  \/ ToIdle(s)
                 \/ /\ ToPatch(s, "Running")
                    /\ v \in mesh' \/ \E x \in mesh : x.name = v.name
  <2>1. GotoPatch(s, "Running") => ToPatch(s, "Running")
    BY <1>0, Moves DEF Phases
  <2>2. Finish(s) => ToIdle(s)
    BY <1>0, Moves
  <2> QED
    BY <1>6, <2>1, <2>2 DEF CreateVs, Applied, InNs
<1> QED
  BY <1>3, <1>4, <1>5, <1>6

\* The names a cleanup selects are those of its own slot.
LEMMA SelectedOwn ==
    ASSUME Apart, OwnedInv, NEW s \in Slots
    PROVE  /\ \A x \in Uids : VsName[x] \in Selected(s) =>
                exp[x].state # "unborn" /\ (Stored(x) => exp[x].slot = s)
           /\ \A v \in mesh : w[s].pc \in Busy /\ v.uid = w[s].uid =>
                v.name \in Selected(s) /\ v.ns = target_namespace(s)
<1>0. Control /\ TypeInv /\ Owned
  BY DEF OwnedInv, Control
<1>1. ASSUME NEW x \in Uids, VsName[x] \in Selected(s)
      PROVE  exp[x].state # "unborn" /\ (Stored(x) => exp[x].slot = s)
  <2>1. PICK v \in mesh : /\ v.managed /\ v.label = s.name /\ v.ns = target_namespace(s)
                          /\ v.name = VsName[x]
    BY <1>1 DEF Selected, InNs
  <2>2. v.uid = x
    BY <1>0, <2>1 DEF TypeInv, Apart, DistinctNames
  <2>3. exp[x].state # "unborn"
    BY <1>0, <2>1, <2>2 DEF Owned
  <2>4. ASSUME Stored(x) PROVE exp[x].slot = s
    <3>1. exp[x].slot \in Slots
      BY <1>0, <2>4 DEF Control, ObjectInv, Stored
    <3>2. target_namespace(exp[x].slot) = target_namespace(s) /\ exp[x].slot.name = s.name
      BY <1>0, <2>1, <2>2, <2>4 DEF Owned
    <3> QED
      BY <3>1, <3>2 DEF Apart, Home, Keys
  <2> QED
    BY <2>3, <2>4
<1>2. ASSUME NEW v \in mesh, w[s].pc \in Busy, v.uid = w[s].uid
      PROVE  v.name \in Selected(s) /\ v.ns = target_namespace(s)
  <2>1. w[s].uid \in Uids /\ Stored(v.uid) /\ exp[v.uid].slot = s
    BY <1>0, <1>2, Mine
  <2>2. v.managed
    BY <1>0, <1>2, <2>1, Managed
  <2> QED
    BY <1>0, <2>1, <2>2 DEF Owned, Selected, InNs
<1> QED
  BY <1>1, <1>2

\* A call leaves the faults of all other stored experiments as they are.
LEMMA CallFault ==
    ASSUME Apart, FaultInv, NEW s \in Slots, Call(s), NEW u \in Uids, Stored(u), u # w[s].uid
    PROVE  Injected(u)' <=> Injected(u)
<1>0. Control /\ TypeInv /\ w \in [Slots -> Worker]
  BY DEF FaultInv, OwnedInv, Control, TypeInv, TypeOK
<1>1. CASE CreateVs(s)
  <2>1. /\ mesh \subseteq mesh'
        /\ mesh' \subseteq mesh \cup {build_virtual_service(s, w[s].uid)}
    BY <1>1 DEF CreateVs
  <2> QED
    BY <2>1 DEF Injected, build_virtual_service
<1>2. CASE DeleteVs(s)
  <2>1. PICK n \in w[s].todo : mesh' \subseteq mesh /\ \A v \in mesh : v.name # n => v \in mesh'
    BY <1>0, <1>2, MeshMoves
  <2>2. \A x \in Uids : VsName[x] = n => x # u
    <3>1. w[s].pc \in Busy
      BY <1>2 DEF DeleteVs, Busy, Steps
    <3>2. Current(s) = {w[s].uid}
      BY <1>0, <3>1, Mine
    <3> QED
      BY <2>1, <3>2 DEF FaultInv, Cleanup, Current, Stored
  <2>3. \A v \in mesh : v.uid = u => v.name # n
    BY <1>0, <2>2, Managed
  <2> QED
    BY <2>1, <2>3 DEF Injected
<1>3. CASE mesh' = mesh
  BY <1>3 DEF Injected
<1> QED
  BY <1>1, <1>2, <1>3, CallFrame

\* The garbage collector finds the owner of a fault that is needed.
LEMMA CollectFault ==
    ASSUME Apart, OwnedInv, NEW v \in mesh, Collect(v), NEW u \in Uids, Stored(u)
    PROVE  Injected(u)' <=> Injected(u)
<1>1. Control /\ TypeInv /\ Owned
  BY DEF OwnedInv, Control
<1>2. exp[u].slot \in Slots
  BY <1>1 DEF Control, ObjectInv, Stored
<1>3. v.uid # u
  <2> SUFFICES ASSUME v.uid = u PROVE FALSE
    OBVIOUS
  <2>1. v.managed /\ v.ns = exp[u].slot.namespace
    BY <1>1, <1>2, Managed DEF Owned, Apart, Home
  <2> QED
    BY <2>1 DEF Collect, OwnerFound, Stored
<1> QED
  BY <1>3 DEF Collect, Injected

LEMMA CleanupCall == 
    ASSUME Apart, FaultInv, NEW s \in Slots, Call(s), NEW t \in Slots
    PROVE  Cleanup(t)'
<1>0. /\ Control /\ TypeInv /\ OwnedInv /\ Cleanup(s) /\ Cleanup(t) /\ Work(s)
      /\ w \in [Slots -> Worker]
  BY DEF FaultInv, OwnedInv, Control, TypeInv, TypeOK
<1>1. \A x \in Uids : /\ Stored(x)' => Stored(x) /\ exp'[x].slot = exp[x].slot
                      /\ exp'[x].state = "unborn" => exp[x].state = "unborn"
  BY <1>0, CallStored
<1>2. CASE t # s
  <2>1. w'[t] = w[t]
    BY <1>0, <1>2, CallOther
  <2>2. ASSUME w[t].pc \in Busy, w[s].pc \in Busy
        PROVE  w[t].uid \in Uids /\ Stored(w[t].uid) /\ w[t].uid # w[s].uid
    BY <1>0, <1>2, <2>2, Mine
  <2>3. ASSUME w[t].pc \in Busy PROVE Injected(w[t].uid)' <=> Injected(w[t].uid)
    <3>1. CASE w[s].pc \in Busy
      BY <2>1, <2>2, <2>3, <3>1, CallFault DEF Injected
    <3>2. CASE w[s].pc \notin Busy
      BY <2>1, <3>2, CallFrame DEF CreateVs, DeleteVs, Busy, Steps, Injected
    <3> QED
      BY <3>1, <3>2
  <2>4. ASSUME w[t].pc \in Busy, NEW v \in mesh', v.uid = w[t].uid PROVE v \in mesh
    <3>1. CASE CreateVs(s)
      BY <2>2, <2>4, <3>1 DEF CreateVs, build_virtual_service, Busy, Steps
    <3> QED
      BY <2>4, <3>1, CallFrame DEF DeleteVs
  <2> QED
    BY <1>0, <1>1, <2>1, <2>3, <2>4 DEF Cleanup, Busy, Steps, Injected
<1>3. CASE t = s
  <2>1. CASE AddFinalizer(s) \/ RemoveFinalizer(s) \/ PatchStatus(s)
    BY <1>0, <1>3, <2>1, CallMoves DEF ToIdle, Moved, Cleanup
  <2>2. CASE GetSelector(s) \/ ListConflicts(s) \/ ResolveEdge(s)
    <3>1. w[s].pc \in Injecting /\ ~w[s].cleaned
      BY <1>0, <2>2
         DEF GetSelector, ListConflicts, ResolveEdge, Injecting, Work, WorkOn
    <3>2. \/ ToIdle(s) \/ ToPatch(s, "Failed") \/ \E pc \in Injecting : To(s, pc)
      BY <1>0, <2>2, CallMoves DEF Injecting
    <3> QED
      BY <1>0, <1>1, <1>3, <3>1, <3>2 DEF ToIdle, To, ToPatch, Moved, Cleanup, Injecting
  <2>3. CASE CreateVs(s)
    <3> DEFINE v == build_virtual_service(s, w[s].uid)
    <3>1. w[s].uid \in Uids /\ ~w[s].cleaned
      BY <1>0, <2>3, Mine DEF CreateVs, Work, WorkOn, Injecting, Busy, Steps
    <3>2. v.name = VsName[w[s].uid] /\ v.uid = w[s].uid /\ mesh \subseteq mesh'
      BY <2>3 DEF build_virtual_service, CreateVs
    <3>3. \/ ToIdle(s)
          \/ ToPatch(s, "Running") /\ (v \in mesh' \/ \E x \in mesh : x.name = v.name)
      BY <1>0, <2>3, MeshMoves
    <3>4. \A x \in mesh : x.name = v.name => x.uid = w[s].uid
      BY <1>0, <3>1, <3>2 DEF TypeInv, Apart, NamesApart, DistinctNames
    <3>5. \/ ToIdle(s)
          \/ ToPatch(s, "Running") /\ \E x \in mesh' : x.uid = w[s].uid
      BY <3>2, <3>3, <3>4
    <3> QED
      BY <1>0, <1>1, <1>3, <3>1, <3>5 DEF ToIdle, ToPatch, Moved, Cleanup, Injected
  <2>4. CASE ListVs(s) \/ DeleteVs(s)
    <3>1. /\ w[s].pc \in {"list_vs", "delete_vs"} /\ w[s].pc \in Busy
          /\ w[s].deletes \/ w[s].phase \in Terminal
      BY <1>0, <2>4 DEF ListVs, DeleteVs, Work, WorkOn, Cleaning, Busy, Steps
    <3>2. \A v \in mesh : v.uid = w[s].uid => v.name \in Selected(s) /\ v.ns = target_namespace(s)
      BY <1>0, <3>1, SelectedOwn
    <3>3. ASSUME To(s, AfterVs(s)), ~w[s].deletes => ~Injected(w[s].uid)' PROVE Cleanup(s)'
      <4>1. /\ w'[s].todo = {} /\ w'[s].pc # "delete_vs" /\ w'[s].phase = w[s].phase
            /\ w'[s].uid = w[s].uid /\ (w'[s].pc = "patch" => ~w[s].deletes)
        BY <3>3 DEF To, Moved, AfterVs
      <4> QED
        BY <3>1, <3>3, <4>1 DEF Cleanup, Terminal, Injected
    <3>4. ASSUME To(s, "remove_finalizer") \/ ToIdle(s) PROVE Cleanup(s)'
      BY <3>4 DEF To, ToIdle, Moved, Cleanup
    <3>5. ASSUME NEW T, ToDelete(s, T), \A v \in mesh' : v.uid = w[s].uid => v.name \in T,
                 \A x \in Uids : VsName[x] \in T =>
                    exp[x].state # "unborn" /\ (Stored(x) => exp[x].slot = s)
          PROVE  Cleanup(s)'
      BY <1>1, <3>5 DEF ToDelete, Moved, Cleanup
    <3>6. CASE ListVs(s)
      <4>1. mesh' = mesh
        BY <3>6 DEF ListVs
      <4>2. ASSUME Selected(s) = {}, To(s, AfterVs(s)) PROVE ~Injected(w[s].uid)'
        BY <3>2, <4>1, <4>2 DEF Injected, To, Moved
      <4>3. ASSUME ToDelete(s, Selected(s)) PROVE Cleanup(s)'
        BY <1>0, <3>2, <3>5, <4>1, <4>3, SelectedOwn
      <4> QED
        BY <1>0, <1>3, <3>3, <3>4, <3>6, <4>2, <4>3, MeshMoves
    <3>7. CASE DeleteVs(s)
      <4>1. PICK n \in w[s].todo :
                \/ /\ \A v \in mesh' : v \in mesh /\ ~(v.ns = target_namespace(s) /\ v.name = n)
                   /\ \/ w[s].todo = {n} /\ To(s, AfterVs(s))
                      \/ ToDelete(s, w[s].todo \ {n})
                \/ To(s, "remove_finalizer") \/ ToIdle(s)
        BY <1>0, <3>7, MeshMoves
      <4>2. \A v \in mesh : v.uid = w[s].uid => v.name \in w[s].todo
        BY <1>0, <3>7 DEF Cleanup, DeleteVs
      <4>3. CASE To(s, "remove_finalizer") \/ ToIdle(s)
        BY <1>3, <3>4, <4>3
      <4>4. CASE \A v \in mesh' : v \in mesh /\ ~(v.ns = target_namespace(s) /\ v.name = n)
        <5>1. \A v \in mesh' : v.uid = w[s].uid => v.name \in w[s].todo \ {n}
          BY <3>2, <4>2, <4>4
        <5>2. ASSUME w[s].todo = {n}, To(s, AfterVs(s)) PROVE Cleanup(s)'
          <6>1. w'[s].uid = w[s].uid
            BY <5>2 DEF To, Moved
          <6>2. ~\E v \in mesh' : v.uid = w[s].uid
            BY <5>1, <5>2
          <6> QED
            BY <3>3, <5>2, <6>1, <6>2 DEF Injected
        <5>3. ASSUME ToDelete(s, w[s].todo \ {n}) PROVE Cleanup(s)'
          <6> DEFINE T == w[s].todo \ {n}
          <6>1. \A x \in Uids : VsName[x] \in T =>
                    exp[x].state # "unborn" /\ (Stored(x) => exp[x].slot = s)
            BY <1>0 DEF Cleanup
          <6> QED
            BY <3>5, <5>1, <5>3, <6>1
        <5> QED
          BY <1>3, <3>4, <4>1, <5>2, <5>3
      <4> QED
        BY <4>1, <4>3, <4>4
    <3> QED
      BY <2>4, <3>6, <3>7
  <2> QED
    BY <2>1, <2>2, <2>3, <2>4 DEF Call
<1> QED
  BY <1>2, <1>3

LEMMA RunningCall == ASSUME Apart, FaultInv, NEW s \in Slots, Call(s) PROVE RunningHasFault'
<1>0. /\ Control /\ TypeInv /\ Cleanup(s) /\ Work(s) /\ exp \in [Uids -> Object]
  BY DEF FaultInv, OwnedInv, Control, TypeInv, TypeOK
<1> SUFFICES ASSUME NEW u \in Uids, Stored(u)', ~exp'[u].deleting, exp'[u].phase = "Running"
             PROVE  Injected(u)'
  BY DEF RunningHasFault, Stored
<1>1. Stored(u) /\ exp[u] \in Object
  BY <1>0, CallStored
<1>2. CASE exp'[u] = exp[u]
  <2>1. Injected(u)
    BY <1>1, <1>2 DEF FaultInv, RunningHasFault, Stored
  <2>2. CASE u # w[s].uid
    BY <1>1, <2>1, <2>2, CallFault
  <2>3. CASE u = w[s].uid
    <3>1. ~DeleteVs(s)
      BY <1>0, <1>2, <2>3 DEF DeleteVs, Work, WorkOn, Cleaning, Terminal
    <3>2. mesh \subseteq mesh'
      BY <3>1, CallFrame DEF CreateVs
    <3> QED
      BY <2>1, <3>2 DEF Injected
  <2> QED
    BY <2>2, <2>3
<1>3. CASE AddFinalizer(s) /\ exp'[u] = [exp[u] EXCEPT !.finalizer = TRUE]
  <2>1. ~exp[u].deleting /\ exp[u].phase = "Running" /\ mesh' = mesh
    BY <1>1, <1>3 DEF Object, AddFinalizer
  <2> QED
    BY <1>1, <2>1 DEF FaultInv, RunningHasFault, Stored, Injected
<1>4. CASE /\ PatchStatus(s) /\ u = w[s].uid
           /\ exp'[u] = [exp[u] EXCEPT !.phase = w[s].phase, !.cleaned = w[s].cleaned]
  <2>1. w[s].pc = "patch" /\ w[s].phase = "Running" /\ mesh' = mesh
    BY <1>1, <1>4 DEF Object, PatchStatus
  <2> QED
    BY <1>0, <1>4, <2>1 DEF Cleanup, Injected
<1>5. CASE exp'[u] = Gone(exp[u])
  BY <1>5 DEF Gone, Unborn
<1> QED
  BY <1>0, <1>2, <1>3, <1>4, <1>5, CallObjects

LEMMA FaultReconcile == ASSUME FaultInv, NEW s \in Slots, Reconcile(s) PROVE FaultInv'
<1>0. /\ Control /\ TypeInv /\ OwnedInv' /\ exp' = exp /\ mesh' = mesh
      /\ w \in [Slots -> Worker]
  BY OwnedNext DEF FaultInv, OwnedInv, Control, TypeInv, TypeOK, Next, Reconcile, Begin
<1>1. PICK u \in Uids, pc \in Steps, p \in Phases, b \in BOOLEAN :
        /\ Begin(s, u, pc, p, b) /\ pc # "delete_vs"
        /\ pc = "patch" => p = "Succeeded" /\ ~b
  BY <1>0 DEF Reconcile, Current, Steps, Phases, TypeInv, TypeOK, Object
<1>2. Moved(s, pc, u, exp[u].deleting, {}, p, b)
  BY <1>0, <1>1, Begins DEF TypeInv, TypeOK
<1>3. \A t \in Slots : Cleanup(t)'
  BY <1>0, <1>1, <1>2 DEF Moved, FaultInv, Cleanup, Stored, Injected
<1> QED
  BY <1>0, <1>3 DEF FaultInv, RunningHasFault, Injected

LEMMA FaultSurroundings ==
    ASSUME Apart, FaultInv,
           \/ \E s \in Slots : Apply(s) \/ Delete(s)
           \/ \E v \in UserVs : UserCreates(v) \/ UserDeletes(v)
           \/ \E v \in mesh : Collect(v)
           \/ Crash
    PROVE  FaultInv'
<1>0. /\ Control /\ TypeInv /\ Owned /\ OwnedInv /\ OwnedInv' /\ exp \in [Uids -> Object]
  BY OwnedNext DEF FaultInv, OwnedInv, Control, TypeInv, TypeOK, Next
<1>1. ASSUME NEW s \in Slots, Apply(s) PROVE FaultInv'
  <2>1. PICK u \in Uids :
          /\ exp[u].state = "unborn"
          /\ exp' = [exp EXCEPT ![u] = [Unborn EXCEPT !.state = "stored", !.slot = s]]
    BY <1>1 DEF Apply
  <2>2. /\ w' = w /\ mesh' = mesh
        /\ \A x \in Uids : x # u => exp'[x] = exp[x]
        /\ exp'[u].phase = "Pending"
    BY <1>0, <1>1, <2>1 DEF Apply, Unborn
  <2>3. \A t \in Slots : Cleanup(t)'
    BY <2>1, <2>2 DEF FaultInv, Cleanup, Stored, Injected
  <2>4. RunningHasFault'
    BY <2>2 DEF FaultInv, RunningHasFault, Injected
  <2> QED
    BY <1>0, <2>3, <2>4 DEF FaultInv
<1>2. ASSUME NEW s \in Slots, Delete(s) PROVE FaultInv'
  <2>1. w' = w /\ mesh' = mesh
    BY <1>2 DEF Delete
  <2>2. \A t \in Slots : Cleanup(t)'
    BY <1>0, <1>2, <2>1, DeleteObjects DEF FaultInv, Cleanup, Injected
  <2>3. ASSUME NEW u \in Uids, Stored(u)', ~exp'[u].deleting, exp'[u].phase = "Running"
        PROVE  Stored(u) /\ ~exp[u].deleting /\ exp[u].phase = "Running"
    <3>1. exp[u] \in Object
      BY <1>0
    <3>2. \/ exp'[u] = exp[u] \/ exp'[u] = [exp[u] EXCEPT !.deleting = TRUE]
          \/ exp'[u] = Gone(exp[u])
      BY <1>0, <1>2, DeleteObjects
    <3> QED
      BY <2>3, <3>1, <3>2 DEF Stored, Object, Gone, Unborn
  <2>4. RunningHasFault'
    BY <2>1, <2>3 DEF FaultInv, RunningHasFault, Injected, Stored
  <2> QED
    BY <1>0, <2>2, <2>4 DEF FaultInv
<1>3. ASSUME exp' = exp, w' = w \/ \A t \in Slots : w'[t].pc = "idle" /\ w'[t].todo = {},
             \A v \in mesh' : v \in mesh \/ v \in UserVs,
             \A u \in Uids : Stored(u) => (Injected(u)' <=> Injected(u))
      PROVE  FaultInv'
  <2>1. ASSUME NEW t \in Slots PROVE Cleanup(t)'
    <3>1. CASE w'[t].pc = "idle" /\ w'[t].todo = {}
      BY <3>1 DEF Cleanup
    <3>2. CASE w' = w
      <4>1. w[t].pc \in Busy => w[t].uid \in Uids /\ Stored(w[t].uid)
        BY <1>0, Mine
      <4>2. w[t].pc \in Busy => (Injected(w[t].uid)' <=> Injected(w[t].uid))
        BY <1>3, <3>2, <4>1 DEF Injected
      <4>3. ASSUME w[t].pc = "delete_vs", NEW v \in mesh', v.uid = w[t].uid PROVE v \in mesh
        <5>1. w[t].uid \in Uids
          BY <4>1, <4>3 DEF Busy, Steps
        <5> QED
          BY <1>3, <4>3, <5>1, UserVsAssumption, BoundAssumption DEF Uids, NoUid
      <4> QED
        BY <1>3, <3>2, <4>2, <4>3 DEF FaultInv, Cleanup, Stored, Busy, Steps, Injected
    <3> QED
      BY <1>3, <3>1, <3>2
  <2>2. RunningHasFault'
    BY <1>3 DEF FaultInv, RunningHasFault, Stored, Injected
  <2> QED
    BY <1>0, <2>1, <2>2 DEF FaultInv
<1>4. ASSUME NEW v \in UserVs, UserCreates(v) \/ UserDeletes(v) PROVE FaultInv'
  <2>1. \A u \in Uids : v.uid # u
    BY UserVsAssumption, BoundAssumption DEF Uids, NoUid
  <2>2. \A u \in Uids : Injected(u)' <=> Injected(u)
    BY <1>4, <2>1 DEF UserCreates, UserDeletes, Injected
  <2> QED
    BY <1>3, <1>4, <2>2 DEF UserCreates, UserDeletes
<1>5. ASSUME NEW v \in mesh, Collect(v) PROVE FaultInv'
  <2>1. \A u \in Uids : Stored(u) => (Injected(u)' <=> Injected(u))
    BY <1>0, <1>5, CollectFault
  <2> QED
    BY <1>3, <1>5, <2>1 DEF Collect
<1>6. CASE Crash
  <2>1. \A u : Injected(u)' <=> Injected(u)
    BY <1>6 DEF Crash, Injected
  <2> QED
    BY <1>3, <1>6, <2>1 DEF Crash, IdleWorker
<1> QED
  BY <1>1, <1>2, <1>4, <1>5, <1>6

LEMMA FaultNext == Apart => (FaultInv /\ [Next]_vars => FaultInv')
<1> SUFFICES ASSUME Apart, FaultInv, [Next]_vars PROVE FaultInv'
  OBVIOUS
<1>1. CASE UNCHANGED vars
  <2>1. OwnedInv'
    BY <1>1, OwnedNext DEF FaultInv
  <2> QED
    BY <1>1, <2>1 DEF vars, FaultInv, Cleanup, Stored, RunningHasFault, Injected
<1>2. ASSUME NEW s \in Slots, Call(s) PROVE FaultInv'
  <2>1. OwnedInv'
    BY <1>2, OwnedNext DEF FaultInv, Next
  <2> QED
    BY <1>2, <2>1, CleanupCall, RunningCall DEF FaultInv
<1> QED
  BY <1>1, <1>2, FaultReconcile, FaultSurroundings DEF Next

LEMMA FaultCorrect == Apart => (Spec => []FaultInv)
<1> SUFFICES ASSUME Apart PROVE Spec => []FaultInv
  OBVIOUS
<1>1. FaultInv /\ [Next]_vars => FaultInv'
  BY FaultNext
<1> QED
  BY <1>1, FaultInit, PTL DEF Spec

\* An experiment that is recorded as Running and not being deleted has its fault
\* in the mesh: no cleanup of another experiment takes it away, no 409 stood for
\* another VirtualService, and the garbage collector finds its owner.  It needs
\* the experiments to inject into their own namespaces: the run cross_namespace
\* shows a loss without that.
THEOREM RunningKeepsFault == Apart => (Spec => []RunningHasFault)
<1> SUFFICES ASSUME Apart PROVE Spec => []RunningHasFault
  OBVIOUS
<1>1. FaultInv => RunningHasFault
  BY DEF FaultInv
<1> QED
  BY <1>1, FaultCorrect, PTL

-----------------------------------------------------------------------------
(* Each experiment implements FaultLifecycle.                              *)

LEMMA StageCases ==
    ASSUME NEW u \in Uids
    PROVE  /\ Stage(u) \in {"armed", "spent", "gone"}
           /\ Stage(u) = "gone" <=> exp[u].state = "gone"
           /\ Stage(u) = "armed" <=> exp[u].state # "gone" /\ MayInject(u)
BY DEF Stage

\* A reconcile starts to inject only from an experiment that is Pending.
LEMMA InjectingStarts ==
    ASSUME Control, Next, NEW t \in Slots, w'[t].pc \in Injecting
    PROVE  \/ w[t].pc \in Injecting /\ w[t].uid = w'[t].uid
           \/ exp[w'[t].uid].phase = "Pending" /\ ~exp[w'[t].uid].deleting
<1>0. TypeInv /\ w \in [Slots -> Worker]
  BY DEF Control, TypeInv, TypeOK
<1>1. CASE w'[t] = w[t]
  BY <1>1
<1>2. ASSUME NEW s \in Slots, Call(s), w'[t] # w[t]
      PROVE  w[t].pc \in Injecting /\ w[t].uid = w'[t].uid
  <2>1. t = s
    BY <1>2, CallOther
  <2>2. CASE GetSelector(s) \/ ListConflicts(s) \/ ResolveEdge(s)
    BY <1>0, <2>1, <2>2, CallMoves
       DEF GetSelector, ListConflicts, ResolveEdge, To, ToPatch, ToIdle, Moved, Injecting
  <2>3. CASE ~(GetSelector(s) \/ ListConflicts(s) \/ ResolveEdge(s))
    BY <1>0, <1>2, <2>1, <2>3, CallMoves
       DEF Call, To, ToPatch, ToIdle, ToDelete, Moved, Injecting, AfterVs
  <2> QED
    BY <2>2, <2>3
<1>3. ASSUME NEW s \in Slots, Reconcile(s), w'[t] # w[t]
      PROVE  exp[w'[t].uid].phase = "Pending" /\ ~exp[w'[t].uid].deleting
  <2>1. PICK u \in Uids, pc \in Steps, p \in Phases, b \in BOOLEAN :
          /\ Begin(s, u, pc, p, b)
          /\ pc \in Injecting => exp[u].phase = "Pending" /\ ~exp[u].deleting
    BY <1>0, <1>3 DEF Reconcile, Current, Steps, Phases, TypeInv, TypeOK, Object, Injecting
  <2>2. Moved(s, pc, u, exp[u].deleting, {}, p, b)
    BY <1>0, <2>1, Begins DEF TypeInv, TypeOK
  <2> QED
    BY <1>3, <2>1, <2>2 DEF Moved
<1>4. CASE Crash
  BY <1>4 DEF Crash, IdleWorker, Injecting
<1> QED
  BY <1>1, <1>2, <1>3, <1>4
     DEF Next, Apply, Delete, UserCreates, UserDeletes, Collect

\* A step changes the object of an experiment in one of these ways.
LEMMA ObjectSteps ==
    ASSUME Control, Next, NEW u \in Uids
    PROVE  \/ exp'[u] = exp[u]
           \/ /\ \E s \in Slots : Apply(s)
              /\ exp[u] = Unborn /\ exp'[u].state = "stored"
              /\ exp'[u].phase = "Pending" /\ ~exp'[u].deleting /\ exp'[u].cleaned = exp[u].cleaned
           \/ /\ Stored(u) /\ Stored(u)' /\ exp'[u].cleaned = exp[u].cleaned
              /\ exp'[u].phase = exp[u].phase /\ (exp[u].deleting => exp'[u].deleting)
              /\ mesh' = mesh
           \/ /\ Stored(u) /\ exp'[u].state = "gone" /\ exp'[u].cleaned = exp[u].cleaned
              /\ mesh' = mesh
           \/ /\ Stored(u) /\ Stored(u)' /\ mesh' = mesh
              /\ \E s \in Slots : /\ PatchStatus(s) /\ u = w[s].uid
                                  /\ exp'[u].phase = w[s].phase
                                  /\ exp'[u].cleaned = w[s].cleaned
<1>0. /\ TypeInv /\ exp \in [Uids -> Object] /\ exp[u] \in Object /\ ObjectInv(exp[u])
  BY DEF Control, TypeInv, TypeOK
<1> DEFINE Same == /\ Stored(u) /\ Stored(u)' /\ exp'[u].cleaned = exp[u].cleaned
                   /\ exp'[u].phase = exp[u].phase /\ (exp[u].deleting => exp'[u].deleting)
                   /\ mesh' = mesh
           Away == /\ Stored(u) /\ exp'[u].state = "gone" /\ exp'[u].cleaned = exp[u].cleaned
                   /\ mesh' = mesh
<1>1. ASSUME NEW s \in Slots, Call(s), exp'[u] # exp[u]
      PROVE  \/ Same \/ Away
             \/ /\ Stored(u) /\ Stored(u)' /\ mesh' = mesh
                /\ PatchStatus(s) /\ u = w[s].uid
                /\ exp'[u].phase = w[s].phase /\ exp'[u].cleaned = w[s].cleaned
  <2>1. CASE AddFinalizer(s) /\ Stored(u) /\ exp'[u] = [exp[u] EXCEPT !.finalizer = TRUE]
    BY <1>0, <2>1 DEF AddFinalizer, Stored, Object
  <2>2. CASE /\ PatchStatus(s) /\ u = w[s].uid /\ Stored(u)
             /\ exp'[u] = [exp[u] EXCEPT !.phase = w[s].phase, !.cleaned = w[s].cleaned]
    BY <1>0, <2>2 DEF PatchStatus, Stored, Object
  <2>3. CASE RemoveFinalizer(s) /\ Stored(u) /\ exp'[u] = Gone(exp[u])
    BY <1>0, <2>3 DEF RemoveFinalizer, Gone, Unborn
  <2> QED
    BY <1>1, <2>1, <2>2, <2>3, CallObjects
<1>2. ASSUME NEW s \in Slots, Delete(s), exp'[u] # exp[u] PROVE Same \/ Away
  <2>1. mesh' = mesh
    BY <1>2 DEF Delete
  <2>2. \/ Stored(u) /\ exp'[u] = [exp[u] EXCEPT !.deleting = TRUE]
        \/ Stored(u) /\ exp'[u] = Gone(exp[u])
    BY <1>2, DeleteObjects
  <2> QED
    BY <1>0, <2>1, <2>2 DEF Stored, Object, Gone, Unborn
<1>3. ASSUME NEW s \in Slots, Apply(s), exp'[u] # exp[u]
      PROVE  /\ exp[u] = Unborn /\ exp'[u].state = "stored"
             /\ exp'[u].phase = "Pending" /\ ~exp'[u].deleting /\ exp'[u].cleaned = exp[u].cleaned
  <2>1. /\ exp[u].state = "unborn"
        /\ exp'[u] = [Unborn EXCEPT !.state = "stored", !.slot = s]
    BY <1>0, <1>3 DEF Apply
  <2> QED
    BY <1>0, <2>1 DEF ObjectInv, Unborn
<1> QED
  BY <1>1, <1>2, <1>3 DEF Next, Reconcile, Begin, UserCreates, UserDeletes, Collect, Crash

\* A patch never makes an experiment Pending.
LEMMA PatchedPhase ==
    ASSUME Control, NEW s \in Slots, w[s].pc = "patch"
    PROVE  /\ w[s].phase # "Pending"
           /\ w[s].cleaned # exp[w[s].uid].cleaned =>
                w[s].cleaned /\ exp[w[s].uid].phase \in Terminal
<1>1. /\ Work(s) /\ w[s].cleaned \in BOOLEAN
      /\ exp[w[s].uid].cleaned \in BOOLEAN /\ ObjectInv(exp[w[s].uid])
      /\ exp[w[s].uid].state = "stored"
  <2>1. w[s].uid \in Uids /\ Stored(w[s].uid)
    BY Mine DEF Busy, Steps
  <2> QED
    BY <2>1 DEF Control, TypeInv, TypeOK, Worker, Object, Stored
<1> QED
  BY <1>1 DEF Work, WorkOn, Transitions, Terminal, ObjectInv

\* An experiment whose cleanup is under way can inject no more.
LEMMA NoLongerArmed ==
    ASSUME Control, NEW s \in Slots, w[s].pc \in Busy \ Injecting,
           exp[w[s].uid].phase # "Pending" \/ exp[w[s].uid].deleting
    PROVE  w[s].uid \in Uids /\ Stage(w[s].uid) = "spent"
<1>1. w[s].uid \in Uids /\ Stored(w[s].uid) /\ Current(s) = {w[s].uid}
  BY Mine
<1>2. ASSUME NEW t \in Slots, w[t].uid = w[s].uid PROVE w[t].pc \notin Injecting
  <2>1. w[t].pc \in Busy => exp[w[t].uid].slot = t /\ exp[w[s].uid].slot = s
    BY Mine
  <2> QED
    BY <1>2, <2>1 DEF Injecting, Busy, Steps
<1> QED
  BY <1>1, <1>2 DEF Stage, MayInject, Stored, Injecting

\* What is no longer armed never is again, and what is gone stays gone.
LEMMA StageSteps ==
    ASSUME Control, Next, NEW u \in Uids
    PROVE  /\ Stage(u)' = "armed" => Stage(u) = "armed"
           /\ Stage(u) = "gone" => Stage(u)' = "gone"
<1>0. exp[u] \in Object /\ exp \in [Uids -> Object]
  BY DEF Control, TypeInv, TypeOK
<1>1. exp[u].state = "gone" => exp'[u].state = "gone"
  BY ObjectSteps DEF Stored, Unborn
<1>2. ASSUME exp'[u].state # "gone", MayInject(u)' PROVE MayInject(u)
  <2>1. CASE exp'[u].state = "unborn"
    BY <2>1, ObjectSteps DEF MayInject, Stored
  <2>2. CASE exp'[u].phase = "Pending" /\ ~exp'[u].deleting /\ exp'[u].state = "stored"
    <3>1. \A s \in Slots : PatchStatus(s) => w[s].phase # "Pending"
      BY PatchedPhase DEF PatchStatus
    <3> QED
      BY <2>2, <3>1, ObjectSteps DEF MayInject, Unborn
  <2>3. CASE \E t \in Slots : w'[t].uid = u /\ w'[t].pc \in Injecting
    <3>1. PICK t \in Slots : w'[t].uid = u /\ w'[t].pc \in Injecting
      BY <2>3
    <3> QED
      BY <3>1, InjectingStarts DEF MayInject, Injecting
  <2>4. exp'[u] \in Object
    BY <1>0, ControlNext DEF Control, TypeInv, TypeOK
  <2> QED
    BY <1>2, <2>1, <2>2, <2>3, <2>4 DEF MayInject, Injecting, Object
<1> QED
  BY <1>1, <1>2 DEF Stage

\* The fault comes with an injection and goes with a retraction or a collection.
LEMMA FaultSteps ==
    ASSUME Apart, FaultInv, Next, NEW u \in Uids, ~(Injected(u)' <=> Injected(u))
    PROVE  /\ exp' = exp
           /\ \/ Stage(u) = "armed" /\ Injected(u)'
              \/ Stage(u) \in {"spent", "gone"} /\ ~Injected(u)'
<1>0. /\ Control /\ TypeInv /\ Owned /\ OwnedInv /\ exp[u] \in Object
  BY DEF FaultInv, OwnedInv, Control, TypeInv, TypeOK
<1>1. Injected(u) => exp[u].state \in {"stored", "gone"}
  BY <1>0, Managed DEF Injected, Owned, Object
<1>2. ASSUME NEW s \in Slots, CreateVs(s)
      PROVE  exp' = exp /\ Stage(u) = "armed" /\ Injected(u)'
  <2>1. /\ mesh \subseteq mesh' /\ exp' = exp /\ w[s].pc = "create_vs"
        /\ mesh' \subseteq mesh \cup {build_virtual_service(s, w[s].uid)}
    BY <1>2 DEF CreateVs
  <2>2. u = w[s].uid /\ Injected(u)'
    BY <2>1 DEF Injected, build_virtual_service
  <2>3. exp[u].state = "stored"
    BY <1>0, <2>1, <2>2, Mine DEF Busy, Steps, Stored
  <2> QED
    BY <2>1, <2>2, <2>3 DEF Stage, MayInject
<1>3. ASSUME NEW s \in Slots, DeleteVs(s)
      PROVE  exp' = exp /\ Stage(u) \in {"spent", "gone"} /\ ~Injected(u)'
  <2>1. mesh' \subseteq mesh /\ exp' = exp /\ w[s].pc = "delete_vs"
    BY <1>3 DEF DeleteVs
  <2>2. Injected(u) /\ ~Injected(u)'
    BY <2>1 DEF Injected
  <2>3. CASE exp[u].state = "gone"
    BY <2>1, <2>2, <2>3 DEF Stage
  <2>4. CASE Stored(u)
    <3>1. u = w[s].uid
      BY <1>3, <2>4, CallFault DEF Call
    <3>2. exp[u].deleting \/ exp[u].phase # "Pending"
      BY <1>0, <2>1, <3>1 DEF Control, Work, WorkOn, Cleaning, Terminal
    <3> QED
      BY <1>0, <2>1, <2>2, <3>1, <3>2, NoLongerArmed DEF Busy, Injecting, Steps
  <2> QED
    BY <1>1, <2>2, <2>3, <2>4 DEF Stored
<1>4. ASSUME NEW v \in mesh, Collect(v)
      PROVE  exp' = exp /\ Stage(u) \in {"spent", "gone"} /\ ~Injected(u)'
  <2>1. mesh' \subseteq mesh /\ exp' = exp
    BY <1>4 DEF Collect
  <2>2. Injected(u) /\ ~Injected(u)' /\ ~Stored(u)
    BY <1>0, <1>4, <2>1, CollectFault DEF Injected
  <2> QED
    BY <1>1, <2>1, <2>2 DEF Stage, Stored
<1>5. ASSUME NEW v \in UserVs, UserCreates(v) \/ UserDeletes(v) PROVE FALSE
  <2>1. v.uid # u
    BY UserVsAssumption, BoundAssumption DEF Uids, NoUid
  <2> QED
    BY <1>5, <2>1 DEF UserCreates, UserDeletes, Injected
<1>6. mesh' # mesh
  BY DEF Injected
<1> QED
  BY <1>2, <1>3, <1>4, <1>5, <1>6, CallFrame DEF Next, Reconcile, Begin, Apply, Delete, Crash

\* The record of the cleanup is made of a spent experiment, without its fault.
LEMMA RecordSteps ==
    ASSUME FaultInv, Next, NEW u \in Uids, exp'[u].cleaned # exp[u].cleaned
    PROVE  /\ Stage(u) = "spent" /\ exp'[u].state = "stored" /\ mesh' = mesh
           /\ ~Injected(u)
<1>0. Control /\ \A s \in Slots : Cleanup(s)
  BY DEF FaultInv, OwnedInv
<1>1. PICK s \in Slots :
        /\ PatchStatus(s) /\ u = w[s].uid /\ exp'[u].state = "stored" /\ mesh' = mesh
        /\ exp'[u].cleaned = w[s].cleaned
  BY <1>0, ObjectSteps DEF Stored, Unborn
<1>2. w[s].pc = "patch" /\ w[s].cleaned /\ exp[u].phase \in Terminal
  BY <1>0, <1>1, PatchedPhase DEF PatchStatus
<1>3. Stage(u) = "spent"
  BY <1>0, <1>1, <1>2, NoLongerArmed DEF Busy, Injecting, Steps, Terminal
<1> QED
  BY <1>0, <1>1, <1>2, <1>3 DEF Cleanup

LEMMA RefineNext ==
    ASSUME Apart, FaultInv, Next, NEW u \in Uids
    PROVE  Lifecycle(u)!Next \/ UNCHANGED Lifecycle(u)!vars
<1>0. Control /\ Control'
  BY ControlNext DEF FaultInv, OwnedInv
<1>1. /\ Stage(u) \in {"armed", "spent", "gone"} /\ Stage(u)' \in {"armed", "spent", "gone"}
      /\ Stage(u)' = "armed" => Stage(u) = "armed"
      /\ Stage(u) = "gone" => Stage(u)' = "gone"
      /\ exp'[u].state = "gone" <=> Stage(u)' = "gone"
      /\ exp[u].state = "gone" <=> Stage(u) = "gone"
  BY <1>0, StageSteps DEF Stage
<1>2. CASE ~(Injected(u)' <=> Injected(u))
  <2>1. exp' = exp /\ (Stage(u)' = "gone" <=> Stage(u) = "gone")
    BY <1>1, <1>2, FaultSteps
  <2>2. \/ Stage(u) = "armed" /\ Stage(u)' \in {"armed", "spent"} /\ Injected(u)'
        \/ Stage(u) = "spent" /\ Stage(u)' = "spent" /\ ~Injected(u)'
        \/ Stage(u) = "gone" /\ Stage(u)' = "gone" /\ ~Injected(u)'
    BY <1>1, <1>2, <2>1, FaultSteps
  <2>3. (Injected(u)' => Injected(u)' = TRUE) /\ (~Injected(u)' => Injected(u)' = FALSE)
    BY DEF Injected
  <2> QED
    BY <2>1, <2>2, <2>3
       DEF Lifecycle!Next, Lifecycle!Inject, Lifecycle!Retract, Lifecycle!Collect
<1>3. CASE (Injected(u)' <=> Injected(u)) /\ exp'[u].cleaned # exp[u].cleaned
  <2>1. /\ Stage(u) = "spent" /\ Stage(u)' = "spent" /\ ~Injected(u)
    BY <1>1, <1>3, RecordSteps
  <2>2. exp'[u].cleaned \in BOOLEAN
    BY <1>0 DEF Control, TypeInv, TypeOK, Object
  <2>3. Injected(u)' = Injected(u)
    BY <1>3 DEF Injected
  <2> QED
    BY <2>1, <2>2, <2>3 DEF Lifecycle!Next, Lifecycle!Record
<1>4. CASE (Injected(u)' <=> Injected(u)) /\ exp'[u].cleaned = exp[u].cleaned
  <2>1. Injected(u)' = Injected(u)
    BY <1>4 DEF Injected
  <2>2. \/ Stage(u)' = Stage(u) \/ Stage(u)' = "gone"
        \/ Stage(u) = "armed" /\ Stage(u)' = "spent"
    BY <1>1
  <2> QED
    BY <1>4, <2>1, <2>2 DEF Lifecycle!Next, Lifecycle!Spend, Lifecycle!Vanish, Lifecycle!vars
<1> QED
  BY <1>2, <1>3, <1>4

LEMMA RefineInit == Init => \A u \in Uids : Lifecycle(u)!Init
BY UserVsAssumption, BoundAssumption
   DEF Init, Lifecycle!Init, Stage, MayInject, Injected, Unborn, Uids, NoUid

\* Every experiment lives as FaultLifecycle describes, as if there were no other:
\* its fault is put in only while it is armed, by its own reconcile; what is no
\* longer armed never is again; it is recorded as cleaned up only when its fault
\* is out; and only its own cleanup, or the garbage collector after its end,
\* takes the fault out.
THEOREM EachLifecycleImplemented == Apart => (Spec => EachImplementsLifecycle)
<1> SUFFICES ASSUME Apart PROVE Spec => EachImplementsLifecycle
  OBVIOUS
<1>1. FaultInv /\ [Next]_vars =>
        [\A u \in Uids : Lifecycle(u)!Next \/ UNCHANGED Lifecycle(u)!vars]_vars
  BY RefineNext
<1> QED
  BY <1>1, RefineInit, FaultCorrect, PTL DEF Spec, EachImplementsLifecycle

=============================================================================
