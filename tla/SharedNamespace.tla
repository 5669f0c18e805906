-------------------------- MODULE SharedNamespace --------------------------
(***************************************************************************)
(* Several edge experiments in one cluster (src/src/operator/reconciler.rs,*)
(* istio_injector.rs, graph_builder.rs, kube_client.rs): what they share   *)
(* is the namespace of their VirtualServices, the names and labels of      *)
(* these, the users' own VirtualServices and the garbage collector.        *)
(*                                                                         *)
(* One operator process reconciles different objects at the same time and  *)
(* one object at most once, call by call.  Lagging caches, times and       *)
(* invalid specs are the subject of Reconciler: here a reconcile starts    *)
(* from the stored object, a run elapses at any time and specs are valid.  *)
(***************************************************************************)
EXTENDS Integers, FiniteSets, Sequences

CONSTANTS
    Slots,        \* the experiments users may apply, each under its own name
    UserVs,       \* the VirtualServices that users may keep
    Worlds,       \* the services, and the traffic, that the cluster may have
    VsName,       \* virtual_service_name: by uid
    MinRps,       \* min_rps of the graph builder
    Generations,  \* bound on the objects ever applied
    MaxFaults     \* bound on the API calls that fail and the operator restarts

NoNs == "none"
NoUid == 0
Uids == 1..Generations

\* A VirtualService: its key, the host whose traffic it routes, its two labels
\* and the uid in its ownerReference.
VsType(v) == /\ v.managed \in BOOLEAN /\ v.uid \in Uids \cup {NoUid}
             /\ DOMAIN v = {"name", "ns", "host", "managed", "label", "uid"}

ASSUME BoundAssumption == Generations \in Nat /\ MaxFaults \in Nat
                          /\ DOMAIN VsName = 1..Generations
ASSUME UserVsAssumption == \A v \in UserVs : VsType(v) /\ ~v.managed /\ v.uid = NoUid

\* A cluster: services that have a selector, as name and namespace, and the metrics.
MetricType == [source: STRING, destination: STRING, ns: STRING, rps: Nat]
ASSUME WorldsAssumption == MinRps \in Nat /\ \A c \in Worlds : c.metrics \in Seq(MetricType)

VARIABLES
    world,    \* the services with a selector, and the metrics in their order
    exp,      \* exp[u]: the object of uid u, through its whole life
    mesh,     \* the VirtualServices of the cluster, the users' among them
    w,        \* w[s]: the reconcile of the object in slot s
    held,     \* history: held[s]: users' VirtualServices in the way of the object
              \* in slot s ever since it was applied
    seen,     \* history: those in its way at some time since
    errors, crashes

vars == <<world, exp, mesh, w, held, seen, errors, crashes>>
history == <<held, seen>>
budget == <<errors, crashes>>

Phases == {"Pending", "Running", "Succeeded", "Failed"}
Terminal == {"Succeeded", "Failed"}
NoSlot == [name |-> "none", namespace |-> NoNs, targetNamespace |-> NoNs,
           source |-> "none", destination |-> "none"]

Object == [state: {"unborn", "stored", "gone"}, slot: Slots \cup {NoSlot},
           finalizer: BOOLEAN, deleting: BOOLEAN, phase: Phases, cleaned: BOOLEAN]

Unborn == [state |-> "unborn", slot |-> NoSlot, finalizer |-> FALSE,
           deleting |-> FALSE, phase |-> "Pending", cleaned |-> FALSE]

\* What is remembered of an object that is gone: was it recorded as cleaned up?
Gone(o) == [Unborn EXCEPT !.state = "gone", !.cleaned = o.cleaned]

\* The next call, the uid of the snapshot and whether it is being deleted, the
\* names of the VirtualServices the loop has left, the phase and cleanupDone
\* of the status patch.
Steps == {"idle", "add_finalizer", "selector", "conflicts", "edge", "create_vs",
          "list_vs", "delete_vs", "remove_finalizer", "patch"}
Worker == [pc: Steps, uid: Uids \cup {NoUid}, deletes: BOOLEAN,
           todo: SUBSET {VsName[u] : u \in Uids}, phase: Phases, cleaned: BOOLEAN]
IdleWorker == [pc |-> "idle", uid |-> NoUid, deletes |-> FALSE, todo |-> {},
               phase |-> "Pending", cleaned |-> FALSE]

TypeOK ==
    /\ world \in Worlds
    /\ exp \in [Uids -> Object]
    /\ \A v \in mesh : VsType(v)
    /\ w \in [Slots -> Worker]
    /\ held \in [Slots -> SUBSET UserVs] /\ seen \in [Slots -> SUBSET UserVs]
    /\ \A s \in Slots : held[s] \subseteq seen[s]
    /\ errors \in Nat /\ crashes \in Nat /\ errors + crashes <= MaxFaults

Init ==
    /\ world \in Worlds
    /\ exp = [u \in Uids |-> Unborn]
    /\ mesh \in SUBSET UserVs
    /\ w = [s \in Slots |-> IdleWorker]
    /\ held = [s \in Slots |-> {}] /\ seen = [s \in Slots |-> {}]
    /\ errors = 0 /\ crashes = 0

\* spec.targetNamespace, or else the namespace of the experiment;
\* spec.target.namespace is not looked at.
target_namespace(s) == IF s.targetNamespace = NoNs THEN s.namespace
                                                   ELSE s.targetNamespace

\* The host of the destination service, of the services of one namespace.
fqdn(s) == <<s.destination, target_namespace(s)>>

\* The object stored under the name of slot s, if there is one.
Current(s) == {u \in Uids : exp[u].state = "stored" /\ exp[u].slot = s}

InNs(ns) == {v \in mesh : v.ns = ns}
Foreign(s) == {v \in InNs(target_namespace(s)) : ~v.managed}

(***************************************************************************)
(* API calls: answered, refused, or carried out with the answer lost.      *)
(***************************************************************************)
Answers == {"ok", "refused", "lost"}
Applied(r) == r # "refused"
Charge(r) == IF r = "ok" THEN UNCHANGED errors
             ELSE errors + crashes < MaxFaults /\ errors' = errors + 1

Goto(s, pc) == w' = [w EXCEPT ![s].pc = pc, ![s].todo = {}]
GotoPatch(s, phase) == w' = [w EXCEPT ![s].pc = "patch", ![s].phase = phase]
Finish(s) == w' = [w EXCEPT ![s] = IdleWorker]

\* A patch goes to whatever object has the name by now, if there is one.
Patched(s, r) == IF Applied(r) THEN Current(s) ELSE {}

(***************************************************************************)
(* reconcile: dispatch on the snapshot.                                    *)
(***************************************************************************)
Begin(s, u, pc, phase, cleaned) ==
    /\ w' = [w EXCEPT ![s] = [pc |-> pc, uid |-> u, deletes |-> exp[u].deleting,
                              todo |-> {}, phase |-> phase, cleaned |-> cleaned]]
    /\ UNCHANGED <<world, exp, mesh, history, budget>>

Reconcile(s) ==
    /\ w[s].pc = "idle"
    /\ \E u \in Current(s) :
         \/ ~exp[u].finalizer /\ Begin(s, u, "add_finalizer", "Pending", FALSE)
         \/ /\ exp[u].finalizer /\ exp[u].deleting
            /\ Begin(s, u, "list_vs", exp[u].phase, FALSE)
         \/ /\ exp[u].finalizer /\ ~exp[u].deleting
            /\ \/ /\ exp[u].phase = "Pending"
                  /\ Begin(s, u, "selector", "Running", FALSE)
               \/ /\ exp[u].phase = "Running"     \* its duration elapsed
                  /\ Begin(s, u, "patch", "Succeeded", FALSE)
               \/ /\ exp[u].phase \in Terminal /\ ~exp[u].cleaned
                  /\ Begin(s, u, "list_vs", exp[u].phase, TRUE)

AddFinalizer(s) ==
    /\ w[s].pc = "add_finalizer"
    /\ \E r \in Answers :
         /\ Charge(r)
         /\ exp' = [u \in Uids |-> IF u \in Patched(s, r)
                                THEN [exp[u] EXCEPT !.finalizer = TRUE] ELSE exp[u]]
    /\ Finish(s)
    /\ UNCHANGED <<world, mesh, history, crashes>>

RemoveFinalizer(s) ==
    /\ w[s].pc = "remove_finalizer"
    /\ \E r \in Answers :
         /\ Charge(r)
         /\ exp' = [u \in Uids |->
              IF u \notin Patched(s, r) THEN exp[u]
              ELSE IF exp[u].deleting THEN Gone(exp[u])
              ELSE [exp[u] EXCEPT !.finalizer = FALSE]]
    /\ Finish(s)
    /\ UNCHANGED <<world, mesh, history, crashes>>

PatchStatus(s) ==
    /\ w[s].pc = "patch"
    /\ \E r \in Answers :
         /\ Charge(r)
         /\ exp' = [u \in Uids |->
              IF u \in Patched(s, r)
              THEN [exp[u] EXCEPT !.phase = w[s].phase, !.cleaned = w[s].cleaned]
              ELSE exp[u]]
    /\ Finish(s)
    /\ UNCHANGED <<world, mesh, history, crashes>>

\* get_service_selector: a missing service, one without a selector and a failed
\* call are all a rejection.
GetSelector(s) ==
    /\ w[s].pc = "selector"
    /\ \/ /\ UNCHANGED errors
          /\ IF <<s.source, target_namespace(s)>> \in world.services
             THEN Goto(s, "conflicts") ELSE GotoPatch(s, "Failed")
       \/ Charge("refused") /\ GotoPatch(s, "Failed")
    /\ UNCHANGED <<world, exp, mesh, history, crashes>>

\* Mutant: a VirtualService of another experiment is a conflict too.
ConflictsWithAny(s) == InNs(target_namespace(s))

\* list_virtual_services_for_host lists the namespace, whatever the host: every
\* VirtualService that is not chaos-managed is a conflict.
Conflicts(s) == Foreign(s)

ListConflicts(s) ==
    /\ w[s].pc = "conflicts"
    /\ \/ /\ UNCHANGED errors
          /\ IF Conflicts(s) = {} THEN Goto(s, "edge") ELSE GotoPatch(s, "Failed")
       \/ Charge("refused") /\ Finish(s)
    /\ UNCHANGED <<world, exp, mesh, history, crashes>>

IsEdge(m, s) == /\ m.source = s.source /\ m.destination = s.destination
                /\ m.ns = target_namespace(s)

EdgeMetrics(s) == {i \in 1..Len(world.metrics) : IsEdge(world.metrics[i], s)}

\* Mutant: the namespace of the source workload is not compared.
FindAnywhere(s) ==
    \E i \in 1..Len(world.metrics) : /\ world.metrics[i].source = s.source
                                     /\ world.metrics[i].destination = s.destination
                                     /\ world.metrics[i].rps >= MinRps

\* The first metric of the edge decides, whichever workload it leads to.
find_edge(s) ==
    \E i \in EdgeMetrics(s) : /\ \A j \in EdgeMetrics(s) : i <= j
                              /\ world.metrics[i].rps >= MinRps

ResolveEdge(s) ==
    /\ w[s].pc = "edge"
    /\ \/ /\ UNCHANGED errors
          /\ IF find_edge(s) THEN Goto(s, "create_vs") ELSE GotoPatch(s, "Failed")
       \/ Charge("refused") /\ GotoPatch(s, "Failed")
    /\ UNCHANGED <<world, exp, mesh, history, crashes>>

\* Mutant: the VirtualService is named after the experiment.
NamedVs(s, u) == [name |-> s.name, ns |-> target_namespace(s), host |-> fqdn(s),
                  managed |-> TRUE, label |-> s.name, uid |-> u]

build_virtual_service(s, u) ==
    [name |-> VsName[u], ns |-> target_namespace(s), host |-> fqdn(s),
     managed |-> TRUE, label |-> s.name, uid |-> u]

\* A name that is taken answers 409, which is taken for success.
CreateVs(s) ==
    /\ w[s].pc = "create_vs"
    /\ LET v == build_virtual_service(s, w[s].uid)
           taken == \E x \in InNs(v.ns) : x.name = v.name
       IN \E r \in Answers :
            /\ Charge(r)
            /\ mesh' = IF Applied(r) /\ ~taken THEN mesh \cup {v} ELSE mesh
            /\ IF r = "ok" THEN GotoPatch(s, "Running") ELSE Finish(s)
    /\ UNCHANGED <<world, exp, history, crashes>>

AfterVs(s) == IF w[s].deletes THEN "remove_finalizer" ELSE "patch"
CleanupFailed(s) == IF w[s].deletes THEN Goto(s, "remove_finalizer") ELSE Finish(s)

\* Mutants: only one of the two labels is compared.
SelectsManaged(s) == {v.name : v \in {x \in InNs(target_namespace(s)) : x.managed}}
SelectsLabelled(s) == {v.name : v \in {x \in InNs(target_namespace(s)) :
                                          x.label = s.name}}

\* cleanup_virtual_services selects by the name of the experiment alone.
Selected(s) == {v.name : v \in {x \in InNs(target_namespace(s)) :
                                  x.managed /\ x.label = s.name}}

ListVs(s) ==
    /\ w[s].pc = "list_vs"
    /\ \/ /\ UNCHANGED errors
          /\ IF Selected(s) = {} THEN Goto(s, AfterVs(s))
             ELSE w' = [w EXCEPT ![s].pc = "delete_vs", ![s].todo = Selected(s)]
       \/ Charge("refused") /\ CleanupFailed(s)
    /\ UNCHANGED <<world, exp, mesh, history, crashes>>

DeleteVs(s) ==
    /\ w[s].pc = "delete_vs"
    /\ \E n \in w[s].todo, r \in Answers :
         /\ Charge(r)
         /\ mesh' = IF Applied(r)
                    THEN {v \in mesh : ~(v.ns = target_namespace(s) /\ v.name = n)}
                    ELSE mesh
         /\ IF r # "ok" THEN CleanupFailed(s)
            ELSE IF w[s].todo = {n} THEN Goto(s, AfterVs(s))
            ELSE w' = [w EXCEPT ![s].todo = @ \ {n}]
    /\ UNCHANGED <<world, exp, history, crashes>>

(***************************************************************************)
(* The surroundings: users, restarts, garbage collection.                  *)
(***************************************************************************)
Apply(s) ==
    /\ Current(s) = {}
    /\ \E u \in Uids :
         /\ exp[u].state = "unborn" /\ \A x \in 1..u-1 : exp[x].state # "unborn"
         /\ exp' = [exp EXCEPT ![u] = [Unborn EXCEPT !.state = "stored", !.slot = s]]
    /\ held' = [held EXCEPT ![s] = Foreign(s)]
    /\ seen' = [seen EXCEPT ![s] = Foreign(s)]
    /\ UNCHANGED <<world, mesh, w, budget>>

Delete(s) ==
    /\ \E u \in Current(s) :
         /\ ~exp[u].deleting
         /\ exp' = [exp EXCEPT ![u] = IF @.finalizer THEN [@ EXCEPT !.deleting = TRUE]
                                      ELSE Gone(@)]
    /\ UNCHANGED <<world, mesh, w, history, budget>>

InTheWay(v, s) == Current(s) # {} /\ target_namespace(s) = v.ns

UserCreates(v) ==
    /\ v \notin mesh /\ mesh' = mesh \cup {v}
    /\ seen' = [s \in Slots |-> IF InTheWay(v, s) THEN seen[s] \cup {v} ELSE seen[s]]
    /\ UNCHANGED <<world, exp, w, held, budget>>

UserDeletes(v) ==
    /\ v \in mesh /\ mesh' = mesh \ {v}
    /\ held' = [s \in Slots |-> held[s] \ {v}]
    /\ UNCHANGED <<world, exp, w, seen, budget>>

\* The garbage collector looks an owner up by uid in the namespace of the
\* dependent: an owner in another namespace counts as gone.
OwnerFound(v) == \E u \in Uids : /\ exp[u].state = "stored" /\ u = v.uid
                                 /\ exp[u].slot.namespace = v.ns

Collect(v) ==
    /\ v.managed /\ ~OwnerFound(v)
    /\ mesh' = mesh \ {v}
    /\ UNCHANGED <<world, exp, w, history, budget>>

Crash ==
    /\ errors + crashes < MaxFaults /\ crashes' = crashes + 1
    /\ w' = [s \in Slots |-> IdleWorker]
    /\ UNCHANGED <<world, exp, mesh, history, errors>>

Call(s) == \/ AddFinalizer(s) \/ RemoveFinalizer(s) \/ PatchStatus(s)
           \/ GetSelector(s) \/ ListConflicts(s) \/ ResolveEdge(s) \/ CreateVs(s)
           \/ ListVs(s) \/ DeleteVs(s)

Next == \/ \E s \in Slots : Reconcile(s) \/ Call(s) \/ Apply(s) \/ Delete(s)
        \/ \E v \in UserVs : UserCreates(v) \/ UserDeletes(v)
        \/ \E v \in mesh : Collect(v)
        \/ Crash

Spec == Init /\ [][Next]_vars

(***************************************************************************)
(* Properties.                                                             *)
(***************************************************************************)

\* Experiment u's own VirtualService is in the mesh.
Injected(u) == \E v \in mesh : v.uid = u

\* An experiment that is recorded as Running has its fault in the mesh, whatever
\* the cleanup of other experiments, an earlier one of its own name among them,
\* and the garbage collector delete (cleanup_virtual_services, handle_pending_edge).
RunningHasFault ==
    \A u \in Uids : exp[u].state = "stored" /\ ~exp[u].deleting
                    /\ exp[u].phase = "Running" => Injected(u)

\* A fault is put into a namespace only if at some time since the experiment was
\* applied no VirtualService of a user was there, and only on an edge that the
\* observed graph shows with enough traffic (steps 1 to 3 of handle_pending_edge,
\* which a retry runs again).
InjectsOnlyWhereItMay ==
    \A u \in Uids : exp[u].state = "stored" /\ Injected(u) =>
        LET s == exp[u].slot
        IN /\ held[s] = {}
           /\ <<s.source, target_namespace(s)>> \in world.services
           /\ \E i \in EdgeMetrics(s) : world.metrics[i].rps >= MinRps

\* What an experiment may be turned down for, when vs are the VirtualServices that
\* count as in its way: these, no source service, an edge that is not observed or
\* part of whose traffic is below the threshold.
HasCause(s, vs) == \/ vs # {}
                   \/ <<s.source, target_namespace(s)>> \notin world.services
                   \/ EdgeMetrics(s) = {}
                   \/ \E i \in EdgeMetrics(s) : world.metrics[i].rps < MinRps

\* When no call failed, an experiment is turned down only for such a cause, or for
\* a VirtualService that a user had in its namespace: another experiment on the
\* same service, or its leftovers, is not one (is_chaos_managed).
FailedHasCause ==
    \A u \in Uids : exp[u].phase = "Failed" /\ errors = 0
                    => HasCause(exp[u].slot, seen[exp[u].slot])

\* The same of those VirtualServices only that are for the destination's host, as
\* src/docs/arch.md:317-320 has it: what list_virtual_services_for_host is named
\* after and does not look at.
FailedForItsHost ==
    \A u \in Uids : exp[u].phase = "Failed" /\ errors = 0 =>
        LET s == exp[u].slot
        IN HasCause(s, {v \in seen[s] : v.host = fqdn(s)})

(***************************************************************************)
(* The abstract specification, once for each experiment.                   *)
(***************************************************************************)
MayInject(u) ==
    \/ exp[u].state = "unborn"
    \/ exp[u].phase = "Pending" /\ ~exp[u].deleting
    \/ \E s \in Slots : /\ w[s].uid = u
                        /\ w[s].pc \in {"selector", "conflicts", "edge", "create_vs"}

Stage(u) == IF exp[u].state = "gone" THEN "gone"
            ELSE IF MayInject(u) THEN "armed" ELSE "spent"

Lifecycle(u) == INSTANCE FaultLifecycle WITH
    stage <- Stage(u), fault <- Injected(u), cleaned <- exp[u].cleaned

\* Each experiment's fault is put in, taken out and recorded as cleaned up by its
\* own life only, as if there were no other experiment: FaultLifecycle holds of
\* every one of them (the label of cleanup_virtual_services, the ownerReference).
EachImplementsLifecycle ==
    /\ \A u \in Uids : Lifecycle(u)!Init
    /\ [][\A u \in Uids : Lifecycle(u)!Next \/ UNCHANGED Lifecycle(u)!vars]_vars
=============================================================================
