--------------------------- MODULE ServiceImpact ---------------------------
(***************************************************************************)
(* What a ChaosImpactMap computes between its queries and its patch        *)
(* (src/src/operator/impact_map_reconciler.rs): the impact score of every  *)
(* measured workload (crd.rs), the service graph from the observed traffic *)
(* (graph_builder.rs), and which workloads are downstream of the service   *)
(* the fault was injected in front of.  Rates are whole numbers, error     *)
(* rates are percents.                                                     *)
(***************************************************************************)
EXTENDS Integers

CONSTANTS
    Workloads,     \* the workload keys of the cluster
    Nowhere,       \* the key of a service that no workload is known for
    Services,      \* destination service names
    NoService,
    Namespaces,
    NoNamespace,
    NamespaceOf,   \* the namespace of a workload
    Namesake,      \* Namesake[s, ns]: the workload of ns with the name of s
    Requests,      \* the experiments and reports to consider
    Traffics,      \* the sets of edges that Prometheus may have observed
    Measurements,  \* the readings it may have of the workloads
    Thresholds     \* the values of spec.minImpact

Pair == [baseline: Nat, during: Nat]
Reading == [latency: Pair, errors: Pair, throughput: Pair]
NoReading == [latency |-> "none"]

\* The destination of the experiment's edge, if its scenario has one, and the
\* places its namespace may be taken from.
Request == [service: Services \cup {NoService},
            targetNamespace: Namespaces \cup {NoNamespace},
            edgeNamespace: Namespaces \cup {NoNamespace},
            experimentNamespace: Namespaces, reportNamespace: Namespaces]

Edge == [source: Workloads, destination: Workloads,
         service: Services \cup {NoService}]

ASSUME KeysAssumption == /\ Nowhere \notin Workloads
                         /\ NoService \notin Services
                         /\ NoNamespace \notin Namespaces
ASSUME NamesAssumption ==
    /\ NamespaceOf \in [Workloads -> Namespaces]
    /\ Namesake \in [Services \X Namespaces -> Workloads \cup {Nowhere}]
ASSUME InputsAssumption ==
    /\ Requests \subseteq Request
    /\ Traffics \subseteq SUBSET Edge
    /\ \A m \in Measurements, k \in Workloads :
         DOMAIN m = Workloads /\ (m[k] = NoReading \/ m[k] \in Reading)
    /\ Thresholds \subseteq Nat

VARIABLES
    request, traffic, readings, minImpact,   \* the inputs
    pc,         \* the next step of reconcile_impact_map
    affected,   \* the affected services, with their impact and type
    target,     \* the workload the fault stands in front of
    visited,    \* reachable_from's visited set
    queue       \* and the workloads in its queue

vars == <<request, traffic, readings, minImpact, pc, affected, target, visited, queue>>
input == <<request, traffic, readings, minImpact>>

Keys == Workloads \cup {Nowhere}

Types == {"none", "Direct", "Indirect"}
Affected == [workload: Workloads, impact: 0..100, type: Types]

TypeOK ==
    /\ request \in Requests /\ traffic \in Traffics
    /\ readings \in Measurements /\ minImpact \in Thresholds
    /\ pc \in {"score", "graph", "search", "done"}
    /\ affected \subseteq Affected
    /\ target \in Keys
    /\ visited \subseteq Keys /\ queue \subseteq Keys

Init ==
    /\ request \in Requests /\ traffic \in Traffics
    /\ readings \in Measurements /\ minImpact \in Thresholds
    /\ pc = "score"
    /\ affected = {} /\ target = Nowhere /\ visited = {} /\ queue = {}

(***************************************************************************)
(* Scores.                                                                 *)
(***************************************************************************)

\* Mutants: the percentage is cast to eight bits; an improvement counts.
PercentU8(x, of) == ((200 * x + of) \div (2 * of)) % 256
WorseAbs(p, direction) == IF p.during > p.baseline THEN p.during - p.baseline
                          ELSE p.baseline - p.during

\* 100 * x / of, rounded half up.
Percent(x, of) == (200 * x + of) \div (2 * of)

\* By how much a metric got worse.
Worse(p, direction) == IF direction = "Up" THEN p.during - p.baseline
                       ELSE p.baseline - p.during

\* Mutant: the score is not bounded.
ClampBelow(n) == IF n < 0 THEN 0 ELSE n

Clamp(n) == IF n < 0 THEN 0 ELSE IF n > 100 THEN 100 ELSE n

\* A metric that rises from nothing is a total degradation in either direction.
calculate_impact(p, direction) ==
    IF p.baseline > 0 THEN Clamp(Percent(Worse(p, direction), p.baseline))
    ELSE IF p.during = 0 THEN 0 ELSE 100

score_error_rate(p) == IF p.baseline = 0 THEN Clamp(p.during)
                       ELSE calculate_impact(p, "Up")

Impact(r) == (calculate_impact(r.latency, "Up") + score_error_rate(r.errors)
              + calculate_impact(r.throughput, "Down")) \div 3

compute_affected_services ==
    {[workload |-> k, impact |-> Impact(readings[k]), type |-> "none"] :
       k \in {k \in Workloads : readings[k] # NoReading
                                /\ Impact(readings[k]) >= minImpact}}

(***************************************************************************)
(* The service graph and the namespace its lookup uses.                    *)
(***************************************************************************)

Neighbors(t, k) == {e.destination : e \in {e \in t : e.source = k}}

\* The workloads that serve a service of a namespace.  service_to_workload
\* keeps the one of the metric that Prometheus lists last; without any the
\* service's own name is taken for a workload's.
Serving(t, s, ns) == {e.destination : e \in
    {e \in t : e.service = s /\ NamespaceOf[e.destination] = ns}}
Candidates(t, s, ns) == IF Serving(t, s, ns) = {} THEN {Namesake[s, ns]}
                                                  ELSE Serving(t, s, ns)

\* Where classify_services looks for the destination service.
LookupNamespace(q) ==
    IF q.targetNamespace # NoNamespace THEN q.targetNamespace
    ELSE IF q.edgeNamespace # NoNamespace THEN q.edgeNamespace
    ELSE q.reportNamespace

\* Where the experiment reconciler puts the fault.
FaultNamespace(q) == IF q.targetNamespace # NoNamespace THEN q.targetNamespace
                     ELSE q.experimentNamespace

Score ==
    /\ pc = "score" /\ pc' = "graph"
    /\ affected' = compute_affected_services
    /\ UNCHANGED <<input, target, visited, queue>>

\* The spec or the graph could not be had, or the scenario has no edge.
Unclassified ==
    /\ pc = "graph" /\ pc' = "done"
    /\ UNCHANGED <<input, affected, target, visited, queue>>

StartSearch ==
    /\ pc = "graph" /\ pc' = "search"
    /\ request.service # NoService
    /\ target' \in Candidates(traffic, request.service, LookupNamespace(request))
    /\ visited' = {target'} /\ queue' = {target'}
    /\ UNCHANGED <<input, affected>>

\* Mutants: a neighbour is queued again on every visit; it is not queued.
EnqueuedAlways(new, k) == Neighbors(traffic, k)
EnqueuedNever(new, k) == {}

\* What the visit of k appends to the queue.
Enqueued(new, k) == new

\* One round of the while loop.  The order of the queue is left open.
Visit ==
    /\ pc = "search"
    /\ \E k \in queue :
         LET new == Neighbors(traffic, k) \ visited
         IN /\ visited' = visited \cup new
            /\ queue' = (queue \ {k}) \cup Enqueued(new, k)
    /\ UNCHANGED <<input, pc, affected, target>>

Classify ==
    /\ pc = "search" /\ queue = {} /\ pc' = "done"
    /\ affected' = {[a EXCEPT !.type = IF a.workload \in visited
                                       THEN "Direct" ELSE "Indirect"] : a \in affected}
    /\ UNCHANGED <<input, target, visited, queue>>

Next == Score \/ Unclassified \/ StartSearch \/ Visit \/ Classify

Spec == Init /\ [][Next]_vars

\* The computation is synchronous code: it is run to its end.
FairSpec == Spec /\ WF_vars(Next)

(***************************************************************************)
(* Properties.                                                             *)
(***************************************************************************)

Classified == pc = "done" /\ visited # {}

\* The workloads downstream of k: those in every set that holds k and all the
\* callees of its members.
Downstream(t, k) ==
    {d \in Keys : \A s \in SUBSET Keys :
       k \in s /\ (\A m \in s : Neighbors(t, m) \subseteq s) => d \in s}

Split(t, k) == \A a \in affected :
                   (a.type = "Direct") <=> (a.workload \in Downstream(t, k))

\* A classified map calls Direct exactly what is downstream of one workload
\* that serves the destination service, through any cycle or diamond of the
\* graph (reachable_from, classify_services).
DirectIffDownstream ==
    Classified => \E k \in Candidates(traffic, request.service,
                                      LookupNamespace(request)) : Split(traffic, k)

\* The same for the service that the fault was injected in front of, which
\* defaults to the experiment's own namespace (target_namespace).
ClassifiesTheInjectedTarget ==
    Classified => \E k \in Candidates(traffic, request.service,
                                      FaultNamespace(request)) : Split(traffic, k)

GotWorse(r) == \/ r.latency.during > r.latency.baseline
               \/ r.errors.during > r.errors.baseline
               \/ r.throughput.during < r.throughput.baseline

\* A listed service with an impact has a metric that got worse, unless it had
\* no traffic to compare with (score_metric, score_error_rate).
OnlyDegradedAreListed ==
    \A a \in affected :
        LET r == readings[a.workload]
        IN a.impact > 0 /\ r.throughput.baseline > 0 => GotWorse(r)

\* r is as bad as s in every metric, from the same baselines.
AsBad(r, s) ==
    /\ r.latency.baseline = s.latency.baseline
    /\ r.errors.baseline = s.errors.baseline
    /\ r.throughput.baseline = s.throughput.baseline
    /\ r.throughput.baseline > 0
    /\ r.latency.during >= s.latency.during
    /\ r.errors.during >= s.errors.during
    /\ r.throughput.during <= s.throughput.during

\* A service that did worse than a listed one is listed with an impact that is
\* no smaller: rounding, clamping and averaging keep the order.
WorseIsListedToo ==
    pc # "score" =>
        \A a \in affected, k \in Workloads :
            readings[k] # NoReading /\ AsBad(readings[k], readings[a.workload])
            => \E b \in affected : b.workload = k /\ b.impact >= a.impact

\* The search comes to an end whatever the graph.
Terminates == <>(pc = "done")
=============================================================================
