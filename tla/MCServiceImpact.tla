-------------------------- MODULE MCServiceImpact --------------------------
(***************************************************************************)
(* Instances of ServiceImpact for TLC: every graph on three workloads, two *)
(* of them in one namespace.                                               *)
(***************************************************************************)
EXTENDS ServiceImpact

CONSTANTS cart, stock, tool,   \* workloads
          api,                 \* a service
          prod, ops            \* namespaces

MCNamespaceOf == [k \in {cart, stock, tool} |-> IF k = tool THEN ops ELSE prod]

\* A workload has the service's name in one of the namespaces only.
MCNamesake == [s \in {api} \X {prod, ops} |-> IF s[2] = prod THEN cart ELSE Nowhere]

Ask(service, targetNs, edgeNs, expNs, reportNs) ==
    [service |-> service, targetNamespace |-> targetNs, edgeNamespace |-> edgeNs,
     experimentNamespace |-> expNs, reportNamespace |-> reportNs]

AllRequests == {Ask(api, prod, NoNamespace, ops, ops),
                Ask(api, NoNamespace, NoNamespace, prod, prod),
                Ask(api, NoNamespace, ops, prod, prod),
                Ask(NoService, NoNamespace, NoNamespace, prod, prod)}

\* The report is in another namespace than its experiment.
RemoteReport == {Ask(api, NoNamespace, NoNamespace, prod, ops)}

\* Any edges between different workloads; the metrics of a destination name
\* the service api or none.
Arcs == {a \in {cart, stock, tool} \X {cart, stock, tool} : a[1] # a[2]}
AllTraffics ==
    {{[source |-> a[1], destination |-> a[2],
       service |-> IF a[2] \in serving THEN api ELSE NoService] : a \in arcs} :
     arcs \in SUBSET Arcs, serving \in SUBSET {cart, stock, tool}}

P(b, d) == [baseline |-> b, during |-> d]
R(latency, errors, throughput) ==
    [latency |-> latency, errors |-> errors, throughput |-> throughput]

Steady == R(P(10, 10), P(0, 0), P(10, 10))
Better == R(P(10, 5), P(4, 1), P(10, 20))
Slow == R(P(10, 12), P(0, 0), P(10, 9))
Slower == R(P(10, 36), P(0, 0), P(10, 9))
Down == R(P(10, 90), P(0, 60), P(10, 0))
New == R(P(0, 10), P(0, 0), P(0, 10))

AllMeasurements ==
    {[k \in {cart, stock, tool} |-> IF k = cart THEN r[1] ELSE IF k = stock THEN r[2]
                                    ELSE r[3]] :
     r \in {<<Steady, Better, NoReading>>, <<Slow, Slower, Down>>,
            <<Down, Better, New>>, <<Better, Slow, Slower>>}}

OneMeasurement == {[k \in {cart, stock, tool} |-> Slow]}
=============================================================================
