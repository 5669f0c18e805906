------------------------ MODULE ServiceImpactProofs ------------------------
(***************************************************************************)
(* Theorems about ServiceImpact.                                           *)
(***************************************************************************)
EXTENDS ServiceImpact, TLAPS

(***************************************************************************)
(* Scores.                                                                 *)
(***************************************************************************)

\* Integer division by a positive number keeps the order.
LEMMA DivMonotone ==
    ASSUME NEW a \in Int, NEW b \in Int, NEW n \in Nat \ {0}, a <= b
    PROVE  a \div n \in Int /\ b \div n \in Int /\ a \div n <= b \div n
  BY SMTT(30)

\* The clamped percentage is a score, it is 0 for what did not get worse, and
\* what got worse scores no less.
LEMMA PercentFacts ==
    ASSUME NEW x \in Int, NEW y \in Int, NEW of \in Nat \ {0}, x <= y
    PROVE  /\ Clamp(Percent(x, of)) \in 0..100
           /\ y <= 0 => Clamp(Percent(y, of)) = 0
           /\ Clamp(Percent(x, of)) <= Clamp(Percent(y, of))
  <1> DEFINE n == 2 * of
             p == 200 * x + of
             q == 200 * y + of
  <1>1. n \in Nat \ {0} /\ p \in Int /\ q \in Int /\ p <= q
    OBVIOUS
  <1>2. p \div n \in Int /\ q \div n \in Int /\ p \div n <= q \div n
    BY <1>1, DivMonotone
  <1>3. ASSUME y <= 0 PROVE q \div n <= 0
    <2>1. q <= of /\ of \in Int
      BY <1>3
    <2>2. q \div n <= of \div n
      BY <1>1, <2>1, DivMonotone
    <2>3. of \div n = 0
      BY SMTT(30)
    <2> QED
      BY <2>2, <2>3
  <1> QED
    BY <1>2, <1>3 DEF Clamp, Percent

\* A score of a pair is a score.
LEMMA ScoreType ==
    ASSUME NEW p \in Pair, NEW d
    PROVE  calculate_impact(p, d) \in 0..100 /\ score_error_rate(p) \in 0..100
  <1>1. p.baseline \in Nat /\ p.during \in Nat
    BY DEF Pair
  <1>2. ASSUME NEW e, p.baseline # 0
        PROVE  calculate_impact(p, e) \in 0..100
    <2>1. Worse(p, e) \in Int /\ p.baseline \in Nat \ {0}
      BY <1>1, <1>2 DEF Worse
    <2>2. Clamp(Percent(Worse(p, e), p.baseline)) \in 0..100
      <3> DEFINE w == Worse(p, e)
      <3> HIDE DEF w
      <3>1. w \in Int /\ w <= w
        BY <2>1 DEF w
      <3>2. Clamp(Percent(w, p.baseline)) \in 0..100
        BY <2>1, <3>1, PercentFacts
      <3> QED
        BY <3>2 DEF w
    <2> QED
      BY <2>1, <2>2 DEF calculate_impact
  <1>3. ASSUME NEW e, p.baseline = 0
        PROVE  calculate_impact(p, e) \in 0..100
    BY <1>1, <1>3 DEF calculate_impact
  <1>4. Clamp(p.during) \in 0..100
    BY <1>1 DEF Clamp
  <1> QED
    BY <1>1, <1>2, <1>3, <1>4 DEF score_error_rate

LEMMA ImpactType ==
    ASSUME NEW r \in Reading
    PROVE  Impact(r) \in 0..100
  <1>1. r.latency \in Pair /\ r.errors \in Pair /\ r.throughput \in Pair
    BY DEF Reading
  <1> DEFINE i == calculate_impact(r.latency, "Up")
             j == score_error_rate(r.errors)
             k == calculate_impact(r.throughput, "Down")
  <1>2. i \in 0..100 /\ j \in 0..100 /\ k \in 0..100
    BY <1>1, ScoreType
  <1> HIDE DEF i, j, k
  <1>3. (i + j + k) \div 3 \in 0..100
    BY <1>2
  <1> QED
    BY <1>3 DEF Impact, i, j, k

\* A metric that did not get worse, from a baseline that is not zero unless
\* the metric is, scores nothing.
LEMMA NotWorseIsZero ==
    ASSUME NEW p \in Pair
    PROVE  /\ p.during <= p.baseline => calculate_impact(p, "Up") = 0
                                          /\ score_error_rate(p) = 0
           /\ p.during >= p.baseline /\ p.baseline > 0
              => calculate_impact(p, "Down") = 0
  <1>1. p.baseline \in Nat /\ p.during \in Nat
    BY DEF Pair
  <1>2. ASSUME NEW e, Worse(p, e) \in Int, Worse(p, e) <= 0, p.baseline > 0
        PROVE  calculate_impact(p, e) = 0
    BY <1>1, <1>2, PercentFacts DEF calculate_impact
  <1>3. ASSUME p.during <= p.baseline
        PROVE  calculate_impact(p, "Up") = 0 /\ score_error_rate(p) = 0
    <2>1. CASE p.baseline = 0
      BY <1>1, <1>3, <2>1 DEF calculate_impact, score_error_rate, Clamp
    <2>2. CASE p.baseline # 0
      <3>1. Worse(p, "Up") \in Int /\ Worse(p, "Up") <= 0
        BY <1>1, <1>3 DEF Worse
      <3>2. calculate_impact(p, "Up") = 0
        BY <1>1, <1>2, <2>2, <3>1
      <3> QED
        BY <2>2, <3>2 DEF score_error_rate
    <2> QED
      BY <2>1, <2>2
  <1>4. ASSUME p.during >= p.baseline, p.baseline > 0
        PROVE  calculate_impact(p, "Down") = 0
    <2>1. Worse(p, "Down") \in Int /\ Worse(p, "Down") <= 0
      BY <1>1, <1>4 DEF Worse
    <2> QED
      BY <1>2, <1>4, <2>1
  <1> QED
    BY <1>3, <1>4

\* From the same baseline, what got worse scores no less.
LEMMA WorseScoresMore ==
    ASSUME NEW p \in Pair, NEW q \in Pair, p.baseline = q.baseline
    PROVE  /\ p.during <= q.during =>
                /\ calculate_impact(p, "Up") <= calculate_impact(q, "Up")
                /\ score_error_rate(p) <= score_error_rate(q)
           /\ p.during >= q.during /\ p.baseline > 0 =>
                calculate_impact(p, "Down") <= calculate_impact(q, "Down")
  <1>1. p.baseline \in Nat /\ p.during \in Nat /\ q.during \in Nat
    BY DEF Pair
  <1>2. ASSUME NEW e, Worse(p, e) \in Int, Worse(q, e) \in Int,
               Worse(p, e) <= Worse(q, e), p.baseline > 0
        PROVE  calculate_impact(p, e) <= calculate_impact(q, e)
    BY <1>1, <1>2, PercentFacts DEF calculate_impact
  <1>3. ASSUME p.during <= q.during
        PROVE  /\ calculate_impact(p, "Up") <= calculate_impact(q, "Up")
               /\ score_error_rate(p) <= score_error_rate(q)
    <2>1. CASE p.baseline = 0
      BY <1>1, <1>3, <2>1 DEF calculate_impact, score_error_rate, Clamp
    <2>2. CASE p.baseline # 0
      <3>1. /\ Worse(p, "Up") \in Int
            /\ Worse(q, "Up") \in Int
            /\ Worse(p, "Up") <= Worse(q, "Up")
        BY <1>1, <1>3 DEF Worse
      <3>2. calculate_impact(p, "Up") <= calculate_impact(q, "Up")
        BY <1>1, <1>2, <2>2, <3>1
      <3> QED
        BY <2>2, <3>2 DEF score_error_rate
    <2> QED
      BY <2>1, <2>2
  <1>4. ASSUME p.during >= q.during, p.baseline > 0
        PROVE  calculate_impact(p, "Down") <= calculate_impact(q, "Down")
    <2>1. /\ Worse(p, "Down") \in Int
          /\ Worse(q, "Down") \in Int
          /\ Worse(p, "Down") <= Worse(q, "Down")
      BY <1>1, <1>4 DEF Worse
    <2> QED
      BY <1>2, <1>4, <2>1
  <1> QED
    BY <1>3, <1>4

(***************************************************************************)
(* Type correctness.                                                       *)
(***************************************************************************)

\* What is measured of a workload is a reading.
LEMMA ReadingsType ==
    ASSUME TypeOK, NEW k \in Workloads, readings[k] # NoReading
    PROVE  readings[k] \in Reading
  BY InputsAssumption DEF TypeOK

LEMMA ScoredType ==
    ASSUME TypeOK
    PROVE  compute_affected_services \subseteq Affected
  <1> SUFFICES ASSUME NEW k \in Workloads, readings[k] # NoReading
               PROVE  [workload |-> k, impact |-> Impact(readings[k]),
                       type |-> "none"] \in Affected
    BY DEF compute_affected_services
  <1>1. Impact(readings[k]) \in 0..100
    BY ReadingsType, ImpactType
  <1> QED
    BY <1>1 DEF Affected, Types

\* The callees of a workload are workloads.
LEMMA NeighborsType ==
    ASSUME NEW t \in Traffics, NEW k
    PROVE  Neighbors(t, k) \subseteq Workloads
  BY InputsAssumption DEF Neighbors, Edge

LEMMA CandidatesType ==
    ASSUME NEW q \in Requests, NEW t \in Traffics, q.service # NoService
    PROVE  Candidates(t, q.service, LookupNamespace(q)) \subseteq Keys
  <1>1. /\ q.service \in Services
        /\ q.targetNamespace \in Namespaces \cup {NoNamespace}
        /\ q.edgeNamespace \in Namespaces \cup {NoNamespace}
        /\ q.reportNamespace \in Namespaces
    BY InputsAssumption DEF Request
  <1>2. LookupNamespace(q) \in Namespaces
    BY <1>1 DEF LookupNamespace
  <1>3. Serving(t, q.service, LookupNamespace(q)) \subseteq Workloads
    BY InputsAssumption DEF Serving, Edge
  <1>4. Namesake[q.service, LookupNamespace(q)] \in Keys
    BY <1>1, <1>2, NamesAssumption DEF Keys
  <1> QED
    BY <1>3, <1>4 DEF Candidates, Keys

\* Every reachable state has its type, for every graph and every measurement.
THEOREM TypeCorrect == Spec => []TypeOK
  <1>1. Init => TypeOK
    BY DEF Init, TypeOK, Keys
  <1>2. TypeOK /\ [Next]_vars => TypeOK'
    <2> SUFFICES ASSUME TypeOK, [Next]_vars PROVE TypeOK'
      OBVIOUS
    <2>1. CASE Score
      BY <2>1, ScoredType DEF Score, TypeOK, input
    <2>2. CASE Unclassified
      BY <2>2 DEF Unclassified, TypeOK, input
    <2>3. CASE StartSearch
      <3>1. request \in Requests /\ traffic \in Traffics
        BY DEF TypeOK
      <3>2. target' \in Keys
        BY <2>3, <3>1, CandidatesType DEF StartSearch
      <3> QED
        BY <2>3, <3>2 DEF StartSearch, TypeOK, input
    <2>4. CASE Visit
      <3>1. PICK k \in queue :
              /\ visited' = visited \cup (Neighbors(traffic, k) \ visited)
              /\ queue' = (queue \ {k}) \cup (Neighbors(traffic, k) \ visited)
        BY <2>4 DEF Visit, Enqueued
      <3>2. Neighbors(traffic, k) \subseteq Keys
        BY NeighborsType DEF TypeOK, Keys
      <3> QED
        BY <2>4, <3>1, <3>2 DEF Visit, TypeOK, input
    <2>5. CASE Classify
      BY <2>5 DEF Classify, TypeOK, Affected, Types, input
    <2>6. CASE UNCHANGED vars
      BY <2>6 DEF vars, TypeOK
    <2> QED
      BY <2>1, <2>2, <2>3, <2>4, <2>5, <2>6 DEF Next
  <1> QED
    BY <1>1, <1>2, PTL DEF Spec

(***************************************************************************)
(* Which services are listed.                                              *)
(***************************************************************************)

\* The list holds the scores of the readings, all those over the threshold.
ScoreInv ==
    /\ pc = "score" => affected = {}
    /\ \A a \in affected : /\ readings[a.workload] # NoReading
                           /\ a.impact = Impact(readings[a.workload])
                           /\ a.impact >= minImpact
    /\ pc # "score" =>
         \A k \in Workloads :
            readings[k] # NoReading /\ Impact(readings[k]) >= minImpact
            => \E b \in affected : b.workload = k /\ b.impact = Impact(readings[k])

LEMMA ScoreInvHolds == Spec => [](TypeOK /\ ScoreInv)
  <1>1. Init => ScoreInv
    BY DEF Init, ScoreInv
  <1>2. TypeOK /\ ScoreInv /\ [Next]_vars => ScoreInv'
    <2> SUFFICES ASSUME TypeOK, ScoreInv, [Next]_vars PROVE ScoreInv'
      OBVIOUS
    <2>1. CASE Score
      <3> DEFINE Listed(k) == [workload |-> k, impact |-> Impact(readings[k]),
                               type |-> "none"]
      <3>1. pc' = "graph" /\ readings' = readings /\ minImpact' = minImpact
        BY <2>1 DEF Score, input
      <3>2. affected' = {Listed(k) : k \in {k \in Workloads :
                           readings[k] # NoReading /\ Impact(readings[k]) >= minImpact}}
        BY <2>1 DEF Score, compute_affected_services
      <3>3. \A k \in Workloads : Listed(k).workload = k
                                 /\ Listed(k).impact = Impact(readings[k])
        OBVIOUS
      <3> HIDE DEF Listed
      <3> QED
        BY <3>1, <3>2, <3>3 DEF ScoreInv
    <2>2. CASE Unclassified
      BY <2>2 DEF Unclassified, ScoreInv, input
    <2>3. CASE StartSearch
      BY <2>3 DEF StartSearch, ScoreInv, input
    <2>4. CASE Visit
      BY <2>4 DEF Visit, ScoreInv, input
    <2>5. CASE Classify
      <3> DEFINE Typed(a) == [a EXCEPT !.type = IF a.workload \in visited
                                                THEN "Direct" ELSE "Indirect"]
      <3>1. affected' = {Typed(a) : a \in affected} /\ pc = "search" /\ pc' = "done"
        BY <2>5 DEF Classify
      <3>2. readings' = readings /\ minImpact' = minImpact
        BY <2>5 DEF Classify, input
      <3>3. \A a \in affected : Typed(a).workload = a.workload
                                /\ Typed(a).impact = a.impact
        BY DEF TypeOK, Affected
      <3> HIDE DEF Typed
      <3> QED
        BY <3>1, <3>2, <3>3 DEF ScoreInv
    <2>6. CASE UNCHANGED vars
      BY <2>6 DEF vars, ScoreInv
    <2> QED
      BY <2>1, <2>2, <2>3, <2>4, <2>5, <2>6 DEF Next
  <1> QED
    BY <1>1, <1>2, TypeCorrect, PTL DEF Spec

\* A reading in which nothing got worse scores nothing.
LEMMA SteadyScoresNothing ==
    ASSUME NEW r \in Reading, r.throughput.baseline > 0, ~GotWorse(r)
    PROVE  Impact(r) = 0
  <1>1. r.latency \in Pair /\ r.errors \in Pair /\ r.throughput \in Pair
    BY DEF Reading
  <1>2. /\ r.latency.during <= r.latency.baseline
        /\ r.errors.during <= r.errors.baseline
        /\ r.throughput.during >= r.throughput.baseline
    BY <1>1 DEF GotWorse, Pair
  <1>3. calculate_impact(r.latency, "Up") = 0
    BY <1>1, <1>2, NotWorseIsZero
  <1>4. score_error_rate(r.errors) = 0
    BY <1>1, <1>2, NotWorseIsZero
  <1>5. calculate_impact(r.throughput, "Down") = 0
    BY <1>1, <1>2, NotWorseIsZero
  <1>6. (0 + 0 + 0) \div 3 = 0
    OBVIOUS
  <1> QED
    BY <1>3, <1>4, <1>5, <1>6 DEF Impact

\* The impact of a reading that is as bad is no smaller.
LEMMA AsBadScoresMore ==
    ASSUME NEW r \in Reading, NEW s \in Reading, AsBad(r, s)
    PROVE  Impact(s) <= Impact(r)
  <1>1. /\ r.latency \in Pair /\ r.errors \in Pair /\ r.throughput \in Pair
        /\ s.latency \in Pair /\ s.errors \in Pair /\ s.throughput \in Pair
    BY DEF Reading
  <1>2. /\ s.latency.during <= r.latency.during
        /\ s.errors.during <= r.errors.during
        /\ s.throughput.during >= r.throughput.during
        /\ s.throughput.baseline > 0
    BY <1>1 DEF AsBad, Pair
  <1> DEFINE ri == calculate_impact(r.latency, "Up")
             rj == score_error_rate(r.errors)
             rk == calculate_impact(r.throughput, "Down")
             si == calculate_impact(s.latency, "Up")
             sj == score_error_rate(s.errors)
             sk == calculate_impact(s.throughput, "Down")
  <1>3. si <= ri
    BY <1>1, <1>2, WorseScoresMore DEF AsBad
  <1>4. sj <= rj
    BY <1>1, <1>2, WorseScoresMore DEF AsBad
  <1>5. sk <= rk
    BY <1>1, <1>2, WorseScoresMore DEF AsBad
  <1>6. /\ ri \in 0..100 /\ rj \in 0..100 /\ rk \in 0..100
        /\ si \in 0..100 /\ sj \in 0..100 /\ sk \in 0..100
    BY <1>1, ScoreType
  <1> HIDE DEF ri, rj, rk, si, sj, sk
  <1>7. (si + sj + sk) \div 3 <= (ri + rj + rk) \div 3
    <2>1. /\ si + sj + sk \in Int /\ ri + rj + rk \in Int
          /\ si + sj + sk <= ri + rj + rk
      BY <1>3, <1>4, <1>5, <1>6
    <2>2. 3 \in Nat \ {0}
      OBVIOUS
    <2> QED
      BY <2>1, <2>2, DivMonotone
  <1> QED
    BY <1>7 DEF Impact, ri, rj, rk, si, sj, sk

\* A listed service with an impact has a metric that got worse, unless it had
\* no traffic before (compute_affected_services).
THEOREM OnlyDegraded == Spec => []OnlyDegradedAreListed
  <1>1. TypeOK /\ ScoreInv => OnlyDegradedAreListed
    <2> SUFFICES ASSUME TypeOK, ScoreInv, NEW a \in affected, a.impact > 0,
                        readings[a.workload].throughput.baseline > 0,
                        ~GotWorse(readings[a.workload])
                 PROVE  FALSE
      BY DEF OnlyDegradedAreListed
    <2>1. a.workload \in Workloads
      BY DEF TypeOK, Affected
    <2>2. readings[a.workload] \in Reading /\ a.impact = Impact(readings[a.workload])
      BY <2>1, ReadingsType DEF ScoreInv
    <2> QED
      BY <2>2, SteadyScoresNothing
  <1> QED
    BY <1>1, ScoreInvHolds, PTL

\* A service that did worse than a listed one is listed, with an impact that
\* is no smaller (calculate_impact's rounding and clamping, the average).
THEOREM WorseListed == Spec => []WorseIsListedToo
  <1>1. TypeOK /\ ScoreInv => WorseIsListedToo
    <2> SUFFICES ASSUME TypeOK, ScoreInv, pc # "score",
                        NEW a \in affected, NEW k \in Workloads,
                        readings[k] # NoReading,
                        AsBad(readings[k], readings[a.workload])
                 PROVE  \E b \in affected : b.workload = k /\ b.impact >= a.impact
      BY DEF WorseIsListedToo
    <2>1. a.workload \in Workloads
      BY DEF TypeOK, Affected
    <2>2. readings[a.workload] \in Reading /\ readings[k] \in Reading
      BY <2>1, ReadingsType DEF ScoreInv
    <2>3. Impact(readings[a.workload]) <= Impact(readings[k])
      BY <2>2, AsBadScoresMore
    <2>4. Impact(readings[k]) \in 0..100 /\ Impact(readings[a.workload]) \in 0..100
      BY <2>2, ImpactType
    <2>5. a.impact = Impact(readings[a.workload]) /\ a.impact >= minImpact
      BY DEF ScoreInv
    <2>6. minImpact \in Nat
      BY InputsAssumption DEF TypeOK
    <2>7. Impact(readings[k]) >= minImpact
      BY <2>3, <2>4, <2>5, <2>6
    <2>8. PICK b \in affected : b.workload = k /\ b.impact = Impact(readings[k])
      BY <2>7 DEF ScoreInv
    <2> QED
      BY <2>3, <2>4, <2>5, <2>8
  <1> QED
    BY <1>1, ScoreInvHolds, PTL

(***************************************************************************)
(* Which services are called Direct.                                       *)
(***************************************************************************)

LEMMA DownstreamBegins ==
    ASSUME NEW t, NEW k \in Keys
    PROVE  k \in Downstream(t, k)
  BY DEF Downstream

LEMMA DownstreamGrows ==
    ASSUME NEW t \in Traffics, NEW k, NEW m \in Downstream(t, k)
    PROVE  Neighbors(t, m) \subseteq Downstream(t, k)
  <1> SUFFICES ASSUME NEW d \in Neighbors(t, m) PROVE d \in Downstream(t, k)
    OBVIOUS
  <1>1. d \in Keys
    BY NeighborsType DEF Keys
  <1>2. ASSUME NEW s \in SUBSET Keys, k \in s,
               \A n \in s : Neighbors(t, n) \subseteq s
        PROVE  d \in s
    <2>1. m \in s
      BY <1>2 DEF Downstream
    <2> QED
      BY <1>2, <2>1
  <1> QED
    BY <1>1, <1>2 DEF Downstream

\* A closed set of keys holds all that is downstream of its members.
LEMMA ClosedHoldsDownstream ==
    ASSUME NEW t, NEW s \in SUBSET Keys, NEW k \in s,
           \A m \in s : Neighbors(t, m) \subseteq s
    PROVE  Downstream(t, k) \subseteq s
  BY DEF Downstream

\* Where the search begins.
Begins == target \in Candidates(traffic, request.service, LookupNamespace(request))

\* What was visited is downstream of the target, and what has left the queue
\* has had its callees visited.
SearchInv ==
    /\ pc \in {"score", "graph"} => visited = {} /\ queue = {}
    /\ queue \subseteq visited
    /\ visited # {} => /\ Begins
                       /\ target \in visited
                       /\ \A k \in visited \ queue : Neighbors(traffic, k) \subseteq visited
                       /\ visited \subseteq Downstream(traffic, target)
    /\ Classified => /\ queue = {}
                     /\ \A a \in affected : (a.type = "Direct") <=> (a.workload \in visited)

LEMMA SearchInvHolds == Spec => [](TypeOK /\ SearchInv)
  <1>1. Init => SearchInv
    BY DEF Init, SearchInv, Classified
  <1>2. TypeOK /\ SearchInv /\ [Next]_vars => SearchInv'
    <2> SUFFICES ASSUME TypeOK, SearchInv, [Next]_vars PROVE SearchInv'
      OBVIOUS
    <2>1. CASE Score
      BY <2>1 DEF Score, SearchInv, Classified
    <2>2. CASE Unclassified
      BY <2>2 DEF Unclassified, SearchInv, Classified
    <2>3. CASE StartSearch
      <3>1. /\ pc' = "search" /\ visited' = {target'} /\ queue' = {target'}
            /\ traffic' = traffic /\ request' = request
            /\ target' \in Candidates(traffic, request.service, LookupNamespace(request))
            /\ request.service # NoService
        BY <2>3 DEF StartSearch, input
      <3>2. target' \in Keys
        BY <3>1, CandidatesType DEF TypeOK
      <3>3. target' \in Downstream(traffic, target')
        BY <3>2, DownstreamBegins
      <3>4. Begins'
        BY <3>1 DEF Begins
      <3>5. (visited \subseteq Downstream(traffic, target))'
        BY <3>1, <3>3
      <3> QED
        BY <3>1, <3>4, <3>5 DEF SearchInv, Classified
    <2>4. CASE Visit
      <3>1. PICK k \in queue :
              /\ visited' = visited \cup (Neighbors(traffic, k) \ visited)
              /\ queue' = (queue \ {k}) \cup (Neighbors(traffic, k) \ visited)
        BY <2>4 DEF Visit, Enqueued
      <3>2. /\ pc = "search" /\ pc' = "search" /\ target' = target
            /\ traffic' = traffic /\ request' = request
        BY <2>4 DEF Visit, input
      <3>3. visited # {}
        BY <3>1 DEF SearchInv
      <3>4. /\ Begins /\ target \in visited /\ queue \subseteq visited
            /\ \A n \in visited \ queue : Neighbors(traffic, n) \subseteq visited
            /\ visited \subseteq Downstream(traffic, target)
        BY <3>3 DEF SearchInv
      <3>5. Neighbors(traffic, k) \subseteq Downstream(traffic, target)
        BY <3>1, <3>4, DownstreamGrows DEF TypeOK
      <3>6. (visited \subseteq Downstream(traffic, target))'
        BY <3>1, <3>2, <3>4, <3>5
      <3>7. (\A n \in visited \ queue : Neighbors(traffic, n) \subseteq visited)'
        BY <3>1, <3>2, <3>4
      <3>8. Begins' /\ target' \in visited' /\ queue' \subseteq visited'
        BY <3>1, <3>2, <3>4 DEF Begins
      <3> QED
        BY <3>2, <3>6, <3>7, <3>8 DEF SearchInv, Classified
    <2>5. CASE Classify
      <3>1. /\ pc = "search" /\ pc' = "done" /\ queue = {} /\ queue' = {}
            /\ visited' = visited /\ target' = target
            /\ traffic' = traffic /\ request' = request
            /\ affected' = {[a EXCEPT !.type = IF a.workload \in visited
                                               THEN "Direct" ELSE "Indirect"] : a \in affected}
        BY <2>5 DEF Classify, input
      <3>2. ASSUME NEW a \in affected'
            PROVE  (a.type = "Direct") <=> (a.workload \in visited)
        BY <3>1 DEF TypeOK, Affected
      <3>3. visited # {} => Begins'
        BY <3>1 DEF SearchInv, Begins
      <3> QED
        BY <3>1, <3>2, <3>3 DEF SearchInv, Classified
    <2>6. CASE UNCHANGED vars
      BY <2>6 DEF vars, SearchInv, Classified, Begins
    <2> QED
      BY <2>1, <2>2, <2>3, <2>4, <2>5, <2>6 DEF Next
  <1> QED
    BY <1>1, <1>2, TypeCorrect, PTL DEF Spec

\* A classified map calls Direct exactly what is downstream of one workload
\* serving the destination service, for every graph (reachable_from).
THEOREM DirectCorrect == Spec => []DirectIffDownstream
  <1>1. TypeOK /\ SearchInv => DirectIffDownstream
    <2> SUFFICES ASSUME TypeOK, SearchInv, Classified
                 PROVE  Begins /\ Split(traffic, target)
      BY DEF DirectIffDownstream, Begins
    <2>1. /\ Begins /\ target \in visited /\ queue = {}
          /\ \A k \in visited : Neighbors(traffic, k) \subseteq visited
          /\ visited \subseteq Downstream(traffic, target)
          /\ \A a \in affected : (a.type = "Direct") <=> (a.workload \in visited)
      BY DEF SearchInv, Classified
    <2>2. Downstream(traffic, target) \subseteq visited
      BY <2>1, ClosedHoldsDownstream DEF TypeOK
    <2>3. visited = Downstream(traffic, target)
      BY <2>1, <2>2
    <2> QED
      BY <2>1, <2>3 DEF Split
  <1> QED
    BY <1>1, SearchInvHolds, PTL
=============================================================================
