----------------------------- MODULE MCServices -----------------------------
(***************************************************************************)
(* Small instances of the background services and of the optimisers.       *)
(* They share no state, so a behaviour is one of one component: part says  *)
(* which.  AlertStream and Scheduler have variables of their own, the      *)
(* others share v1 to v13.                                                 *)
(***************************************************************************)
EXTENDS AlertStream, Qubo

CONSTANTS Jobs, Nothing,
          Limit, Window, MaxTime, MaxHits,                  \* RateLimiter
          Qubos, AutoMax, BruteMax,
          Sweeps, Restarts, Trotter,                        \* Annealing
          Portfolios, WaveCounts, Capacities,               \* Migration
          Tuners, Appliers, Rules, Samples,
          FirstWeights, NewWeights, Levels,                 \* Tuning
          Similarities, Gammas, MaxClusters,                \* Clustering
          Takers, Feeds, Lifetimes, Exposures, Ahead        \* Exposure

ASSUME NothingAssumption ==
    Nothing \notin Tuners \cup Appliers /\ Nothing \notin {384, 521}

\* RATE_LIMIT_PER_MINUTE and the seconds of a window.
ASSUME LimiterAssumption == Limit \in Nat /\ Window \in Nat \ {0}

\* Every model has a coefficient for every variable and for every pair of them.
ASSUME QuboAssumption ==
    \A q \in Qubos :
        /\ q.n \in Nat /\ q.offset \in Int
        /\ q.linear \in [Variables(q) -> Int]
        /\ q.quadratic \in [Pairs(Variables(q)) -> Int]

ASSUME TrotterAssumption == Trotter \in Nat \ {0}

\* A sample holds finitely many events, each seen a number of times.
ASSUME SampleAssumption ==
    \A s \in DOMAIN Samples :
        IsFiniteSet(Samples[s]) /\ \A ev \in Samples[s] : ev.count \in Nat

\* The levels of a weight have no more decimals than a stored result.
ASSUME WeightAssumption ==
    /\ Levels \in Seq(Int) /\ Levels # <<>> /\ \A i \in DOMAIN Levels : Levels[i] % 3 = 0
    /\ FirstWeights \subseteq [Rules -> Int] /\ NewWeights \subseteq Int

\* A request to plan names an identity, and the figures are those of the schema.
ASSUME PlannerAssumption ==
    /\ \A p \in Portfolios :
          /\ Len(p) \in Nat \ {0} /\ DOMAIN p = 1 .. Len(p)
          /\ \A i \in DOMAIN p : /\ p[i].qes \in Nat /\ p[i].criticality \in 1 .. 5
                                /\ p[i].effort \in Nat \ {0}
    /\ WaveCounts \subseteq Nat \ {0} /\ Capacities \subseteq Nat

\* A similarity for every pair of the events of a window.
ASSUME ClusterAssumption ==
    /\ \A s \in Similarities :
          LET window == UNION DOMAIN s
          IN  IsFiniteSet(window) /\ window \subseteq Int /\ s \in [Pairs(window) -> Int]
    /\ Gammas \subseteq Nat \cup {-1} /\ MaxClusters \in Nat

\* A certificate's key has one of the curves that the code looks for, or none; its
\* algorithm is not called as ScoresStand calls the two families.
ASSUME FeedAssumption ==
    \A feed \in Feeds :
        /\ Len(feed) \in Nat /\ DOMAIN feed = 1 .. Len(feed)
        /\ \A e \in DOMAIN feed :
              LET key == feed[e].key
              IN  \/ key = Nothing
                  \/ /\ key.algo \notin {"factored", "elliptic"}
                     /\ key.bits \in Nat \cup {Nothing}
                     /\ key.curve \in {256, 384, 521, Nothing}

ASSUME ExposureAssumption ==
    /\ Lifetimes \subseteq Nat /\ Ahead \subseteq Int
    /\ Exposures \subseteq {"public", "transmitted", "internal", "sealed"}

VARIABLES part, v1, v2, v3, v4, v5, v6, v7, v8, v9, v10, v11, v12, v13,
          stopping, task, cancelled, stop, started

shared == <<v1, v2, v3, v4, v5, v6, v7, v8, v9, v10, v11, v12, v13>>
scheduler == <<stopping, task, cancelled, stop, started>>
mcvars == <<part, shared, scheduler, vars>>

-----------------------------------------------------------------------------
(* Inputs of the optimisers. *)

\* A variable, two rivals in a one-hot group, and a frustrated triangle.
SomeQubos ==
    { QUBOModel([v \in {0} |-> -1], [e \in {} |-> 0], 2),
      QUBOModel([v \in 0 .. 1 |-> OneHotLinear(3) + 2 - v],
                  [e \in Pairs(0 .. 1) |-> OneHotQuadratic(e, 2, 3)], 3),
      QUBOModel([v \in 0 .. 2 |-> IF v = 0 THEN 2 ELSE -1],
                  [e \in Pairs(0 .. 2) |-> IF 0 \in e THEN -3 ELSE 2], 1) }

Id(qes, criticality, effort) ==
    [qes |-> qes, criticality |-> criticality, effort |-> effort]

\* One or two identities of every kind, and three that differ in risk and effort.
SmallPortfolios ==
    LET kinds == {Id(q, c, e) : q \in {0, 100}, c \in {1, 5}, e \in {1, 4, 10}}
    IN  [1 .. 1 -> kinds] \cup [1 .. 2 -> kinds]
          \cup [1 .. 3 -> {Id(20, 5, 1), Id(100, 5, 1), Id(100, 5, 3)}]

Event(fired, malicious, count) ==
    [fired |-> fired, malicious |-> malicious, count |-> count]

\* Two rules that only fire on an attack together, and one rule alone.
TwoSamples ==
    << {Event({1}, FALSE, 4), Event({2}, FALSE, 4), Event({1, 2}, TRUE, 4)},
       {Event({2}, FALSE, 4), Event({2}, TRUE, 8)} >>

\* A half each, which only suffices together.
TwoWeights == {<<15, 15>>}
ThreeLevels == <<0, 30, 60>>

\* Four events with weak and strong links, five of which the fifth is alike to all.
SmallSimilarities ==
    [kSubset(2, 1 .. 4) -> {0, 30, 60}]
      \cup {s \in [kSubset(2, 1 .. 5) -> {0, 50}] : \A i \in 2 .. 4 : s[{i, 5}] = s[{1, 5}]}

Key(algo, length, curve) == [algo |-> algo, bits |-> length, curve |-> curve]
Factorable ==
    {Key("rsa", b, Nothing) :
        b \in {Nothing, 512, 1024, 1280, 1792, 3072, 4992, 16384}}
      \cup {Key("dsa", 2048, Nothing)}
Curves == {Key("ec", b, b) : b \in {256, 384, 521}} \cup {Key("ed448", 456, Nothing)}
Others == {Key("ml-dsa", Nothing, Nothing), Key("unknown", Nothing, Nothing)}

Signed(spki, key) == [spki |-> spki, key |-> key]

SomeGammas == {-1, 0, 40}
NearAndPast == {-5, 10}

\* Two signers of one family, and a signer whose gateways name different keys
\* among events without a signer or without a key.
TwoOrThree ==
    {<<Signed("a", k), Signed("b", l)>> : k \in Factorable, l \in Factorable}
      \cup {<<Signed("a", k), Signed("b", l)>> : k \in Curves, l \in Curves}
      \cup {<<Signed("a", k), Signed(Nothing, k), Signed("a", l)>> :
                k \in Others, l \in {Nothing, Key("ec", 256, 256)}}

-----------------------------------------------------------------------------
S == INSTANCE Scheduler

R == INSTANCE RateLimiter WITH now <- v1, start <- v2, count <- v3, hits <- v4

N == INSTANCE Annealing WITH
        qubo <- v1, method <- v2, pc <- v3, replicas <- v4, fields <- v5, carried <- v6,
        todo <- v7, k <- v8, sweep <- v9, runs <- v10, best <- v11, sa <- v12, result <- v13

P == INSTANCE Migration WITH
        request <- v1, ones <- v2, plan <- v3, stored <- v4

T == INSTANCE Tuning WITH
        Unit <- 30, Grain <- 3, Threshold <- 30, FpCost <- 14,
        weight <- v1, order <- v2, pc <- v3, seen <- v4, run <- v5, last <- v6, moved <- v7

C == INSTANCE Clustering WITH
        sim <- v1, asked <- v2, exact <- v3, remaining <- v4, clusters <- v5,
        rounds <- v6, pc <- v7

E == INSTANCE Exposure WITH Requests <- Takers, None <- Nothing,
        feed <- v1, arrived <- v2, purged <- v3, scores <- v4, pc <- v5, call <- v6,
        samples <- v7

Unused == "unused"

MCInit ==
    /\ S!Init
    /\ \/ /\ part \in {"scheduler", "stream"}
          /\ v1 = Unused /\ v2 = Unused /\ v3 = Unused /\ v4 = Unused
       \/ part = "limiter" /\ R!Init
       \/ part = "annealer" /\ N!Init
       \/ part = "planner" /\ P!Init
       \/ part = "tuning" /\ T!Init
       \/ part = "clusters" /\ C!Init
       \/ part = "exposure" /\ E!Init
    /\ part \in {"scheduler", "stream", "limiter", "planner"} =>
          v5 = Unused /\ v6 = Unused /\ v7 = Unused
    /\ part # "annealer" =>
          v8 = Unused /\ v9 = Unused /\ v10 = Unused /\ v11 = Unused /\ v12 = Unused
            /\ v13 = Unused
    /\ Init
    /\ part # "stream" => \A s \in Streams : worker[s] = CHOOSE w \in Workers : TRUE

MCNext ==
    \/ part = "scheduler" /\ S!Next /\ UNCHANGED <<part, shared, vars>>
    \/ part = "stream" /\ Next /\ UNCHANGED <<part, shared, scheduler>>
    \/ part = "limiter" /\ R!Next
         /\ UNCHANGED <<part, scheduler, vars, v5, v6, v7, v8, v9, v10, v11, v12, v13>>
    \/ part = "annealer" /\ N!Next /\ UNCHANGED <<part, scheduler, vars>>
    \/ part = "planner" /\ P!Next
         /\ UNCHANGED <<part, scheduler, vars, v5, v6, v7, v8, v9, v10, v11, v12, v13>>
    \/ part = "tuning" /\ T!Next
         /\ UNCHANGED <<part, scheduler, vars, v8, v9, v10, v11, v12, v13>>
    \/ part = "clusters" /\ C!Next
         /\ UNCHANGED <<part, scheduler, vars, v8, v9, v10, v11, v12, v13>>
    \/ part = "exposure" /\ E!Next
         /\ UNCHANGED <<part, scheduler, vars, v8, v9, v10, v11, v12, v13>>

MCSpec == MCInit /\ [][MCNext]_mcvars /\ S!Fairness

-----------------------------------------------------------------------------
\* A stop of the scheduler ends: Scheduler (workers/scheduler.py).
StopEnds == S!StopEnds

\* The limit of a window holds: RateLimiter (core/rate_limit.py).
WindowLimit == part = "limiter" => R!WindowLimit

\* The annealers answer what their model says: Annealing (quantum/annealer.py).
BookkeepingExact == part = "annealer" => N!BookkeepingExact

\* A plan accounts for every identity: Migration (quantum/pq_risk.py).
PlanComplete == part = "planner" => P!PlanComplete

\* Tuning never makes the score of its sample worse: Tuning (quantum/tuning.py).
TunedNotWorse == part = "tuning" => T!TunedNotWorse

\* An apply leaves the weights of its run: Tuning (quantum/service.py).
AppliedWhole == part = "tuning" => T!AppliedWhole

\* The clusters divide the window: Clustering (quantum/correlation_qubo.py).
ClustersSound == part = "clusters" => C!ClustersSound

\* The stored scores stand: Exposure (quantum/pq_risk.py, quantum/service.py).
ScoresStand == part = "exposure" => E!ScoresStand
=============================================================================
