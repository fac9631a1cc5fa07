----------------------------- MODULE Clustering -----------------------------
(***************************************************************************)
(* Incident grouping: correlate_qubo of services/quantum/correlation_qubo  *)
(* over the events that run_correlation of service.py reads.               *)
(*                                                                         *)
(* An event is its place in the window.  Similarities are in hundredths;   *)
(* gamma, and with it the weights, four times as large, so that the        *)
(* interpolated percentile is an integer.  The modularities, the labels    *)
(* and the solver's own figures are left out.                              *)
(***************************************************************************)
EXTENDS Qubo

CONSTANTS
    Similarities,  \* symmetric matrices, as functions on pairs of events
    Gammas,        \* gamma of a request; -1 leaves it to the data
    MaxClusters    \* _MAX_CLUSTERS

VARIABLES
    sim, asked, exact,  \* exact: the solver enumerates
    remaining, clusters,
    rounds,
    pc                  \* "round" or "done"

vars == <<sim, asked, exact, remaining, clusters, rounds, pc>>

Events == UNION DOMAIN sim

Init ==
    /\ sim \in Similarities /\ asked \in Gammas /\ exact \in BOOLEAN
    /\ remaining = Events
    /\ clusters = {} /\ rounds = 0 /\ pc = "round"

-----------------------------------------------------------------------------

\* The entries of the matrix above zero, each pair twice; the one of rank k.
Positive == {e \in DOMAIN sim : sim[e] > 0}
Entry(k) ==
    Min({sim[e] : e \in {e \in Positive :
            2 * Cardinality({d \in Positive : sim[d] <= sim[e]}) > k}})

\* np.percentile(nz, 25), with its interpolation; 0.2 without an entry.
Percentile ==
    LET last == 2 * Cardinality(Positive) - 1
        k == last \div 4
    IN  IF Positive = {} THEN 80
        ELSE 4 * Entry(k) + (last % 4) * (Entry(IF k < last THEN k + 1 ELSE k) - Entry(k))

gamma == IF asked = -1 THEN Percentile ELSE 4 * asked

\* The events that remain, numbered in their order.
idx(v) == CHOOSE i \in remaining : Cardinality({j \in remaining : j < i}) = v

model ==
    LET xs == 0 .. Cardinality(remaining) - 1
    IN  QUBOModel([v \in xs |-> 0],
                  [e \in Pairs(xs) |-> gamma - 4 * sim[{idx(v) : v \in e}]], 0)

\* An exact solver answers the optimum, another one anything.
Picks ==
    LET answers == IF exact THEN {brute_force(model)} ELSE SUBSET Variables(model)
    IN  {{idx(v) : v \in x} : x \in answers}

Internal(S) == SumFunctionOnSet(sim, Pairs(S))

\* Mutant: the events of a cluster stay.
KeepsPicked(picked) == remaining

Without(picked) == remaining \ picked

Round ==
    /\ pc = "round"
    /\ rounds < MaxClusters /\ Cardinality(remaining) >= 2
    /\ \E picked \in Picks :
          \/ /\ Cardinality(picked) >= 2 /\ Internal(picked) > 0
             /\ clusters' = clusters \cup {picked}
             /\ remaining' = Without(picked)
             /\ rounds' = rounds + 1
             /\ UNCHANGED pc
          \/ /\ Cardinality(picked) < 2 \/ Internal(picked) <= 0
             /\ pc' = "done"
             /\ UNCHANGED <<remaining, clusters, rounds>>
    /\ UNCHANGED <<sim, asked, exact>>

Stop ==
    /\ pc = "round"
    /\ rounds = MaxClusters \/ Cardinality(remaining) < 2
    /\ pc' = "done"
    /\ UNCHANGED <<sim, asked, exact, remaining, clusters, rounds>>

Next == Round \/ Stop

Spec == Init /\ [][Next]_vars

-----------------------------------------------------------------------------
\* The objective of the QUBO, "maximise sum_{i<j in S} (w_ij - gamma)"
\* (correlation_qubo.py:98): gamma is taken from every pair.  The docstring (3-5)
\* and ARCHITECTURE.md:461 take gamma * |S|, once for every member; the two part on
\* five events all alike at 0.5 with gamma 0.6, of worth 5 - 6 here and 5 - 3 there.
Worth(S) == SumFunction([e \in Pairs(S) |-> 4 * sim[e] - gamma])

(***************************************************************************)
(* The clusters and the singletons divide the events of the window.  With  *)
(* a solver that enumerates every cluster is denser than gamma, and what   *)
(* is left over, unless the twelve clusters ran out, has no group that is: *)
(* by the objective of the QUBO, not by that of the docstring, which would *)
(* still find groups in what is left over.                                 *)
(***************************************************************************)
ClustersSound ==
    pc = "done" =>
        /\ (UNION clusters) \cup remaining = Events
        /\ \A c \in clusters : Cardinality(c) >= 2 /\ c \cap remaining = {}
        /\ \A c, d \in clusters : c = d \/ c \cap d = {}
        /\ Cardinality(clusters) = rounds
        /\ exact => \A c \in clusters : Worth(c) > 0
        /\ exact /\ rounds < MaxClusters => \A S \in SUBSET remaining : Worth(S) <= 0
=============================================================================
