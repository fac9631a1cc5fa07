----------------------------- MODULE Migration -----------------------------
(***************************************************************************)
(* The migration planner: plan_migration of services/quantum/pq_risk.py    *)
(* and the run that services/quantum/service.py stores of it.              *)
(*                                                                         *)
(* An identity is its place in the request.  The variable i * w + k says   *)
(* that identity i migrates in wave k, both from 0.  Coefficients are ten  *)
(* times the capacity as large as those of the code, which makes them      *)
(* integers.  Names, labels, the solver's own figures and the exposure that *)
(* a greedy plan would have are left out.                                  *)
(***************************************************************************)
EXTENDS Qubo, Sequences

CONSTANTS
    Portfolios,  \* sequences of [qes, criticality, effort]
    WaveCounts,
    Capacities,  \* wave_capacity of a request; 0 leaves it to the planner
    Nothing

VARIABLES
    request,  \* [ids, waves, wave_capacity, exact]: exact if the solver enumerates
    ones,     \* the bitstring the solver answers
    plan,     \* the MigrationPlan
    stored    \* the result of the QuantumRun

vars == <<request, ones, plan, stored>>

Init ==
    /\ request \in [ids : Portfolios, waves : WaveCounts, wave_capacity : Capacities,
                    exact : BOOLEAN]
    /\ ones = Nothing /\ plan = Nothing /\ stored = Nothing

-----------------------------------------------------------------------------
ids == request.ids
w == request.waves
N == Len(ids)

Id(v) == ids[v \div w + 1]
wave(v) == v % w

total_effort == SumFunction([i \in DOMAIN ids |-> ids[i].effort])

cap == IF request.wave_capacity # 0 THEN request.wave_capacity
       ELSE (total_effort + w - 1) \div w

weight_scale == Max({1} \cup {ids[i].qes : i \in DOMAIN ids})

\* Mutant: a penalty that the risk of one identity outweighs.
LightLam == 10 * cap * weight_scale

lam == 40 * cap * weight_scale  \* one identity, one wave
mu == 6 * weight_scale          \* the capacity of a wave

\* risk * (k + 1)
Objective(v) == cap * Id(v).qes * (6 + Id(v).criticality) * (wave(v) + 1)

\* mu * (the effort of the wave - cap)^2
CapacityLinear(v) == mu * (Id(v).effort * Id(v).effort - 2 * cap * Id(v).effort)
CapacityQuadratic(e) ==
    IF Cardinality({wave(v) : v \in e}) = 1
    THEN 2 * mu * Id(Min(e)).effort * Id(Max(e)).effort ELSE 0

model ==
    LET xs == 0 .. N * w - 1
    IN  QUBOModel([v \in xs |-> Objective(v) + OneHotLinear(lam) + CapacityLinear(v)],
                  [e \in Pairs(xs) |-> OneHotQuadratic(e, w, lam) + CapacityQuadratic(e)],
                  N * lam + w * mu * cap * cap)

Solve ==
    /\ ones = Nothing
    /\ \/ request.exact /\ ones' = brute_force(model)
       \/ ~request.exact /\ ones' \in SUBSET (0 .. N * w - 1)
    /\ UNCHANGED <<request, plan, stored>>

\* The waves that a bitstring gives identity i.
Chosen(i) == {wave(v) : v \in {v \in ones : v \div w = i}}

Load(members) == SumFunction([i \in members |-> ids[i + 1].effort])

\* Several waves mean the earliest, none leaves the identity out.
Decoded ==
    LET places == [k \in 0 .. w - 1 |->
            {i \in 0 .. N - 1 : Chosen(i) # {} /\ Min(Chosen(i)) = k}]
        unassigned == {i \in 0 .. N - 1 : Chosen(i) = {}}
    IN
    [waves |-> places, unassigned |-> unassigned, capacity |-> cap,
     cumulative |-> SumFunction([k \in 0 .. w - 1 |->
        (k + 1) * SumFunction([i \in places[k] |-> ids[i + 1].qes])]),
     notes |-> {n \in {"unplaced", "overloaded"} :
                \/ n = "unplaced" /\ unassigned # {}
                \/ n = "overloaded" /\ \E k \in 0 .. w - 1 : Load(places[k]) > cap}]

Plan ==
    /\ ones # Nothing /\ plan = Nothing
    /\ plan' = Decoded
    /\ UNCHANGED <<request, ones, stored>>

\* The commit of the run.
Store ==
    /\ plan # Nothing /\ stored = Nothing
    /\ stored' = plan
    /\ UNCHANGED <<request, ones, plan>>

Next == Solve \/ Plan \/ Store

Spec == Init /\ [][Next]_vars

-----------------------------------------------------------------------------
Exact == request.exact

\* The effort that the bitstring puts into wave k.
Filled(k) == Load({i \in 0 .. N - 1 : k \in Chosen(i)})

(***************************************************************************)
(* "Exactly one wave per identity": a plan places every identity once, or  *)
(* says that it did not, and says when a wave is beyond its capacity.  The *)
(* penalties are soft, so an exact solver may still give an identity two   *)
(* waves, which fills them better, but only one of an effort above 3 under *)
(* a capacity above 6; and it may leave one out, but only if the first     *)
(* three waves have no room: their risk is worth less than the penalty.    *)
(***************************************************************************)
PlanComplete ==
    stored # Nothing =>
        /\ \A i \in 0 .. N - 1 :
              Cardinality({k \in 0 .. w - 1 : i \in stored.waves[k]})
                = IF i \in stored.unassigned THEN 0 ELSE 1
        /\ \A k \in 0 .. w - 1 :
              Load(stored.waves[k]) > stored.capacity => "overloaded" \in stored.notes
        /\ stored.unassigned # {} => "unplaced" \in stored.notes
        /\ Exact =>
              \A i \in 0 .. N - 1 :
                  ids[i + 1].effort <= 3 \/ cap <= 6 => Cardinality(Chosen(i)) <= 1
        /\ Exact =>
              \A i \in stored.unassigned, k \in 0 .. w - 1 :
                  k <= 2 => Filled(k) + ids[i + 1].effort > stored.capacity
=============================================================================
