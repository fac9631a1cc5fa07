-------------------------------- MODULE Qubo --------------------------------
(***************************************************************************)
(* QUBO and Ising models: services/quantum/qubo.py.                        *)
(*                                                                         *)
(* Variables are 0 .. n - 1 and a bitstring is the set of those that are   *)
(* 1.  Coefficients are integers: whoever builds a model scales it until   *)
(* they are.  The upper triangle of Q is a function on pairs of variables. *)
(***************************************************************************)
EXTENDS Integers, FiniteSets, FiniteSetsExt, Functions

Pairs(V) == kSubset(2, V)

\* A model from its coefficients: functions on variables and on their pairs.
QUBOModel(linear, quadratic, constant) ==
    [n |-> Cardinality(DOMAIN linear), linear |-> linear, quadratic |-> quadratic,
     offset |-> constant]

\* What add_one_hot adds for groups of `size` variables in a row, each of them
\* penalty * (the number of ones in the group - 1)^2.
OneHotLinear(penalty) == -penalty
OneHotQuadratic(e, size, penalty) ==
    IF Cardinality({v \div size : v \in e}) = 1 THEN 2 * penalty ELSE 0

Variables(q) == 0 .. q.n - 1

energy(q, ones) ==
    SumFunctionOnSet(q.linear, ones) + SumFunctionOnSet(q.quadratic, Pairs(ones)) + q.offset

\* The mask of x, bit v for variable v, is no greater than that of y: the highest
\* bit in which they differ is one of y.
Before(x, y) == x = y \/ Max(SymDiff(x, y)) \in y

Optima(q) ==
    LET e == [x \in SUBSET Variables(q) |-> energy(q, x)]
        least == Min({e[x] : x \in DOMAIN e})
    IN  {x \in DOMAIN e : e[x] = least}

\* The first optimum in the order of the masks.
brute_force(q) ==
    LET best == Optima(q) IN CHOOSE x \in best : \A y \in best : Before(x, y)

-----------------------------------------------------------------------------
(* Ising models, eight times as large: to_ising divides by 2, 4 and 8. *)

Spins(q) == [Variables(q) -> {-1, 1}]

bits(s) == {v \in DOMAIN s : s[v] = 1}

from_qubo(q) ==
    LET Touching(v) == {e \in DOMAIN q.quadratic : v \in e}
    IN  [h |-> [v \in Variables(q) |-> 4 * q.linear[v]
                 + 2 * SumFunctionOnSet(q.quadratic, Touching(v))],
         J |-> q.quadratic,
         offset |-> 8 * q.offset + 4 * SumFunction(q.linear) + 2 * SumFunction(q.quadratic)]

\* The product of the two spins of a pair.
Product(s, e) == IF Cardinality({s[v] : v \in e}) = 1 THEN 1 ELSE -1

\* s @ J @ s meets every pair twice.
energy_spin(ising, s) ==
    SumFunction([e \in DOMAIN ising.J |-> 2 * ising.J[e] * Product(s, e)])
        + SumFunction([v \in DOMAIN s |-> ising.h[v] * s[v]]) + ising.offset

local_field(ising, s) ==
    [v \in DOMAIN s |->
        2 * SumFunction([u \in DOMAIN s \ {v} |-> ising.J[{u, v}] * s[u]]) + ising.h[v]]
=============================================================================
