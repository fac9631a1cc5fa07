----------------------------- MODULE Annealing -----------------------------
(***************************************************************************)
(* The solvers of services/quantum/annealer.py: one call of solve.         *)
(*                                                                         *)
(* The random numbers are left open: spins start anywhere, a sweep visits  *)
(* them in any order, and a move that raises the energy may be taken or    *)
(* not.  Temperatures, the field and the trajectory, which is shown and    *)
(* not read again, are left out.                                           *)
(***************************************************************************)
EXTENDS Qubo, Sequences

CONSTANTS
    Qubos,               \* the models to solve
    AutoMax, BruteMax,   \* 18 and _BRUTE_FORCE_MAX_N
    Sweeps, Restarts, Trotter,
    Nothing

VARIABLES
    qubo, method,  \* the arguments of solve; method as "auto" decides it
    pc,            \* "solve", "restart", "sa", "replicas", "sqa" or "done"
    replicas,      \* one row of spins (SA), or Trotter of them
    fields,        \* the local field of every row, updated with every flip
    carried,       \* SA: the energy of its spins, updated with every flip
    todo,          \* spins the sweep of row k has still to visit
    k, sweep, runs,
    best,          \* [spins, energy], or Nothing while best_energy is infinite
    sa, result     \* [bits, energy, optimal] of SA, and of the call

vars == <<qubo, method, pc, replicas, fields, carried, todo, k, sweep, runs, best, sa, result>>

V == Variables(qubo)
ising == from_qubo(qubo)
can_brute_force == qubo.n <= BruteMax

Init ==
    /\ qubo \in Qubos
    /\ method \in {"auto", "brute", "sa", "sqa", "best"}
    /\ pc = "solve"
    /\ replicas = <<>> /\ fields = <<>> /\ carried = 0
    /\ todo = {} /\ k = 1 /\ sweep = 0 /\ runs = 0
    /\ best = Nothing /\ sa = Nothing /\ result = Nothing

-----------------------------------------------------------------------------
(* What both solvers do. *)

\* Mutant: the fields are updated with the spin as it was before the flip.
UpdatesEarly(field, i, new) ==
    [v \in V |-> IF v = i THEN field[v] ELSE field[v] - 4 * new * ising.J[{v, i}]]

\* fields += 4 s[i] J[i], with s[i] already flipped.
Updates(field, i, new) ==
    [v \in V |-> IF v = i THEN field[v] ELSE field[v] + 4 * new * ising.J[{v, i}]]

\* Eight times the change that a flip of spin i makes to the energy.
Delta(i) == -2 * replicas[k][i] * fields[k][i]

Flip(i) ==
    /\ replicas' = [replicas EXCEPT ![k][i] = -@]
    /\ fields' = [fields EXCEPT ![k] = Updates(@, i, -replicas[k][i])]

Better(e) == best # Nothing => e < best.energy

\* _finalize: an optimum is known when the model can be enumerated.
Finalized(b) ==
    [bits |-> bits(b.spins), energy |-> b.energy,
     optimal |-> IF can_brute_force
                 THEN IF b.energy = 8 * energy(qubo, brute_force(qubo)) THEN "yes" ELSE "no"
                 ELSE "unknown"]

Clear == replicas' = <<>> /\ fields' = <<>> /\ carried' = 0 /\ todo' = {} /\ k' = 1 /\ sweep' = 0

-----------------------------------------------------------------------------
(* simulated_annealing. *)

Restart(s) ==
    /\ pc = "restart"
    /\ replicas' = <<s>>
    /\ fields' = <<local_field(ising, s)>>
    /\ carried' = energy_spin(ising, s)
    /\ todo' = V /\ sweep' = 0
    /\ pc' = "sa"
    /\ UNCHANGED <<qubo, method, k, runs, best, sa, result>>

VisitSA(i) ==
    /\ pc = "sa" /\ i \in todo
    /\ todo' = todo \ {i}
    /\ \/ Flip(i) /\ carried' = carried + Delta(i)
       \/ Delta(i) > 0 /\ UNCHANGED <<replicas, fields, carried>>
    /\ UNCHANGED <<qubo, method, pc, k, sweep, runs, best, sa, result>>

\* What the run found by the end of this sweep.
BestOfSA == IF Better(carried) THEN [spins |-> replicas[1], energy |-> carried] ELSE best

SweptSA ==
    /\ pc = "sa" /\ todo = {}
    /\ best' = BestOfSA
    /\ \/ /\ sweep + 1 < Sweeps
          /\ sweep' = sweep + 1 /\ todo' = V
          /\ UNCHANGED <<pc, replicas, fields, carried, k, runs, sa, result>>
       \/ /\ sweep + 1 = Sweeps /\ runs + 1 < Restarts
          /\ runs' = runs + 1 /\ pc' = "restart"
          /\ Clear /\ UNCHANGED <<sa, result>>
       \/ /\ sweep + 1 = Sweeps /\ runs + 1 = Restarts
          /\ runs' = 0 /\ Clear
          /\ IF method = "sa"
             THEN pc' = "done" /\ result' = Finalized(BestOfSA) /\ UNCHANGED sa
             ELSE pc' = "replicas" /\ sa' = Finalized(BestOfSA) /\ UNCHANGED result
    /\ UNCHANGED <<qubo, method>>

-----------------------------------------------------------------------------
(* simulated_quantum_annealing. *)

StartSQA(rows) ==
    /\ pc = "replicas"
    /\ replicas' = rows
    /\ fields' = [j \in 1 .. Trotter |-> local_field(ising, rows[j])]
    /\ best' = Nothing
    /\ todo' = V /\ pc' = "sqa"
    /\ UNCHANGED <<qubo, method, carried, k, sweep, runs, sa, result>>

\* The rows form a ring; a row's neighbours stay as they are while it is swept.
neighbour(i) ==
    replicas[(k % Trotter) + 1][i] + replicas[((k + Trotter - 2) % Trotter) + 1][i]

\* The coupling of the rows is not negative: a move that neither the energy nor
\* the neighbours object to is taken, any other one may be.
Taken(i) == Delta(i) <= 0 /\ replicas[k][i] * neighbour(i) <= 0

VisitSQA(i) ==
    /\ pc = "sqa" /\ i \in todo
    /\ todo' = todo \ {i}
    /\ \/ Flip(i)
       \/ ~Taken(i) /\ UNCHANGED <<replicas, fields>>
    /\ UNCHANGED <<qubo, method, pc, carried, k, sweep, runs, best, sa, result>>

NextRow ==
    /\ pc = "sqa" /\ todo = {} /\ k < Trotter
    /\ k' = k + 1 /\ todo' = V
    /\ UNCHANGED <<qubo, method, pc, replicas, fields, carried, sweep, runs, best, sa, result>>

\* The first of the rows with the least energy, when it is an improvement.
BestOfSQA ==
    LET e == [j \in 1 .. Trotter |-> energy_spin(ising, replicas[j])]
        least == Min({e[j] : j \in 1 .. Trotter})
        first == Min({j \in 1 .. Trotter : e[j] = least})
    IN  IF Better(least) THEN [spins |-> replicas[first], energy |-> least] ELSE best

\* solve, method "best": SQA wins a draw.
Winner(sqa) == IF sa = Nothing THEN sqa
               ELSE IF sqa.energy <= sa.energy THEN sqa ELSE sa

SweptSQA ==
    /\ pc = "sqa" /\ todo = {} /\ k = Trotter
    /\ best' = BestOfSQA
    /\ \/ /\ sweep + 1 < Sweeps
          /\ sweep' = sweep + 1 /\ k' = 1 /\ todo' = V
          /\ UNCHANGED <<pc, replicas, fields, carried, result>>
       \/ /\ sweep + 1 = Sweeps
          /\ result' = Winner(Finalized(BestOfSQA))
          /\ pc' = "done" /\ Clear
    /\ UNCHANGED <<qubo, method, runs, sa>>

-----------------------------------------------------------------------------
(* solve. *)

Dispatch ==
    LET chosen == IF method # "auto" THEN method
                  ELSE IF qubo.n <= AutoMax THEN "brute" ELSE "best"
    IN
    /\ pc = "solve"
    /\ method' = IF chosen = "brute" /\ ~can_brute_force THEN "best" ELSE chosen
    /\ \/ /\ method' = "brute" /\ pc' = "done"
          /\ LET x == brute_force(qubo)
             IN  result' = [bits |-> x, energy |-> 8 * energy(qubo, x), optimal |-> "yes"]
       \/ /\ method' \in {"sa", "best"} /\ pc' = "restart"
          /\ UNCHANGED result
       \/ /\ method' = "sqa" /\ pc' = "replicas"
          /\ UNCHANGED result
    /\ UNCHANGED <<qubo, replicas, fields, carried, todo, k, sweep, runs, best, sa>>

Next ==
    \/ Dispatch
    \/ \E s \in Spins(qubo) : Restart(s)
    \/ \E i \in V : VisitSA(i) \/ VisitSQA(i)
    \/ SweptSA \/ NextRow \/ SweptSQA
    \/ \E rows \in [1 .. Trotter -> Spins(qubo)] : StartSQA(rows)

Spec == Init /\ [][Next]_vars

-----------------------------------------------------------------------------
(***************************************************************************)
(* What the solvers keep up step by step is what its definition says: the  *)
(* fields of every row after every flip, and the energy that SA carries    *)
(* from one sweep to the next.  What they answer is a bitstring with the   *)
(* QUBO energy they give for it, which is the least one exactly when they  *)
(* say that it is optimal.                                                 *)
(***************************************************************************)
Sound(r) ==
    /\ r.energy = 8 * energy(qubo, r.bits)
    /\ r.optimal = "unknown" \/ (r.optimal = "yes" <=> r.bits \in Optima(qubo))

BookkeepingExact ==
    /\ \A j \in DOMAIN fields : fields[j] = local_field(ising, replicas[j])
    /\ pc = "sa" => carried = energy_spin(ising, replicas[1])
    /\ pc = "done" => Sound(result)

-----------------------------------------------------------------------------
(***************************************************************************)
(* The invariant that BookkeepingExact rests on: there are as many rows of *)
(* spins as the solver at work keeps, each with its fields, and whatever   *)
(* was set aside is right.                                                 *)
(***************************************************************************)
Rows == CASE pc = "sa" -> 1 .. 1 [] pc = "sqa" -> 1 .. Trotter [] OTHER -> {}

RowsWhole ==
    /\ DOMAIN replicas = Rows /\ DOMAIN fields = Rows
    /\ \A j \in Rows :
          replicas[j] \in Spins(qubo) /\ fields[j] = local_field(ising, replicas[j])
    /\ IF pc = "sqa" THEN k \in 1 .. Trotter ELSE k = 1

Known(b) == b.spins \in Spins(qubo) /\ b.energy = energy_spin(ising, b.spins)

Inv ==
    /\ qubo \in Qubos
    /\ RowsWhole
    /\ pc = "sa" => carried = energy_spin(ising, replicas[1])
    /\ best = Nothing \/ Known(best)
    /\ sa = Nothing \/ Sound(sa)
    /\ pc = "done" => Sound(result)
=============================================================================
