------------------------------- MODULE Tuning -------------------------------
(***************************************************************************)
(* Detection-weight tuning: tune_weights of services/quantum/tuning.py,    *)
(* run_tuning and apply_tuning of services/quantum/service.py, and the     *)
(* change of a weight by PATCH /threats/rules.                             *)
(*                                                                         *)
(* A rule is its place in the list of rules.  Weights are integers in a    *)
(* unit of which Unit make 1.0 and Grain the step of three decimals that a *)
(* stored result is rounded to.  A sample is what the history gives, or    *)
(* the synthetic one in its place: how many events had which rules fire.   *)
(***************************************************************************)
EXTENDS Qubo, Sequences, Functions

CONSTANTS
    Tuners, Appliers,  \* requests
    Rules,       \* 1 .. the number of rules
    Samples,     \* the events of a sample: sets of [fired, malicious, count]
    FirstWeights, NewWeights,
    Unit, Grain,
    Levels,      \* DEFAULT_LEVELS, in ascending order
    Threshold,
    FpCost,      \* in tenths
    Nothing

VARIABLES
    weight,  \* detection_rules.weight
    order,   \* pairs of rules that the process meets in the order of the list
    pc,      \* request -> where it stands
    seen,    \* request -> what it read
    run,     \* tuner -> the QuantumRun it stored
    last,    \* the request that applied last, or Nothing after a PATCH
    moved    \* requests that another commit overtook

Requests == Tuners \cup Appliers

vars == <<weight, order, pc, seen, run, last, moved>>

Init ==
    /\ weight \in FirstWeights
    /\ order \in SUBSET kSubset(2, Rules)
    /\ pc = [r \in Requests |-> "idle"]
    /\ seen = [r \in Requests |-> Nothing]
    /\ run = [r \in Tuners |-> Nothing]
    /\ last = Nothing
    /\ moved = {}

-----------------------------------------------------------------------------
(* tune_weights. *)

Rounded(n, d) == (2 * n + d) \div (2 * d)

Count(events) == SumFunction([ev \in events |-> ev.count])

\* _metrics: the F1 score in thousandths.
F1(sample, weights) ==
    LET flagged(ev) == SumFunctionOnSet(weights, ev.fired) >= Threshold
        tp == Count({ev \in Samples[sample] : ev.malicious /\ flagged(ev)})
        wrong == Count({ev \in Samples[sample] : ev.malicious # flagged(ev)})
    IN  IF tp = 0 THEN 0 ELSE Rounded(2000 * tp, 2 * tp + wrong)

\* The rules to tune: those that fired.  The others keep their weights.
Tunable(sample) == UNION {ev.fired : ev \in Samples[sample]}
RuleAt(sample, rank) ==
    CHOOSE r \in Tunable(sample) : Cardinality({q \in Tunable(sample) : q < r}) = rank

AtLeastOne(n) == IF n = 0 THEN 1 ELSE n
Malicious(sample) == AtLeastOne(Count({ev \in Samples[sample] : ev.malicious}))
Benign(sample) == AtLeastOne(Count({ev \in Samples[sample] : ~ev.malicious}))

\* scale * gain * level, and the penalties to that scale.
Gain(sample, r, level) ==
    LET fired == {ev \in Samples[sample] : r \in ev.fired}
        tp == Count({ev \in fired : ev.malicious})
        fp == Count({ev \in fired : ~ev.malicious})
    IN  10 * (10 * tp * Benign(sample) - FpCost * fp * Malicious(sample)) * level * Unit

Lam(sample) == 300 * Unit * Unit * Malicious(sample) * Benign(sample)

Together(sample, q, r) ==
    Count({ev \in Samples[sample] : ev.malicious /\ {q, r} \subseteq ev.fired})

\* The rules of an event are met in the order of a Python set, which the hash
\* seed of the process decides (the same for every event, it is assumed), and a
\* pair counts only when it is met in the order of the list of rules.
redundancy(sample, e) == IF e \in order THEN Together(sample, Min(e), Max(e)) ELSE 0

model(sample) ==
    LET n == Cardinality(Tunable(sample))
        size == Len(Levels)
        rule(v) == RuleAt(sample, v \div size)
        level(v) == Levels[(v % size) + 1]
        Redundant(e) ==
            IF rule(Min(e)) = rule(Max(e)) THEN 0
            ELSE 18 * redundancy(sample, {rule(Min(e)), rule(Max(e))}) * Benign(sample)
                    * level(Min(e)) * level(Max(e))
        xs == 0 .. n * size - 1
    IN  QUBOModel(
            [v \in xs |-> OneHotLinear(Lam(sample)) - Gain(sample, rule(v), level(v))],
            [e \in Pairs(xs) |-> OneHotQuadratic(e, size, Lam(sample)) + Redundant(e)],
            n * Lam(sample))

\* The first level of a rule that fired, or its weight as it is.
Decoded(sample, current, ones) ==
    [r \in Rules |->
        LET group == Len(Levels) * Cardinality({q \in Tunable(sample) : q < r})
            chosen == {l \in DOMAIN Levels : group + l - 1 \in ones}
        IN  IF r \notin Tunable(sample) \/ chosen = {} THEN current[r]
            ELSE Levels[Min(chosen)]]

Abs(n) == IF n < 0 THEN -n ELSE n

_nearest_level(w) ==
    LET distance(i) == Abs(Levels[i] - w)
        least == Min({distance(i) : i \in DOMAIN Levels})
    IN  Levels[Min({i \in DOMAIN Levels : distance(i) = least})]

Snapped(sample, current) ==
    [r \in Rules |-> IF r \in Tunable(sample) THEN _nearest_level(current[r]) ELSE current[r]]

\* Mutant: what the solver found is kept, whatever it is worth.
FirstOf(sample, tuned, snapped, current) == tuned

\* The first of the best.
BestOf(sample, tuned, snapped, current) ==
    LET score(w) == F1(sample, w) IN
    CASE score(tuned) >= score(snapped) /\ score(tuned) >= score(current) -> tuned
      [] score(snapped) > score(tuned) /\ score(snapped) >= score(current) -> snapped
      [] OTHER -> current

\* as_dict: what is stored, and applied later, is rounded; the scores reported are
\* those of what was kept.
Stored(weights) == [r \in Rules |-> Grain * Rounded(weights[r], Grain)]

Result(by, tuned) ==
    LET current == by.weights
        sample == by.sample
        kept == BestOf(sample, tuned, Snapped(sample, current), current)
    IN  [of |-> by, weights |-> Stored(kept),
         before |-> F1(sample, current), after |-> F1(sample, kept)]

-----------------------------------------------------------------------------
(* Requests. *)

Goto(r, label) == pc' = [pc EXCEPT ![r] = label]

UnderWay(r) == pc[r] \in {"tune", "apply"}

\* run_tuning reads rules and history; it fails if none of the rules fired.
TuneReads(r, sample, exact) ==
    /\ pc[r] = "idle"
    /\ Tunable(sample) # {}
    /\ seen' = [seen EXCEPT ![r] = [sample |-> sample, weights |-> weight, exact |-> exact]]
    /\ Goto(r, "tune")
    /\ UNCHANGED <<weight, order, run, last, moved>>

\* A solver that enumerates answers the optimum; what another one answers
\* decodes to any level of each rule, or to none.
Tuned(r) ==
    LET sample == seen[r].sample
        current == seen[r].weights
    IN  IF seen[r].exact THEN {Decoded(sample, current, brute_force(model(sample)))}
        ELSE {t \in [Rules -> Range(Levels) \cup Range(current)] :
                \A i \in Rules : t[i] # current[i] => i \in Tunable(sample) /\ t[i] \in Range(Levels)}

TuneCommits(r) ==
    /\ pc[r] = "tune"
    /\ \E tuned \in Tuned(r) : run' = [run EXCEPT ![r] = Result(seen[r], tuned)]
    /\ seen' = [seen EXCEPT ![r] = Nothing]
    /\ Goto(r, "done")
    /\ UNCHANGED <<weight, order, last, moved>>

\* apply_tuning reads the run and the rules ...
ApplyReads(r, q) ==
    /\ pc[r] = "idle" /\ run[q] # Nothing
    /\ seen' = [seen EXCEPT ![r] = [run |-> q, weights |-> weight]]
    /\ Goto(r, "apply")
    /\ UNCHANGED <<weight, order, run, last, moved>>

\* Mutant: only the rules that the run tuned are written.
WritesTuned(r, i) ==
    LET new == run[seen[r].run].weights[i]
        tuned == Tunable(run[seen[r].run].of.sample)
    IN  IF new = seen[r].weights[i] \/ i \notin tuned THEN weight[i] ELSE new

\* ... and writes the weights that differ from those it read.
Writes(r, i) ==
    LET new == run[seen[r].run].weights[i]
    IN  IF new = seen[r].weights[i] THEN weight[i] ELSE new

\* A commit overtakes the others that have read.
Overtakes(r) == moved' = moved \cup {q \in Requests : q # r /\ UnderWay(q)}

ApplyCommits(r) ==
    /\ pc[r] = "apply"
    /\ weight' = [i \in Rules |-> Writes(r, i)]
    /\ last' = r
    /\ Overtakes(r)
    /\ Goto(r, "done")
    /\ UNCHANGED <<order, seen, run>>

\* patch_rule with a weight.
PatchRule(i, w) ==
    /\ weight' = [weight EXCEPT ![i] = w]
    /\ last' = Nothing
    /\ Overtakes(Nothing)
    /\ UNCHANGED <<order, pc, seen, run>>

\* The processes start again: what was under way is lost, the order may change.
Restart ==
    /\ order' \in SUBSET kSubset(2, Rules)
    /\ pc' = [r \in Requests |-> IF UnderWay(r) THEN "done" ELSE pc[r]]
    /\ UNCHANGED <<weight, seen, run, last, moved>>

Next ==
    \/ \E r \in Tuners :
          \/ \E sample \in DOMAIN Samples, exact \in BOOLEAN : TuneReads(r, sample, exact)
          \/ TuneCommits(r)
    \/ \E r \in Appliers : (\E q \in Tuners : ApplyReads(r, q)) \/ ApplyCommits(r)
    \/ \E i \in Rules, w \in NewWeights : PatchRule(i, w)
    \/ Restart

Spec == Init /\ [][Next]_vars

-----------------------------------------------------------------------------
Runs == {run[r] : r \in Tuners} \ {Nothing}

\* Weights that a stored result can hold.
Storable(weights) == \A r \in Rules : weights[r] % Grain = 0

(***************************************************************************)
(* What a run stores, whatever the solver answers.  When the weights it    *)
(* found had no more than three decimals, the stored ones score the events *)
(* as it reports, and at least as well as those it found.  A rule that did *)
(* not fire keeps its own weight, up to the rounding.                      *)
(***************************************************************************)
TunedNotWorse ==
    \A t \in Runs :
        LET sample == t.of.sample
            current == t.of.weights
        IN  /\ Storable(current) => F1(sample, t.weights) = t.after /\ t.after >= t.before
            /\ \A r \in Rules \ Tunable(sample) : 2 * Abs(t.weights[r] - current[r]) <= Grain

(***************************************************************************)
(* "Never ship a config worse than the current weights" (tuning.py:167):   *)
(* no run stores weights that score its events worse than those it found.  *)
(***************************************************************************)
ShippedNotWorse == \A t \in Runs : F1(t.of.sample, t.weights) >= t.before

(***************************************************************************)
(* After an apply the rules have the weights of its run, all of them, also *)
(* those that were patched since the run; unless another commit overtook   *)
(* it: then some of the weights may be those of another configuration.     *)
(***************************************************************************)
AppliedWhole ==
    last # Nothing /\ last \notin moved => weight = run[seen[last].run].weights

(***************************************************************************)
(* "Every run is seeded and reproducible" (services/quantum/__init__.py):  *)
(* two runs over the same events and rules, with a solver that enumerates, *)
(* answer the same weights.                                                *)
(***************************************************************************)
RunsAgree == \A s, t \in Runs : s.of = t.of /\ s.of.exact => s.weights = t.weights

-----------------------------------------------------------------------------
(* The inductive strengthenings of AppliedWhole and of TunedNotWorse. *)

\* A run is stored once, with a weight for every rule.
RunsStored ==
    /\ DOMAIN run = Tuners /\ DOMAIN pc = Requests /\ DOMAIN seen = Requests
    /\ \A q \in Tuners :
          /\ run[q] # Nothing => pc[q] = "done"
          /\ run[q] # Nothing => run[q].weights = [i \in Rules |-> run[q].weights[i]]

\* An apply on its way that nobody overtook has read the weights as they are, and
\* the run it read of stays.
AppliesCurrent ==
    \A r \in Requests :
        /\ pc[r] = "apply" => seen[r].run \in Tuners /\ run[seen[r].run] # Nothing
        /\ pc[r] = "apply" /\ r \notin moved => seen[r].weights = weight

LastDone ==
    last # Nothing =>
        last \in Requests /\ pc[last] = "done" /\ seen[last].run \in Tuners
            /\ run[seen[last].run] # Nothing

Inv == RunsStored /\ AppliesCurrent /\ LastDone /\ AppliedWhole

\* Who tunes has read a sample, and weights are numbers wherever they are.
ReadSample ==
    \A r \in Tuners :
        pc[r] = "tune" =>
            seen[r].sample \in DOMAIN Samples /\ seen[r].weights \in [Rules -> Int]

Numbers ==
    /\ weight \in [Rules -> Int]
    /\ \A q \in Tuners : run[q] # Nothing => run[q].weights \in [Rules -> Int]

ScoreInv == Inv /\ ReadSample /\ Numbers /\ TunedNotWorse
=============================================================================
