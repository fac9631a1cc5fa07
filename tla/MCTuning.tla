------------------------------ MODULE MCTuning ------------------------------
(***************************************************************************)
(* Two tunings of the same events and rules, in processes that may have    *)
(* been started again in between; and one of weights that are not stored   *)
(* as they are.                                                            *)
(***************************************************************************)
EXTENDS Tuning

Event(fired, malicious, count) ==
    [fired |-> fired, malicious |-> malicious, count |-> count]

\* Two rules that only fire on an attack together, and one rule alone.
MCSamples ==
    << {Event({1}, FALSE, 4), Event({2}, FALSE, 4), Event({1, 2}, TRUE, 4)},
       {Event({2}, FALSE, 4), Event({2}, TRUE, 8)} >>

MCLevels == <<0, 30, 60>>

MCFirstWeights == {<<10, 30>>}

\* Three rules with a third each, which flag nothing but the attack on which all
\* of them fire.
ThreeTogether ==
    << {Event({1, 2, 3}, TRUE, 1), Event({1, 2}, FALSE, 1), Event({1, 3}, FALSE, 1),
        Event({2, 3}, FALSE, 1)} >>

Thirds == {<<10, 10, 10>>}

FourLevels == <<0, 15, 30, 60>>
=============================================================================
