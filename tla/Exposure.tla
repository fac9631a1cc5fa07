------------------------------ MODULE Exposure ------------------------------
(***************************************************************************)
(* Quantum exposure: score_qes of services/quantum/pq_risk.py, and the     *)
(* stored scores of score_portfolio of service.py, with the purge of the   *)
(* events that they cite.                                                  *)
(*                                                                         *)
(* Factors are in thousandths, scores in tenths.  A curve is the number in *)
(* its name that the code looks for.  Events arrive in the order of their  *)
(* numbers; the weights are the default ones, which no route changes.      *)
(***************************************************************************)
EXTENDS Integers, Sequences, FiniteSetsExt

CONSTANTS
    Requests,
    Feeds,      \* sequences of the events that arrive: [spki, key]
    Lifetimes,  \* of the data, in years
    Exposures,  \* subset of DOMAIN _EXPOSURE
    Ahead,      \* qc_year less the current year
    None

VARIABLES
    feed, arrived,  \* the events of feed up to arrived are verified
    purged,         \* the events up to purged are deleted
    scores,         \* the rows of quantum_exposure_scores
    pc, call,       \* request -> where it stands, its payload
    samples         \* request -> one event of each group that it read

vars == <<feed, arrived, purged, scores, pc, call, samples>>

Call == [life : Lifetimes, exposure : Exposures, ahead : Ahead]

Init ==
    /\ feed \in Feeds
    /\ arrived = 0 /\ purged = 0
    /\ scores = {}
    /\ pc = [r \in Requests |-> "idle"]
    /\ call = [r \in Requests |-> None]
    /\ samples = [r \in Requests |-> {}]

-----------------------------------------------------------------------------
(* score_qes. *)

_RSA_STRENGTH ==
    [b \in {1024, 2048, 3072, 4096, 7680, 15360} |->
        CASE b = 1024 -> 1000 [] b = 2048 -> 900 [] b = 3072 -> 780
          [] b = 4096 -> 660 [] b = 7680 -> 420 [] b = 15360 -> 220]

_ECC_STRENGTH ==
    [b \in {256, 384, 521} |-> CASE b = 256 -> 950 [] b = 384 -> 820 [] b = 521 -> 680]

_EXPOSURE ==
    [public |-> 1000, transmitted |-> 750, internal |-> 350, sealed |-> 100]

\* Mutant: the distance to the upper key instead of the lower one.
FromUpper(table, value, lo, hi) ==
    table[lo] + ((hi - value) * (table[hi] - table[lo])) \div (hi - lo)

\* Exact where hi - lo divides the product.
Between(table, value, lo, hi) ==
    table[lo] + ((value - lo) * (table[hi] - table[lo])) \div (hi - lo)

_interp(table, value) ==
    LET keys == DOMAIN table
        lo == Max({k \in keys : k <= value} \cup {Min(keys)})
        hi == Min({k \in keys : k >= value} \cup {Max(keys)})
    IN  IF lo >= hi THEN table[lo]
        ELSE IF value <= lo THEN table[lo]
        ELSE IF value >= hi THEN table[hi]
        ELSE Between(table, value, lo, hi)

PostQuantum(key) == key.algo = "ml-dsa"
Elliptic(key) == key.algo \in {"ec", "ed25519", "ed448"}
Factored(key) == key.algo \in {"rsa", "dsa"}

\* Twice the factor of the algorithm, and that of its strength.
algo_factor(key) ==
    IF PostQuantum(key) THEN 0 ELSE IF Elliptic(key) \/ Factored(key) THEN 2 ELSE 1

strength_factor(key) ==
    IF PostQuantum(key) THEN 0
    ELSE IF Elliptic(key)
    THEN _interp(_ECC_STRENGTH, IF key.curve \in {521, 384} THEN key.curve ELSE 256)
    ELSE IF Factored(key)
    THEN _interp(_RSA_STRENGTH, IF key.bits = None THEN 2048 ELSE key.bits)
    ELSE 500

\* The years until a quantum computer.
horizon(c) == Max({1, c.ahead})

longevity_factor(c) == Min({1000, (1000 * c.life) \div horizon(c)})

Rounded(n, d) == (2 * n + d) \div (2 * d)

score_qes(key, c) ==
    Rounded(algo_factor(key)
              * (4600000 + 800 * (9 * strength_factor(key) + 8 * longevity_factor(c)
                                    + 6 * _EXPOSURE[c.exposure])),
            46000)

band(qes) ==
    IF qes < 250 THEN "ok" ELSE IF qes < 500 THEN "monitor"
    ELSE IF qes < 750 THEN "plan" ELSE "immediate"

-----------------------------------------------------------------------------
(* The events, and score_portfolio. *)

Verify ==
    /\ arrived < Len(feed)
    /\ arrived' = arrived + 1
    /\ UNCHANGED <<feed, purged, scores, pc, call, samples>>

\* The foreign key deletes the scores with their event.
Purge ==
    /\ purged < arrived
    /\ purged' = purged + 1
    /\ scores' = {s \in scores : s.event # purged'}
    /\ UNCHANGED <<feed, arrived, pc, call, samples>>

\* The events of a window that have a key, by their signer or else by their key.
Recent(since) == {e \in since .. arrived : feed[e].key # None}
Signer(e) == IF feed[e].spki # None THEN <<feed[e].spki>> ELSE <<None, feed[e].key>>
Groups(since) == {{d \in Recent(since) : Signer(d) = Signer(e)} : e \in Recent(since)}

\* The query has no order: a group is scored by any one of its events.
Reads(r, c, since) ==
    /\ pc[r] = "idle" /\ since > purged
    /\ call' = [call EXCEPT ![r] = c]
    /\ \E S \in SUBSET Recent(since) :
          /\ \A g \in Groups(since) : Cardinality(g \cap S) = 1
          /\ samples' = [samples EXCEPT ![r] = S]
    /\ pc' = [pc EXCEPT ![r] = IF Recent(since) = {} THEN "answered" ELSE "commit"]
    /\ UNCHANGED <<feed, arrived, purged, scores>>

\* The foreign key of every row finds its event.
Cited(r) == \A e \in samples[r] : e > purged

Row(e, c) ==
    LET qes == score_qes(feed[e].key, c)
    IN  [event |-> e, key |-> feed[e].key, call |-> c, qes |-> qes, band |-> band(qes)]

Commits(r) ==
    /\ pc[r] = "commit" /\ Cited(r)
    /\ scores' = scores \cup {Row(e, call[r]) : e \in samples[r]}
    /\ pc' = [pc EXCEPT ![r] = "answered"]
    /\ UNCHANGED <<feed, arrived, purged, call, samples>>

\* An event was purged since it was read: none of the rows is stored.
Fails(r) ==
    /\ pc[r] = "commit" /\ ~Cited(r)
    /\ pc' = [pc EXCEPT ![r] = "failed"]
    /\ UNCHANGED <<feed, arrived, purged, scores, call, samples>>

Next ==
    \/ Verify \/ Purge
    \/ \E r \in Requests :
          \/ \E c \in Call, since \in DOMAIN feed : Reads(r, c, since)
          \/ Commits(r) \/ Fails(r)

Spec == Init /\ [][Next]_vars

-----------------------------------------------------------------------------
\* One key of a family is no weaker than another.
Family(key) ==
    IF Factored(key) THEN "factored" ELSE IF Elliptic(key) THEN "elliptic" ELSE key.algo
Size(key) ==
    IF Elliptic(key) THEN (IF key.curve = None THEN 256 ELSE key.curve)
    ELSE IF key.bits = None THEN 2048 ELSE key.bits
AsStrong(key, other) == Family(key) = Family(other) /\ Size(key) >= Size(other)

\* One request puts its data at no more risk than another.
AsSafe(c, d) ==
    /\ c.life <= d.life /\ c.ahead >= d.ahead
    /\ _EXPOSURE[c.exposure] <= _EXPOSURE[d.exposure]

Urgency == [ok |-> 0, monitor |-> 1, plan |-> 2, immediate |-> 3]

(***************************************************************************)
(* The stored scores stand: their event is still there, a post-quantum     *)
(* key scores nothing, every other key something, and no key scores lower  *)
(* or in a milder band than a key of its family that is as strong, with    *)
(* data that is as safe.                                                   *)
(***************************************************************************)
ScoresStand ==
    \A s \in scores :
        /\ s.event \in purged + 1 .. arrived /\ feed[s.event].key = s.key
        /\ s.qes \in 0 .. 1000 /\ (s.qes = 0) = PostQuantum(s.key)
        /\ PostQuantum(s.key) => s.band = "ok"
        /\ \A t \in scores :
              AsStrong(s.key, t.key) /\ AsSafe(s.call, t.call) =>
                  s.qes <= t.qes /\ Urgency[s.band] <= Urgency[t.band]
=============================================================================
