---------------------------- MODULE MCDetection ----------------------------
(* Small instances of Detection. *)
EXTENDS Detection, TLC

Symmetry == Permutations(Runs)

Sub(signature, payload, signer, source, verdict, found) ==
    [signature |-> signature, payload |-> payload, signer |-> signer,
     source |-> source, verdict |-> verdict, found |-> found]

\* A forged document, the same signature on another payload, and a critical
\* finding of another signer and source that shares a payload with the first.
SmallSubmissions ==
    { Sub("g1", "p1", "k1", "ip1", "invalid", {Finding("T01", "high")}),
      Sub("g1", "p2", "k2", "ip1", "invalid", {}),
      Sub("g2", "p1", "k2", "ip2", "valid", {Finding("T02", "critical")}) }

UnderWay == {r \in Runs : pc[r] \notin Ended \cup {"idle"}}

\* At most one run fails or the rule is switched off, not both; at most two runs
\* are under way at a time, and not all are called alike; ...
Few ==
    /\ Cardinality({r \in Runs : pc[r] = "failed"}) + Cardinality(Disabled(rules)) <= 1
    /\ Cardinality(UnderWay) <= 2
    /\ \E q, r \in Runs : sub[q] # sub[r]

\* ... it fails after its event is committed (before, it leaves nothing); the
\* clock goes on while at most one is; the rules, which are read when a run
\* begins, change at first, while none is, and a rule switched off stays off.
Rarely ==
    /\ \A r \in Runs : pc'[r] = "failed" => r \in events
    /\ now' # now => Cardinality(UnderWay) <= 1
    /\ rules' # rules => UnderWay = {} /\ now = 0
    /\ \A k \in Disabled(rules) : ~rules'[k].enabled
=============================================================================
