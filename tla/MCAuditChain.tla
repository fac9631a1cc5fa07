---------------------------- MODULE MCAuditChain ----------------------------
(***************************************************************************)
(* Small instances of AuditChain, and what verify_chain reports of a table *)
(* that was damaged outside the program.                                   *)
(***************************************************************************)
EXTENDS AuditChain

Rank(t) == CASE kind[t] = "http" -> 1 [] kind[t] = "login" -> 2 [] kind[t] = "anchor" -> 3

\* Tasks and processes are alike, so of the instances that differ in their names
\* one is taken: most tasks run on one process, those of a process, which are
\* numbers, are sorted by kind, and of two of one kind the first begins first.
Sorted ==
    /\ home[1] = home[2] /\ home[1] = CHOOSE p \in Procs : TRUE
    /\ \A t, u \in Tasks : t < u /\ home[t] = home[u] => Rank(t) <= Rank(u)

Begun == {t \in Tasks : pc[t] # "idle"}

InOrder ==
    \A u \in Begun', t \in Tasks :
        t < u /\ home[t] = home[u] /\ kind[t] = kind[u] => t \in Begun'

Without(table, s) == [r \in DOMAIN table \ {s} |-> table[r]]

OtherEntries(s) == {[by |-> t, names |-> NoHead] : t \in Tasks} \ {log[s].entry}

\* models/audit.py:4 "any tampering with historic rows is detectable and can be
\* located by sequence number", for a row with a row after it and a check that
\* starts at it or before it: changed facts are reported at the row itself, a row
\* whose hash was recomputed at its successor, and so is a missing row, unless
\* the check starts at its number and takes the successor's link on trust.
DamageLocated ==
    \A s \in DOMAIN log : s < HeadOf(log).seq =>
        \A start \in 0 .. s :
            /\ start < s \/ start <= 1 => VerifyChain(Without(log, s), start).break_at = s + 1
            /\ \A e \in OtherEntries(s) :
                 /\ VerifyChain([log EXCEPT ![s].entry = e], start).break_at = s
                 /\ VerifyChain(Insert(log, Row(s, e, log[s].prev_hash)), start).break_at
                      = s + 1
=============================================================================
