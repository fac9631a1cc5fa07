---------------------------- MODULE RateLimiter ----------------------------
(***************************************************************************)
(* The fixed-window limiter of core/rate_limit.py, for one key (a route    *)
(* and a client) in one worker: hit runs without an await.  Keys, and the  *)
(* workers, have windows of their own.  Time is in units of a clock that   *)
(* starts when the process does; the window that defaultdict makes for a   *)
(* new key starts at zero.                                                 *)
(***************************************************************************)
EXTENDS Naturals, Sequences, FiniteSets

CONSTANTS Limit, Window,
          MaxTime, MaxHits  \* bounds

VARIABLES
    now,
    start, count,  \* the key's _Window
    hits           \* history of hit: [at, ok]

vars == <<now, start, count, hits>>

\* time.monotonic() of the first hit may be anything.
Init == now \in 0 .. Window + 1 /\ start = 0 /\ count = 0 /\ hits = <<>>

Tick ==
    /\ now < MaxTime /\ now' = now + 1
    /\ UNCHANGED <<start, count, hits>>

\* A hit opens a new window when the last one is over.
Opens == now - start >= Window

\* Mutant: a window opens without a reset of its count.
KeepsCount == count

\* The count that a hit finds.
Found == IF Opens THEN 0 ELSE count

Hit ==
    LET n == Found + 1 IN
    /\ Len(hits) < MaxHits
    /\ start' = IF Opens THEN now ELSE start
    /\ count' = n
    /\ hits' = Append(hits, [at |-> now, ok |-> n <= Limit])
    /\ UNCHANGED now

Next == Tick \/ Hit

Spec == Init /\ [][Next]_vars

-----------------------------------------------------------------------------
Admitted(from, to) ==
    {i \in 1 .. Len(hits) : hits[i].ok /\ hits[i].at >= from /\ hits[i].at < to}

(***************************************************************************)
(* What the limit promises: a refused request had Limit others admitted    *)
(* less than a window before it; and any stretch as long as a window, also *)
(* one across the edge of two, admits no more than twice the limit.        *)
(***************************************************************************)
WindowLimit ==
    /\ \A i \in 1 .. Len(hits) : ~hits[i].ok =>
          LET t == hits[i].at IN
          \E s \in 0 .. t : s + Window > t /\ Cardinality(Admitted(s, t + 1)) >= Limit
    /\ \A t \in 0 .. MaxTime : Cardinality(Admitted(t, t + Window)) <= 2 * Limit

-----------------------------------------------------------------------------
(* The inductive strengthening of the invariant above. *)

TypeOK ==
    /\ now \in Nat /\ start \in Nat /\ count \in Nat
    /\ hits \in Seq([at : Nat, ok : BOOLEAN])

\* All hits are past, and none is later than the window that is open.
HitsPast ==
    /\ start <= now
    /\ \A i \in 1 .. Len(hits) : hits[i].at <= now /\ hits[i].at < start + Window

\* The count is that of the hits since the window opened, refused ones included.
CountsWindow ==
    Cardinality(Admitted(start, now + 1)) = IF count <= Limit THEN count ELSE Limit

\* Less than a window before the one that is open there was only one other.
OneBefore == \A t \in Nat : t + Window > start => Cardinality(Admitted(t, start)) <= Limit

RefusedFull ==
    \A i \in 1 .. Len(hits) : ~hits[i].ok =>
        LET t == hits[i].at IN
        \E s \in 0 .. t : s + Window > t /\ Cardinality(Admitted(s, t + 1)) >= Limit

TwiceAtMost == \A t \in Nat : Cardinality(Admitted(t, t + Window)) <= 2 * Limit

Inv == TypeOK /\ HitsPast /\ CountsWindow /\ OneBefore /\ RefusedFull /\ TwiceAtMost
=============================================================================
