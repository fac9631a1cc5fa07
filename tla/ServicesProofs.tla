--------------------------- MODULE ServicesProofs ----------------------------
(***************************************************************************)
(* Proofs about the background services and the optimisers: AlertStream,   *)
(* and the components that MCServices composes, for every value of their   *)
(* constants.                                                              *)
(***************************************************************************)
EXTENDS MCServices, SequenceTheorems, FiniteSetTheorems, NaturalsInduction,
        WellFoundedInduction, TLAPS

LEMMA StepCases ==
    ASSUME [Next]_vars
    PROVE  \/ \E w \in Workers : Publish(w)
           \/ \E s \in Streams : Connect(s) \/ Deliver(s) \/ Leave(s) \/ Unsubscribe(s)
           \/ UNCHANGED vars
BY DEF Next

\* Nobody is subscribed who is not connected, and a new stream has no alerts.
Connected ==
    /\ \A s \in subscribers : state[s] \in {"open", "left"}
    /\ \A s \in Streams : state[s] = "new" => queue[s] = <<>> /\ received[s] = <<>>

Inv == TypeOK /\ Connected /\ NoGap

\* NoGap of one stream.
Whole(sent, first, last) ==
    Len(sent) = last - first /\ \A i \in 1 .. Len(sent) : sent[i] = first + i

-----------------------------------------------------------------------------
(* Sequences. *)

\* One more alert at the end of a queue.
LEMMA WholeAppend ==
    ASSUME NEW X, NEW s \in Seq(X), NEW t \in Seq(X), NEW first \in Nat, NEW last \in Nat,
           Whole(s \o t, first, last), last + 1 \in X
    PROVE  Whole(s \o Append(t, last + 1), first, last + 1)
<1> DEFINE u == s \o t
           v == Append(u, last + 1)
<1>1. u \in Seq(X) /\ Len(u) = Len(s) + Len(t)
  OBVIOUS
<1>2. s \o Append(t, last + 1) = v
  OBVIOUS
<1>3. /\ Len(u) \in Nat /\ Len(v) = Len(u) + 1
      /\ \A i \in 1 .. Len(u) : v[i] = u[i]
      /\ v[Len(u) + 1] = last + 1
  BY <1>1
<1>4. Len(u) = last - first /\ \A i \in 1 .. Len(u) : u[i] = first + i
  BY DEF Whole
<1> HIDE DEF u, v
<1>5. Len(v) = (last + 1) - first
  BY <1>3, <1>4
<1>6. \A i \in 1 .. Len(v) : i \in 1 .. Len(u) \/ i = Len(u) + 1
  BY <1>3
<1>7. first + (Len(u) + 1) = last + 1
  BY <1>4
<1>8. \A i \in 1 .. Len(v) : v[i] = first + i
  BY <1>3, <1>4, <1>6, <1>7
<1>. QED
  BY <1>2, <1>5, <1>8 DEF Whole

\* The parts of a queue.
LEMMA QueueParts ==
    ASSUME NEW X, NEW t \in Seq(X), t # <<>>
    PROVE  Tail(t) \in Seq(X) /\ Head(t) \in X
OBVIOUS

\* What moves from the head of a queue to the end of what was sent.
LEMMA MovesHead ==
    ASSUME NEW X, NEW s \in Seq(X), NEW t \in Seq(X), t # <<>>
    PROVE  Append(s, Head(t)) \o Tail(t) = s \o t
OBVIOUS

-----------------------------------------------------------------------------
(* The steps. *)

LEMMA InitInv ==
    ASSUME MaxAlerts \in Nat, Init
    PROVE  Inv
<1>1. TypeOK
  BY DEF Init, TypeOK, States
<1>2. Connected /\ NoGap
  BY DEF Init, Connected, NoGap
<1>. QED
  BY <1>1, <1>2 DEF Inv

LEMMA ConnectStep ==
    ASSUME MaxAlerts \in Nat, Inv, NEW s \in Streams, Connect(s)
    PROVE  Inv'
<1>1. TypeOK'
  BY DEF Inv, TypeOK, Connect, States
<1>2. Connected'
  BY DEF Inv, TypeOK, Connected, Connect
<1>3. \A q \in Streams \ {s} : /\ state'[q] = state[q] /\ since'[q] = since[q]
                               /\ q \in subscribers' <=> q \in subscribers
  BY DEF Inv, TypeOK, Connect
<1>4. /\ received[s] \o queue[s] = <<>> /\ s \in subscribers'
      /\ since'[s] = published[worker[s]] /\ published[worker[s]] \in Nat
  BY DEF Inv, TypeOK, Connected, Connect
<1>5. UNCHANGED <<published, worker, until, queue, received>>
  BY DEF Connect
<1>6. ASSUME NEW q \in Streams, state'[q] # "new"
      PROVE  Whole(received[q] \o queue[q], since'[q], End(q)')
  <2>1. CASE q = s
    <3>1. since'[s] = End(s)' /\ End(s)' \in Nat
      BY <1>4, <1>5 DEF End
    <3>2. Len(<<>>) = 0 /\ 1 .. 0 = {}
      OBVIOUS
    <3>3. Whole(<<>>, End(s)', End(s)')
      BY <3>1, <3>2 DEF Whole
    <3>. QED
      BY <1>4, <2>1, <3>1, <3>3
  <2>2. CASE q # s
    BY <1>3, <1>5, <1>6, <2>2 DEF Inv, NoGap, Whole, End
  <2>. QED
    BY <2>1, <2>2
<1>7. NoGap'
  BY <1>5, <1>6 DEF NoGap, Whole
<1>. QED
  BY <1>1, <1>2, <1>7 DEF Inv

LEMMA PublishStep ==
    ASSUME MaxAlerts \in Nat, Inv, NEW w \in Workers, Publish(w)
    PROVE  Inv'
<1> DEFINE n == published[w] + 1
<1>1. /\ n \in 1 .. MaxAlerts /\ published[w] \in Nat
      /\ published' = [published EXCEPT ![w] = n]
      /\ queue' = [s \in Streams |-> IF s \in Subscribed(w) /\ ~Full(s)
                                     THEN Append(queue[s], n) ELSE queue[s]]
      /\ subscribers' = subscribers \ Drops(w)
      /\ until' = [s \in Streams |-> IF s \in Drops(w) THEN n - 1 ELSE until[s]]
      /\ UNCHANGED <<state, worker, since, received>>
  BY DEF Publish, Inv, TypeOK
<1>2. TypeOK'
  <2>1. \A s \in Streams : queue[s] \in Seq(1 .. MaxAlerts)
                           /\ Append(queue[s], n) \in Seq(1 .. MaxAlerts)
    BY <1>1 DEF Inv, TypeOK
  <2>2. queue' \in [Streams -> Seq(1 .. MaxAlerts)]
    BY <1>1, <2>1
  <2>3. n - 1 \in 0 .. MaxAlerts /\ n \in 0 .. MaxAlerts
    BY <1>1
  <2>. QED
    BY <1>1, <2>2, <2>3 DEF Inv, TypeOK
<1>3. Connected'
  BY <1>1 DEF Inv, TypeOK, Connected, Subscribed
<1>4. ASSUME NEW s \in Streams, state[s] # "new"
      PROVE  Whole(received[s] \o queue'[s], since[s], End(s)')
  <2>1. Whole(received[s] \o queue[s], since[s], End(s))
    BY <1>4 DEF Inv, NoGap, Whole
  <2>2. CASE s \in Subscribed(w) /\ ~Full(s)
    <3>1. End(s) = published[w] /\ End(s)' = published[w] + 1
      BY <1>1, <2>2 DEF End, Subscribed, Drops, Inv, TypeOK
    <3>2. queue'[s] = Append(queue[s], published[w] + 1)
      BY <1>1, <2>2
    <3>3. /\ received[s] \in Seq(1 .. MaxAlerts) /\ queue[s] \in Seq(1 .. MaxAlerts)
          /\ since[s] \in Nat
      BY DEF Inv, TypeOK
    <3>. QED
      BY <1>1, <2>1, <3>1, <3>2, <3>3, WholeAppend
  <2>3. CASE ~(s \in Subscribed(w) /\ ~Full(s))
    <3>1. queue'[s] = queue[s]
      BY <1>1, <2>3
    <3>2. End(s)' = End(s)
      BY <1>1, <2>3 DEF End, Subscribed, Drops, Inv, TypeOK
    <3>. QED
      BY <2>1, <3>1, <3>2
  <2>. QED
    BY <2>2, <2>3
<1>5. NoGap'
  BY <1>1, <1>4 DEF NoGap, Whole
<1>. QED
  BY <1>2, <1>3, <1>5 DEF Inv

LEMMA DeliverStep ==
    ASSUME MaxAlerts \in Nat, Inv, NEW s \in Streams, Deliver(s)
    PROVE  Inv'
<1>1. /\ queue[s] \in Seq(1 .. MaxAlerts) /\ received[s] \in Seq(1 .. MaxAlerts)
      /\ queue[s] # <<>>
  BY DEF Deliver, Inv, TypeOK
<1>2. Tail(queue[s]) \in Seq(1 .. MaxAlerts) /\ Head(queue[s]) \in 1 .. MaxAlerts
  BY <1>1, QueueParts
<1>3. Append(received[s], Head(queue[s])) \in Seq(1 .. MaxAlerts)
  BY <1>1, <1>2
<1>4. TypeOK'
  BY <1>2, <1>3 DEF Deliver, Inv, TypeOK
<1>5. Connected'
  BY DEF Deliver, Inv, TypeOK, Connected
<1>6. received'[s] \o queue'[s] = received[s] \o queue[s]
  BY <1>1, MovesHead DEF Deliver, Inv, TypeOK
<1>7. \A q \in Streams : received'[q] \o queue'[q] = received[q] \o queue[q]
  BY <1>6 DEF Deliver, Inv, TypeOK
<1>8. NoGap'
  BY <1>7 DEF Deliver, Inv, NoGap, End
<1>. QED
  BY <1>4, <1>5, <1>8 DEF Inv

LEMMA LeaveStep ==
    ASSUME Inv, NEW s \in Streams, Leave(s)
    PROVE  Inv'
<1>1. TypeOK'
  BY DEF Leave, Inv, TypeOK, States
<1>2. Connected'
  BY DEF Leave, Inv, TypeOK, Connected
<1>3. \A q \in Streams : state'[q] # "new" => state[q] # "new"
  BY DEF Leave, Inv, TypeOK
<1>4. NoGap'
  BY <1>3 DEF Leave, Inv, NoGap, End
<1>. QED
  BY <1>1, <1>2, <1>4 DEF Inv

LEMMA UnsubscribeStep ==
    ASSUME Inv, NEW s \in Streams, Unsubscribe(s)
    PROVE  Inv'
<1>1. TypeOK'
  BY DEF Unsubscribe, Inv, TypeOK, States
<1>2. Connected'
  BY DEF Unsubscribe, Inv, TypeOK, Connected
<1>3. \A q \in Streams : state'[q] # "new" => state[q] # "new"
  BY DEF Unsubscribe, Inv, TypeOK
<1>4. \A q \in Streams : End(q)' = End(q)
  BY DEF Unsubscribe, Inv, TypeOK, End
<1>5. NoGap'
  BY <1>3, <1>4 DEF Unsubscribe, Inv, NoGap
<1>. QED
  BY <1>1, <1>2, <1>5 DEF Inv

LEMMA InvStep ==
    ASSUME MaxAlerts \in Nat, Inv, [Next]_vars
    PROVE  Inv'
<1>1. CASE UNCHANGED vars
  BY <1>1 DEF vars, Inv, TypeOK, Connected, NoGap, End
<1>. QED
  BY <1>1, StepCases, PublishStep, ConnectStep, DeliverStep, LeaveStep, UnsubscribeStep

-----------------------------------------------------------------------------

\* The variables keep their types.
THEOREM TypeCorrect ==
    ASSUME MaxAlerts \in Nat
    PROVE  Spec => []TypeOK
<1>1. Inv => TypeOK
  BY DEF Inv
<1>. QED
  BY <1>1, InitInv, InvStep, PTL DEF Spec

\* A client is sent every alert from its subscription on, in order and once,
\* up to the moment its full queue was dropped, whatever the queue's length.
THEOREM NoGapAlways ==
    ASSUME MaxAlerts \in Nat
    PROVE  Spec => []NoGap
<1>1. Inv => NoGap
  BY DEF Inv
<1>. QED
  BY <1>1, InitInv, InvStep, PTL DEF Spec

-----------------------------------------------------------------------------
(* The parts of MCServices. *)

\* A step of the composition is one of the component that the behaviour is of.
LEMMA PartStep ==
    ASSUME [MCNext]_mcvars
    PROVE  /\ part' = part
           /\ part = "limiter" => R!Next \/ UNCHANGED R!vars
           /\ part = "annealer" => N!Next \/ UNCHANGED N!vars
           /\ part = "planner" => P!Next \/ UNCHANGED P!vars
           /\ part = "tuning" => T!Next \/ UNCHANGED T!vars
           /\ part = "clusters" => C!Next \/ UNCHANGED C!vars
           /\ part = "exposure" => E!Next \/ UNCHANGED E!vars
<1>1. CASE UNCHANGED mcvars
  BY <1>1 DEF mcvars, shared, R!vars, N!vars, P!vars, T!vars, C!vars, E!vars
<1>2. CASE MCNext
  BY <1>2, Zenon DEF MCNext, shared
<1>. QED
  BY <1>1, <1>2

-----------------------------------------------------------------------------
(* Tuning: an apply that nobody overtook leaves the weights of its run. *)

LEMMA TuningInit ==
    ASSUME T!Init
    PROVE  T!Inv
<1>. USE DEF T!Init
<1>1. T!RunsStored
  BY DEF T!RunsStored
<1>2. T!AppliesCurrent
  BY DEF T!AppliesCurrent
<1>3. T!LastDone /\ T!AppliedWhole
  BY DEF T!LastDone, T!AppliedWhole
<1>. QED
  BY <1>1, <1>2, <1>3 DEF T!Inv

LEMMA TuneReadsStep ==
    ASSUME T!Inv, NEW r \in Tuners, NEW sample, NEW exact, T!TuneReads(r, sample, exact)
    PROVE  T!Inv'
<1>. USE DEF T!Inv, T!TuneReads, T!Goto, T!Requests
<1>1. T!RunsStored'
  BY DEF T!RunsStored
<1>2. T!AppliesCurrent'
  BY DEF T!AppliesCurrent, T!RunsStored
<1>3. T!LastDone' /\ T!AppliedWhole'
  BY DEF T!LastDone, T!AppliedWhole, T!RunsStored
<1>. QED
  BY <1>1, <1>2, <1>3

LEMMA TuneCommitsStep ==
    ASSUME T!Inv, NEW r \in Tuners, T!TuneCommits(r)
    PROVE  T!Inv'
<1>. USE DEF T!Requests
<1>1. PICK tuned : v5' = [v5 EXCEPT ![r] = T!Result(v4[r], tuned)]
  BY DEF T!TuneCommits
<1>2. /\ v3[r] = "tune"
      /\ v4' = [v4 EXCEPT ![r] = Nothing]
      /\ v3' = [v3 EXCEPT ![r] = "done"]
      /\ v1' = v1 /\ v6' = v6 /\ v7' = v7
  BY DEF T!TuneCommits, T!Goto
<1>3. T!Result(v4[r], tuned).weights = [i \in Rules |-> T!Result(v4[r], tuned).weights[i]]
  BY DEF T!Result, T!Stored
<1>4. T!RunsStored'
  BY <1>1, <1>2, <1>3 DEF T!RunsStored, T!Inv
<1>5. T!AppliesCurrent'
  BY <1>1, <1>2 DEF T!AppliesCurrent, T!RunsStored, T!Inv
<1>6. T!LastDone' /\ T!AppliedWhole'
  BY <1>1, <1>2 DEF T!LastDone, T!AppliedWhole, T!RunsStored, T!Inv
<1>. QED
  BY <1>4, <1>5, <1>6 DEF T!Inv

LEMMA ApplyReadsStep ==
    ASSUME T!Inv, NEW r \in Appliers, NEW q \in Tuners, T!ApplyReads(r, q)
    PROVE  T!Inv'
<1>. USE DEF T!Inv, T!ApplyReads, T!Goto, T!Requests
<1>1. T!RunsStored'
  BY DEF T!RunsStored
<1>2. T!AppliesCurrent'
  BY DEF T!AppliesCurrent, T!RunsStored
<1>3. T!LastDone' /\ T!AppliedWhole'
  BY DEF T!LastDone, T!AppliedWhole, T!RunsStored
<1>. QED
  BY <1>1, <1>2, <1>3

\* Nobody overtook it: the weights that it wrote are those of the run.
LEMMA ApplyCommitsStep ==
    ASSUME T!Inv, NEW r \in Appliers, T!ApplyCommits(r)
    PROVE  T!Inv'
<1>. USE DEF T!Requests
<1>1. /\ v3[r] = "apply"
      /\ v1' = [i \in Rules |-> T!Writes(r, i)]
      /\ v6' = r
      /\ v7' = v7 \cup {q \in T!Requests : q # r /\ T!UnderWay(q)}
      /\ v3' = [v3 EXCEPT ![r] = "done"]
      /\ v4' = v4 /\ v5' = v5
  BY DEF T!ApplyCommits, T!Goto, T!Overtakes
<1>2. v4[r].run \in Tuners /\ v5[v4[r].run] # Nothing
  BY <1>1 DEF T!Inv, T!AppliesCurrent
<1>3. T!RunsStored'
  BY <1>1 DEF T!RunsStored, T!Inv
<1>4. T!AppliesCurrent'
  BY <1>1 DEF T!AppliesCurrent, T!RunsStored, T!Inv, T!UnderWay
<1>5. T!LastDone'
  BY <1>1, <1>2 DEF T!LastDone, T!RunsStored, T!Inv
<1>6. ASSUME r \notin v7'
      PROVE  v1' = v5[v4[r].run].weights
  <2>1. v4[r].weights = v1
    BY <1>1, <1>6 DEF T!Inv, T!AppliesCurrent
  <2>2. \A i \in Rules : T!Writes(r, i) = v5[v4[r].run].weights[i]
    BY <2>1 DEF T!Writes
  <2>. QED
    BY <1>1, <1>2, <2>2 DEF T!Inv, T!RunsStored
<1>7. T!AppliedWhole'
  BY <1>1, <1>6 DEF T!AppliedWhole
<1>. QED
  BY <1>3, <1>4, <1>5, <1>7 DEF T!Inv

LEMMA PatchRuleStep ==
    ASSUME T!Inv, NEW i \in Rules, NEW w, T!PatchRule(i, w)
    PROVE  T!Inv'
<1>. USE DEF T!Inv, T!PatchRule, T!Overtakes, T!Requests
<1>1. T!RunsStored'
  BY DEF T!RunsStored
<1>2. T!AppliesCurrent'
  BY NothingAssumption DEF T!AppliesCurrent, T!UnderWay
<1>3. T!LastDone' /\ T!AppliedWhole'
  BY DEF T!LastDone, T!AppliedWhole
<1>. QED
  BY <1>1, <1>2, <1>3

LEMMA RestartStep ==
    ASSUME T!Inv, T!Restart
    PROVE  T!Inv'
<1>. USE DEF T!Inv, T!Restart, T!UnderWay, T!Requests
<1>1. T!RunsStored'
  BY DEF T!RunsStored
<1>2. T!AppliesCurrent'
  BY DEF T!AppliesCurrent
<1>3. T!LastDone' /\ T!AppliedWhole'
  BY DEF T!LastDone, T!AppliedWhole
<1>. QED
  BY <1>1, <1>2, <1>3

LEMMA TuningStep ==
    ASSUME T!Inv, T!Next \/ UNCHANGED T!vars
    PROVE  T!Inv'
<1>1. CASE UNCHANGED T!vars
  BY <1>1 DEF T!vars, T!Inv, T!RunsStored, T!AppliesCurrent, T!LastDone, T!AppliedWhole,
              T!Requests
<1>2. CASE \E r \in Tuners :
              \/ \E sample \in DOMAIN Samples, exact \in BOOLEAN : T!TuneReads(r, sample, exact)
              \/ T!TuneCommits(r)
  BY <1>2, TuneReadsStep, TuneCommitsStep
<1>3. CASE \E r \in Appliers : (\E q \in Tuners : T!ApplyReads(r, q)) \/ T!ApplyCommits(r)
  BY <1>3, ApplyReadsStep, ApplyCommitsStep
<1>4. CASE \E i \in Rules, w \in NewWeights : T!PatchRule(i, w)
  BY <1>4, PatchRuleStep
<1>5. CASE T!Restart
  BY <1>5, RestartStep
<1>. QED
  BY <1>1, <1>2, <1>3, <1>4, <1>5 DEF T!Next

(***************************************************************************)
(* However runs, applies, patches and restarts interleave, an apply that   *)
(* no other commit overtook leaves all the weights of the run it applied:  *)
(* apply_tuning (services/quantum/service.py).                             *)
(***************************************************************************)
THEOREM AppliedWholeAlways == MCSpec => []AppliedWhole
<1> DEFINE IInv == part = "tuning" => T!Inv
<1>1. MCInit => IInv
  BY TuningInit DEF MCInit
<1>2. IInv /\ [MCNext]_mcvars => IInv'
  BY PartStep, TuningStep
<1>3. IInv => AppliedWhole
  BY DEF AppliedWhole, T!Inv
<1>. QED
  BY <1>1, <1>2, <1>3, PTL DEF MCSpec

-----------------------------------------------------------------------------
(* RateLimiter: the limit of a window. *)

HitRecord == [at : Nat, ok : BOOLEAN]

\* The hits of h admitted from a on and before b.
Among(h, a, b) == {i \in 1 .. Len(h) : h[i].ok /\ h[i].at >= a /\ h[i].at < b}

Admissions(h, a, b) == Cardinality(Among(h, a, b))

\* The type invariant of the limiter, element by element.
LEMMA HitTimes ==
    ASSUME NEW h \in Seq(HitRecord)
    PROVE  \A i \in 1 .. Len(h) : h[i].at \in Nat
<1>. TAKE i \in 1 .. Len(h)
<1>1. h[i] \in HitRecord
  BY ElementOfSeq
<1>. QED
  BY <1>1 DEF HitRecord

LEMMA AmongFinite ==
    ASSUME NEW h \in Seq(HitRecord), NEW a \in Nat, NEW b \in Nat
    PROVE  IsFiniteSet(Among(h, a, b)) /\ Admissions(h, a, b) \in Nat
<1>1. Among(h, a, b) \subseteq 1 .. Len(h)
  BY DEF Among
<1>2. IsFiniteSet(1 .. Len(h))
  BY FS_Interval
<1>. QED
  BY <1>1, <1>2, FS_Subset, FS_CardinalityType DEF Admissions

\* More of the hits.
LEMMA AmongSubset ==
    ASSUME NEW h \in Seq(HitRecord), NEW a \in Nat, NEW b \in Nat, NEW c \in Nat, NEW d \in Nat,
           \A i \in 1 .. Len(h) : h[i].at >= a /\ h[i].at < b => h[i].at >= c /\ h[i].at < d
    PROVE  Admissions(h, a, b) <= Admissions(h, c, d)
<1>1. Among(h, a, b) \subseteq Among(h, c, d)
  BY DEF Among
<1>. QED
  BY <1>1, AmongFinite, FS_Subset DEF Admissions

\* A stretch of time in two parts.
LEMMA AmongSplit ==
    ASSUME NEW h \in Seq(HitRecord), NEW a \in Nat, NEW b \in Nat, NEW m \in Nat
    PROVE  Admissions(h, a, b) <= Admissions(h, a, m) + Admissions(h, m, b)
<1> DEFINE X == Among(h, a, m)
           Y == Among(h, m, b)
<1>1. Among(h, a, b) \subseteq X \cup Y
  BY HitTimes DEF Among
<1>2. IsFiniteSet(X) /\ IsFiniteSet(Y)
  BY AmongFinite
<1>3. /\ IsFiniteSet(X \cup Y) /\ IsFiniteSet(X \cap Y)
      /\ Cardinality(X \cup Y) = Cardinality(X) + Cardinality(Y) - Cardinality(X \cap Y)
  BY <1>2, FS_Union, FS_Intersection, Zenon
<1>4. Cardinality(Among(h, a, b)) <= Cardinality(X \cup Y)
  BY <1>1, <1>3, FS_Subset, Zenon
<1>5. /\ Cardinality(X) \in Nat /\ Cardinality(Y) \in Nat
      /\ Cardinality(X \cap Y) \in Nat /\ Cardinality(Among(h, a, b)) \in Nat
  BY <1>2, <1>3, AmongFinite, FS_CardinalityType
<1>. QED
  BY <1>3, <1>4, <1>5 DEF Admissions

\* One more hit.
LEMMA AmongAppend ==
    ASSUME NEW h \in Seq(HitRecord), NEW e \in HitRecord, NEW a \in Nat, NEW b \in Nat
    PROVE  Admissions(Append(h, e), a, b) =
              Admissions(h, a, b) + IF e.ok /\ e.at >= a /\ e.at < b THEN 1 ELSE 0
<1> DEFINE n == Len(h) + 1
           g == Append(h, e)
<1>1. /\ Len(h) \in Nat /\ Len(g) = n /\ g[n] = e
      /\ \A i \in 1 .. Len(h) : g[i] = h[i]
  OBVIOUS
<1>2. \A i : i \in 1 .. n <=> i \in 1 .. Len(h) \/ i = n
  BY <1>1
<1>3. n \notin Among(h, a, b)
  BY <1>1 DEF Among
<1> HIDE DEF n, g
<1>4. CASE e.ok /\ e.at >= a /\ e.at < b
  <2>1. Among(g, a, b) = Among(h, a, b) \cup {n}
    BY <1>1, <1>2, <1>4 DEF Among
  <2>. QED
    BY <1>3, <1>4, <2>1, AmongFinite, FS_AddElement DEF Admissions, g
<1>5. CASE ~(e.ok /\ e.at >= a /\ e.at < b)
  <2>1. Among(g, a, b) = Among(h, a, b)
    BY <1>1, <1>2, <1>5 DEF Among
  <2>. QED
    BY <1>5, <2>1, AmongFinite DEF Admissions, g
<1>. QED
  BY <1>4, <1>5

\* The invariant, of the hits so far.
LimiterInv ==
    /\ v1 \in Nat /\ v2 \in Nat /\ v3 \in Nat /\ v4 \in Seq(HitRecord)
    /\ v2 <= v1
    /\ \A i \in 1 .. Len(v4) : v4[i].at <= v1 /\ v4[i].at < v2 + Window
    /\ Admissions(v4, v2, v1 + 1) = IF v3 <= Limit THEN v3 ELSE Limit
    /\ \A t \in Nat : t + Window > v2 => Admissions(v4, t, v2) <= Limit
    /\ \A i \in 1 .. Len(v4) : ~v4[i].ok =>
          \E s \in 0 .. v4[i].at :
              s + Window > v4[i].at /\ Admissions(v4, s, v4[i].at + 1) >= Limit
    /\ \A t \in Nat : Admissions(v4, t, t + Window) <= 2 * Limit

LEMMA SameCardinality == \A X : R!Cardinality(X) = Cardinality(X)
BY Zenon DEF R!Cardinality, Cardinality

LEMMA LimiterParts ==
    (R!Inv <=> LimiterInv) /\ (R!Inv' <=> LimiterInv')
<1>1. /\ R!TypeOK <=> v1 \in Nat /\ v2 \in Nat /\ v3 \in Nat /\ v4 \in Seq(HitRecord)
      /\ R!HitsPast <=> /\ v2 <= v1
                       /\ \A i \in 1 .. Len(v4) : v4[i].at <= v1 /\ v4[i].at < v2 + Window
      /\ R!TypeOK' <=> (v1 \in Nat /\ v2 \in Nat /\ v3 \in Nat /\ v4 \in Seq(HitRecord))'
      /\ R!HitsPast' <=> (/\ v2 <= v1
                         /\ \A i \in 1 .. Len(v4) : v4[i].at <= v1 /\ v4[i].at < v2 + Window)'
  BY Zenon DEF R!TypeOK, R!HitsPast, HitRecord
<1>2. /\ R!CountsWindow <=>
            Admissions(v4, v2, v1 + 1) = IF v3 <= Limit THEN v3 ELSE Limit
      /\ R!CountsWindow' <=>
            (Admissions(v4, v2, v1 + 1) = IF v3 <= Limit THEN v3 ELSE Limit)'
  BY SameCardinality, Zenon DEF R!CountsWindow, R!Admitted, Admissions, Among
<1>3. /\ R!OneBefore <=>
            \A t \in Nat : t + Window > v2 => Admissions(v4, t, v2) <= Limit
      /\ R!OneBefore' <=>
            (\A t \in Nat : t + Window > v2 => Admissions(v4, t, v2) <= Limit)'
  BY SameCardinality, Zenon DEF R!OneBefore, R!Admitted, Admissions, Among
<1>4. /\ R!RefusedFull <=>
            \A i \in 1 .. Len(v4) : ~v4[i].ok =>
              \E s \in 0 .. v4[i].at :
                  s + Window > v4[i].at /\ Admissions(v4, s, v4[i].at + 1) >= Limit
      /\ R!RefusedFull' <=>
            (\A i \in 1 .. Len(v4) : ~v4[i].ok =>
              \E s \in 0 .. v4[i].at :
                  s + Window > v4[i].at /\ Admissions(v4, s, v4[i].at + 1) >= Limit)'
  BY SameCardinality, Zenon DEF R!RefusedFull, R!Admitted, Admissions, Among
<1>5. /\ R!TwiceAtMost <=>
            \A t \in Nat : Admissions(v4, t, t + Window) <= 2 * Limit
      /\ R!TwiceAtMost' <=>
            (\A t \in Nat : Admissions(v4, t, t + Window) <= 2 * Limit)'
  BY SameCardinality, Zenon DEF R!TwiceAtMost, R!Admitted, Admissions, Among
<1>. QED
  BY <1>1, <1>2, <1>3, <1>4, <1>5, Zenon DEF R!Inv, LimiterInv

LEMMA LimiterInit ==
    ASSUME R!Init
    PROVE  R!Inv
<1>. USE LimiterAssumption
<1>1. v4 = <<>> /\ v2 = 0 /\ v3 = 0 /\ v1 \in Nat
  BY DEF R!Init
<1>2. v4 \in Seq(HitRecord) /\ Len(v4) = 0
  BY <1>1
<1>3. \A a, b : Admissions(v4, a, b) = 0
  <2>1. \A a, b : Among(v4, a, b) = {}
    BY <1>1 DEF Among
  <2>. QED
    BY <2>1, FS_EmptySet DEF Admissions
<1>. QED
  BY <1>1, <1>2, <1>3, LimiterParts DEF LimiterInv

\* Time passes: the hits are as old as they were.
LEMMA TickStep ==
    ASSUME R!Inv, R!Tick
    PROVE  R!Inv'
<1>. USE LimiterAssumption
<1>1. v1' = v1 + 1 /\ v2' = v2 /\ v3' = v3 /\ v4' = v4
  BY DEF R!Tick
<1>2. /\ v1 \in Nat /\ v2 \in Nat /\ v3 \in Nat /\ v4 \in Seq(HitRecord)
      /\ v2 <= v1 /\ \A i \in 1 .. Len(v4) : v4[i].at <= v1 /\ v4[i].at < v2 + Window
      /\ \A i \in 1 .. Len(v4) : v4[i].at \in Nat
  BY LimiterParts, HitTimes DEF LimiterInv
<1>4. Admissions(v4, v2, (v1 + 1) + 1) = Admissions(v4, v2, v1 + 1)
  <2>1. Among(v4, v2, (v1 + 1) + 1) = Among(v4, v2, v1 + 1)
    BY <1>2 DEF Among
  <2>. QED
    BY <2>1 DEF Admissions
<1>5. /\ Admissions(v4, v2, v1 + 1) = IF v3 <= Limit THEN v3 ELSE Limit
      /\ \A t \in Nat : t + Window > v2 => Admissions(v4, t, v2) <= Limit
      /\ \A i \in 1 .. Len(v4) : ~v4[i].ok =>
          \E s \in 0 .. v4[i].at :
              s + Window > v4[i].at /\ Admissions(v4, s, v4[i].at + 1) >= Limit
      /\ \A t \in Nat : Admissions(v4, t, t + Window) <= 2 * Limit
  BY LimiterParts, Zenon DEF LimiterInv
<1>6. /\ v1 + 1 \in Nat /\ v2 <= v1 + 1
      /\ \A i \in 1 .. Len(v4) : v4[i].at <= v1 + 1 /\ v4[i].at < v2 + Window
  BY <1>2
<1>. QED
  BY <1>1, <1>2, <1>4, <1>5, <1>6, LimiterParts, Zenon DEF LimiterInv

\* What a hit does, whether a window opens or not.
LEMMA HitStep ==
    ASSUME R!Inv, R!Hit
    PROVE  R!Inv'
<1>. USE LimiterAssumption
<1> DEFINE opens == v1 >= v2 + Window
           n == IF opens THEN 1 ELSE v3 + 1
           e == [at |-> v1, ok |-> n <= Limit]
           h == Append(v4, e)
<1>1. /\ v1 \in Nat /\ v2 \in Nat /\ v3 \in Nat /\ v4 \in Seq(HitRecord)
      /\ v2 <= v1 /\ \A i \in 1 .. Len(v4) : v4[i].at <= v1 /\ v4[i].at < v2 + Window
      /\ \A i \in 1 .. Len(v4) : v4[i].at \in Nat
  BY LimiterParts, HitTimes DEF LimiterInv
<1>2. /\ v1' = v1 /\ v2' = (IF opens THEN v1 ELSE v2) /\ v3' = n /\ v4' = h
  BY <1>1 DEF R!Hit, R!Opens, R!Found
<1>3. n \in Nat /\ e \in HitRecord /\ e.at = v1 /\ e.ok = (n <= Limit)
  BY <1>1 DEF HitRecord
<1>4. /\ h \in Seq(HitRecord) /\ Len(h) = Len(v4) + 1 /\ Len(v4) \in Nat
      /\ \A i \in 1 .. Len(v4) : h[i] = v4[i]
      /\ h[Len(v4) + 1] = e
  BY <1>1, <1>3
<1>5. \A a, b \in Nat : Admissions(h, a, b) =
          Admissions(v4, a, b) + IF n <= Limit /\ v1 >= a /\ v1 < b THEN 1 ELSE 0
  <2>. HIDE DEF e
  <2>1. \A a, b \in Nat : Admissions(h, a, b) =
          Admissions(v4, a, b) + IF e.ok /\ e.at >= a /\ e.at < b THEN 1 ELSE 0
    BY <1>1, <1>3, AmongAppend, Zenon
  <2>. QED
    BY <1>3, <2>1, Zenon
<1> HIDE DEF h, e
<1>6. \A a, b \in Nat : Admissions(v4, a, b) \in Nat
  BY <1>1, AmongFinite
<1>7. Admissions(v4, v2, v1 + 1) = IF v3 <= Limit THEN v3 ELSE Limit
  BY LimiterParts DEF LimiterInv
<1>8. \A t \in Nat : t + Window > v2 => Admissions(v4, t, v2) <= Limit
  BY LimiterParts DEF LimiterInv
<1>9. \A i \in 1 .. Len(v4) : ~v4[i].ok =>
          \E s \in 0 .. v4[i].at :
              s + Window > v4[i].at /\ Admissions(v4, s, v4[i].at + 1) >= Limit
  BY LimiterParts DEF LimiterInv
<1>10. \A t \in Nat : Admissions(v4, t, t + Window) <= 2 * Limit
  BY LimiterParts DEF LimiterInv
<1>11. \A i \in 1 .. Len(h) : h[i].at <= v1 /\ h[i].at < v2' + Window
  <2>1. \A i \in 1 .. Len(h) : i \in 1 .. Len(v4) \/ i = Len(v4) + 1
    BY <1>4
  <2>. QED
    BY <1>1, <1>2, <1>3, <1>4, <2>1
\* What was admitted before counts as from the start of the window.
<1>12. \A a, b \in Nat : v2 <= a => Admissions(v4, a, b) <= Admissions(v4, v2, v1 + 1)
  <2>. TAKE a, b \in Nat
  <2>. HAVE v2 <= a
  <2>1. \A i \in 1 .. Len(v4) : v4[i].at >= a /\ v4[i].at < b =>
            v4[i].at >= v2 /\ v4[i].at < v1 + 1
    BY <1>1
  <2>2. v1 + 1 \in Nat
    BY <1>1
  <2>. QED
    BY <1>1, <2>1, <2>2, AmongSubset, Zenon
<1>13. Admissions(v4, v2, v1 + 1) \in Nat
  BY <1>1, <1>7
<1>14. Admissions(v4, v2, v1 + 1) <= Limit
  BY <1>1, <1>7
<1>15. Admissions(h, v2', v1 + 1) = IF n <= Limit THEN n ELSE Limit
  <2>1. CASE opens
    <3>1. Among(v4, v1, v1 + 1) = {}
      BY <1>1, <2>1 DEF Among
    <3>2. Admissions(v4, v1, v1 + 1) = 0
      BY <3>1, FS_EmptySet DEF Admissions
    <3>. QED
      BY <1>1, <1>2, <1>5, <2>1, <3>2
  <2>2. CASE ~opens
    BY <1>1, <1>2, <1>5, <1>7, <2>2
  <2>. QED
    BY <2>1, <2>2
<1>16. \A t \in Nat : t + Window > v2' => Admissions(h, t, v2') <= Limit
  <2>. TAKE t \in Nat
  <2>. HAVE t + Window > v2'
  <2>1. CASE opens
    <3>1. v2 <= t
      BY <1>1, <1>2, <2>1
    <3>2. Admissions(h, t, v1) = Admissions(v4, t, v1)
      BY <1>1, <1>5, <1>6
    <3>3. Admissions(v4, t, v1) <= Admissions(v4, v2, v1 + 1)
      BY <1>1, <1>12, <3>1
    <3>4. Admissions(v4, t, v1) \in Nat
      BY <1>1, <1>6
    <3>. QED
      BY <1>2, <1>14, <1>13, <2>1, <3>2, <3>3, <3>4
  <2>2. CASE ~opens
    BY <1>1, <1>2, <1>5, <1>6, <1>8, <2>2
  <2>. QED
    BY <2>1, <2>2
<1>17. \A i \in 1 .. Len(h) : ~h[i].ok =>
            \E s \in 0 .. h[i].at :
                s + Window > h[i].at /\ Admissions(h, s, h[i].at + 1) >= Limit
  <2>. TAKE i \in 1 .. Len(h)
  <2>. HAVE ~h[i].ok
  <2>1. CASE i \in 1 .. Len(v4)
    <3>1. PICK s \in 0 .. v4[i].at :
              s + Window > v4[i].at /\ Admissions(v4, s, v4[i].at + 1) >= Limit
      BY <1>4, <1>9, <2>1
    <3>2. s \in Nat /\ v4[i].at + 1 \in Nat
      BY <1>1, <2>1
    <3>3. Admissions(h, s, v4[i].at + 1) = Admissions(v4, s, v4[i].at + 1)
              + IF n <= Limit /\ v1 >= s /\ v1 < v4[i].at + 1 THEN 1 ELSE 0
      BY <1>5, <3>2, Zenon
    <3>4. /\ Admissions(h, s, v4[i].at + 1) \in Nat
          /\ Admissions(v4, s, v4[i].at + 1) \in Nat
      BY <1>4, <3>2, <1>6, AmongFinite
    <3>5. Admissions(h, s, v4[i].at + 1) >= Limit
      BY <3>1, <3>3, <3>4
    <3>. QED
      BY <1>4, <2>1, <3>1, <3>5
  <2>2. CASE i = Len(v4) + 1
    <3>1. ~(n <= Limit) /\ h[i].at = v1
      BY <1>3, <1>4, <2>2
    <3>2. Admissions(h, v2', v1 + 1) >= Limit
      BY <1>15, <3>1
    <3>3. v2' \in 0 .. v1 /\ v2' + Window > v1
      BY <1>1, <1>2
    <3>. QED
      BY <3>1, <3>2, <3>3
  <2>. QED
    BY <1>4, <2>1, <2>2
<1>18. \A t \in Nat : Admissions(h, t, t + Window) <= 2 * Limit
  <2>. TAKE t \in Nat
  <2>. DEFINE all == Admissions(v4, t, t + Window)
              early == Admissions(v4, t, v2)
              late == Admissions(v4, v2, t + Window)
              open == Admissions(v4, v2, v1 + 1)
  <2>1. t + Window \in Nat
    OBVIOUS
  <2>2. all \in Nat /\ early \in Nat /\ late \in Nat /\ open \in Nat
    BY <1>1, <1>6, <1>13, <2>1
  <2>3. /\ open = (IF v3 <= Limit THEN v3 ELSE Limit)
        /\ open <= Limit
        /\ late <= open
        /\ v2 <= t => all <= open
        /\ t + Window > v2 => early <= Limit
        /\ all <= 2 * Limit
        /\ all <= early + late
    <3>1. v2 <= t => all <= open
      BY <1>1, <1>12, <2>1
    <3>2. late <= open
      BY <1>1, <1>12, <2>1
    <3>3. all <= early + late
      BY <1>1, <2>1, AmongSplit, Zenon
    <3>. QED
      BY <1>7, <1>14, <1>8, <1>10, <3>1, <3>2, <3>3, Zenon
  <2>4. Admissions(h, t, t + Window) =
            all + IF n <= Limit /\ v1 >= t /\ v1 < t + Window THEN 1 ELSE 0
    BY <1>5, <2>1, Zenon
  <2>. HIDE DEF all, early, late, open
  <2>5. CASE opens
    BY <1>1, <2>2, <2>3, <2>4, <2>5
  <2>6. CASE ~opens
    BY <1>1, <2>2, <2>3, <2>4, <2>6
  <2>. QED
    BY <2>5, <2>6
<1>. QED
  BY <1>1, <1>2, <1>3, <1>4, <1>11, <1>15, <1>16, <1>17, <1>18, LimiterParts DEF LimiterInv

(***************************************************************************)
(* For every limit, window and sequence of hits: a refused request had     *)
(* Limit others admitted less than a window before it, and no stretch as   *)
(* long as a window admits more than twice the limit (core/rate_limit.py). *)
(***************************************************************************)
THEOREM WindowLimitAlways == MCSpec => []WindowLimit
<1> DEFINE IInv == part = "limiter" => R!Inv
<1>1. MCInit => IInv
  BY LimiterInit DEF MCInit
<1>2. R!Inv /\ (R!Next \/ UNCHANGED R!vars) => R!Inv'
  <2>1. CASE UNCHANGED R!vars
    <3>1. v1' = v1 /\ v2' = v2 /\ v3' = v3 /\ v4' = v4
      BY <2>1 DEF R!vars
    <3>2. LimiterInv => LimiterInv'
      BY <3>1, Zenon DEF LimiterInv
    <3>. QED
      BY <3>2, LimiterParts
  <2>. QED
    BY <2>1, TickStep, HitStep DEF R!Next
<1>3. IInv /\ [MCNext]_mcvars => IInv'
  BY <1>2, PartStep
<1>4. IInv => WindowLimit
  <2>1. 0 .. MaxTime \subseteq Nat
    OBVIOUS
  <2>. QED
    BY <2>1, Zenon DEF WindowLimit, R!WindowLimit, R!Inv, R!RefusedFull, R!TwiceAtMost
<1>. QED
  BY <1>1, <1>3, <1>4, PTL DEF MCSpec

-----------------------------------------------------------------------------
(* Least elements: what stands in for an induction. *)

LEMMA LeastNumber ==
    ASSUME NEW A \in SUBSET Nat, A # {}
    PROVE  \E n \in A : \A m \in A : n <= m
<1>1. PICK x \in A : \A y \in A : ~(<<y, x>> \in OpToRel(<, Nat))
  BY NatLessThanWellFounded, WFMin, Zenon
<1>2. \A y \in A : ~(y < x)
  BY <1>1 DEF OpToRel
<1>. QED
  BY <1>2

\* A set with the least number of elements, of some that are finite.
LEMMA LeastSet ==
    ASSUME NEW X, IsFiniteSet(X), NEW bad, bad \subseteq SUBSET X, bad # {}
    PROVE  \E s \in bad : \A t \in bad : t \subseteq s => t = s
<1>1. \A s \in bad : IsFiniteSet(s) /\ Cardinality(s) \in Nat
  BY FS_Subset, FS_CardinalityType
<1> DEFINE A == {Cardinality(s) : s \in bad}
<1>2. A \in SUBSET Nat /\ A # {}
  BY <1>1
<1>3. PICK n \in A : \A m \in A : n <= m
  BY <1>2, LeastNumber
<1>4. PICK s \in bad : n = Cardinality(s)
  OBVIOUS
<1>5. ASSUME NEW t \in bad, t \subseteq s PROVE t = s
  <2>1. Cardinality(t) <= Cardinality(s) /\ (Cardinality(t) = Cardinality(s) => t = s)
    BY <1>1, <1>5, FS_Subset
  <2>2. Cardinality(s) <= Cardinality(t)
    BY <1>3, <1>4
  <2>. QED
    BY <1>1, <2>1, <2>2
<1>. QED
  BY <1>5

-----------------------------------------------------------------------------
(* Sums. *)

\* The sum of f[x] for x in X, and what defines it.
Total(f, X) == SumFunctionOnSet(f, X)

Any(s) == CHOOSE x \in s : TRUE
Less(s) == s \ {Any(s)}

Adds(g, f, X) ==
    g = [s \in SUBSET X |-> IF s = {} THEN 0 ELSE f[Any(s)] + g[Less(s)]]

LEMMA AnyElement ==
    ASSUME NEW s, s # {}
    PROVE  Any(s) \in s /\ Less(s) \subseteq s /\ Less(s) # s
<1>1. Any(s) \in s
  BY Zenon DEF Any
<1>. QED
  BY <1>1 DEF Less

LEMMA AddsAt ==
    ASSUME NEW X, NEW f, NEW g, Adds(g, f, X), NEW s \in SUBSET X
    PROVE  /\ s = {} => g[s] = 0
           /\ s # {} => g[s] = f[Any(s)] + g[Less(s)]
<1> DEFINE e(t) == IF t = {} THEN 0 ELSE f[Any(t)] + g[Less(t)]
<1>1. g = [t \in SUBSET X |-> e(t)]
  BY Zenon DEF Adds
<1> HIDE DEF e
<1>2. g[s] = e(s)
  BY <1>1
<1>. QED
  BY <1>2 DEF e

\* Two that add up the same agree where both do.
LEMMA AddsOnce ==
    ASSUME NEW X, IsFiniteSet(X), NEW f, NEW f2, NEW g, NEW h, NEW Y, NEW Z,
           Adds(g, f, Y), Adds(h, f2, Z), X \subseteq Y, X \subseteq Z,
           \A x \in X : f[x] = f2[x]
    PROVE  g[X] = h[X]
<1> DEFINE bad == {s \in SUBSET X : g[s] # h[s]}
<1>1. SUFFICES bad = {}
  OBVIOUS
<1>2. SUFFICES ASSUME bad # {} PROVE FALSE
  OBVIOUS
<1>3. PICK s \in bad : \A t \in bad : t \subseteq s => t = s
  <2>1. bad \subseteq SUBSET X
    OBVIOUS
  <2> HIDE DEF bad
  <2>. QED
    BY <1>2, <2>1, LeastSet
<1>4. s \in SUBSET X /\ s \in SUBSET Y /\ s \in SUBSET Z /\ g[s] # h[s]
  OBVIOUS
<1>5. CASE s = {}
  BY <1>4, <1>5, AddsAt
<1>6. CASE s # {}
  <2>1. Any(s) \in X /\ Less(s) \subseteq s /\ Less(s) # s
    BY <1>4, <1>6, AnyElement
  <2>2. g[Less(s)] = h[Less(s)]
    BY <1>3, <2>1
  <2>3. g[s] = f[Any(s)] + g[Less(s)] /\ h[s] = f2[Any(s)] + h[Less(s)]
    BY <1>4, <1>6, AddsAt
  <2>. QED
    BY <1>4, <2>1, <2>2, <2>3
<1>. QED
  BY <1>5, <1>6

LEMMA AddsExists ==
    ASSUME NEW X, IsFiniteSet(X), NEW f
    PROVE  \E g : Adds(g, f, X)
<1> DEFINE bad == {s \in SUBSET X : ~\E g : Adds(g, f, s)}
<1>1. SUFFICES bad = {}
  OBVIOUS
<1>2. SUFFICES ASSUME bad # {} PROVE FALSE
  OBVIOUS
<1>3. PICK s \in bad : \A t \in bad : t \subseteq s => t = s
  <2>1. bad \subseteq SUBSET X
    OBVIOUS
  <2> HIDE DEF bad
  <2>. QED
    BY <1>2, <2>1, LeastSet
<1> DEFINE adder(t) == CHOOSE g : Adds(g, f, t)
           d(t) == adder(Less(t))[Less(t)]
           g == [t \in SUBSET s |-> IF t = {} THEN 0 ELSE f[Any(t)] + d(t)]
<1>4. \A t \in SUBSET s : t # s => \E h : Adds(h, f, t)
  BY <1>3
<1>5. \A t \in SUBSET s : t # s => Adds(adder(t), f, t)
  BY <1>4, Zenon
<1> HIDE DEF adder
<1>6. ASSUME NEW t \in SUBSET s, t # {}
      PROVE  d(t) = g[Less(t)]
  <2> DEFINE r == Less(t)
             q == Less(r)
  <2>1. r \in SUBSET s /\ r # s /\ r \in SUBSET r
    BY <1>6, AnyElement
  <2>2. Adds(adder(r), f, r)
    BY <1>5, <2>1
  <2>3. g[r] = IF r = {} THEN 0 ELSE f[Any(r)] + d(r)
    BY <2>1
  <2> HIDE DEF g
  <2>4. CASE r = {}
    BY <2>1, <2>2, <2>3, <2>4, AddsAt
  <2>5. CASE r # {}
    <3>1. q \in SUBSET s /\ q # s /\ q \subseteq r /\ q \subseteq q
      BY <2>1, <2>5, AnyElement
    <3>2. Adds(adder(q), f, q)
      BY <1>5, <3>1
    <3>3. IsFiniteSet(q)
      <4>1. q \subseteq X
        BY <3>1
      <4>. QED
        BY <4>1, FS_Subset, Zenon
    <3>4. adder(r)[q] = adder(q)[q]
      <4>1. \A x \in q : f[x] = f[x]
        OBVIOUS
      <4> HIDE DEF q, r
      <4>. QED
        BY <2>2, <3>1, <3>2, <3>3, <4>1, AddsOnce
    <3>5. adder(r)[r] = f[Any(r)] + adder(r)[q]
      <4> HIDE DEF r
      <4>. QED
        BY <2>1, <2>2, <2>5, AddsAt
    <3>. QED
      BY <2>3, <2>5, <3>4, <3>5
  <2>. QED
    BY <2>4, <2>5
<1> DEFINE e(t) == IF t = {} THEN 0 ELSE f[Any(t)] + d(t)
           e2(t) == IF t = {} THEN 0 ELSE f[Any(t)] + g[Less(t)]
<1>7. g = [t \in SUBSET s |-> e(t)]
  OBVIOUS
<1>8. \A t \in SUBSET s : e(t) = e2(t)
  <2> HIDE DEF d, g
  <2>. QED
    BY <1>6
<1>9. g = [t \in SUBSET s |-> e2(t)]
  <2> HIDE DEF e, e2, g
  <2>. QED
    BY <1>7, <1>8
<1>10. Adds(g, f, s)
  <2> HIDE DEF g
  <2>. QED
    BY <1>9, Zenon DEF Adds
<1>. QED
  BY <1>3, <1>10

\* The sum is the value of any function that adds up.
LEMMA TotalAdds ==
    ASSUME NEW X, IsFiniteSet(X), NEW f, NEW Y, X \subseteq Y, NEW g, Adds(g, f, Y)
    PROVE  Total(f, X) = g[X]
<1>1. PICK h : Adds(h, f, X)
  BY AddsExists
<1>2. h = [s \in SUBSET X |-> IF s = {} THEN 0
             ELSE f[CHOOSE x \in s : TRUE] + h[s \ {CHOOSE x \in s : TRUE}]]
  BY <1>1, Zenon DEF Adds, Less, Any
<1>3. PICK k : /\ k = [s \in SUBSET X |-> IF s = {} THEN 0
                     ELSE f[CHOOSE x \in s : TRUE] + k[s \ {CHOOSE x \in s : TRUE}]]
               /\ Total(f, X) = k[X]
  BY <1>2, Zenon DEF Total, SumFunctionOnSet, FoldFunctionOnSet, MapThenFoldSet
<1>4. Adds(k, f, X)
  BY <1>3, Zenon DEF Adds, Less, Any
<1>. QED
  BY <1>3, <1>4, AddsOnce

-----------------------------------------------------------------------------
(* What sums do. *)

\* A property of sets, as the set good of those that have it.
LEMMA SetInduction ==
    ASSUME NEW X, IsFiniteSet(X), NEW good, {} \in good,
           \A s \in SUBSET X : \A x \in s : s \ {x} \in good => s \in good
    PROVE  X \in good
<1> DEFINE bad == {s \in SUBSET X : s \notin good}
<1>1. SUFFICES ASSUME bad # {} PROVE FALSE
  OBVIOUS
<1>2. PICK s \in bad : \A t \in bad : t \subseteq s => t = s
  <2>1. bad \subseteq SUBSET X
    OBVIOUS
  <2> HIDE DEF bad
  <2>. QED
    BY <1>1, <2>1, LeastSet
<1>3. PICK x \in s : TRUE
  OBVIOUS
<1>4. s \ {x} \in SUBSET X /\ s \ {x} \notin bad
  BY <1>2
<1>. QED
  BY <1>2, <1>3, <1>4

LEMMA TotalEmpty ==
    ASSUME NEW f
    PROVE  Total(f, {}) = 0
<1>1. PICK g : Adds(g, f, {})
  BY FS_EmptySet, AddsExists
<1>. QED
  BY <1>1, FS_EmptySet, AddsAt, TotalAdds

LEMMA TotalAny ==
    ASSUME NEW f, NEW X, IsFiniteSet(X), X # {}
    PROVE  Total(f, X) = f[Any(X)] + Total(f, Less(X))
<1>1. PICK g : Adds(g, f, X)
  BY AddsExists
<1>2. Less(X) \subseteq X
  BY AnyElement
<1>3. IsFiniteSet(Less(X))
  BY <1>2, FS_Subset
<1>4. Total(f, X) = g[X] /\ Total(f, Less(X)) = g[Less(X)]
  BY <1>1, <1>2, <1>3, TotalAdds
<1>. QED
  BY <1>1, <1>4, AddsAt

\* The terms decide the sum.
LEMMA TotalEqual ==
    ASSUME NEW X, IsFiniteSet(X), NEW f, NEW g, \A x \in X : f[x] = g[x]
    PROVE  Total(f, X) = Total(g, X)
<1>1. PICK a : Adds(a, f, X)
  BY AddsExists
<1>2. PICK b : Adds(b, g, X)
  BY AddsExists
<1>. QED
  BY <1>1, <1>2, TotalAdds, AddsOnce

LEMMA TotalInteger ==
    ASSUME NEW X, IsFiniteSet(X), NEW f, \A x \in X : f[x] \in Int
    PROVE  Total(f, X) \in Int
<1> DEFINE bad == {s \in SUBSET X : Total(f, s) \notin Int}
<1>1. SUFFICES ASSUME bad # {} PROVE FALSE
  OBVIOUS
<1>2. bad \subseteq SUBSET X
  OBVIOUS
<1>3. PICK s \in bad : \A t \in bad : t \subseteq s => t = s
  <2> HIDE DEF bad
  <2>. QED
    BY <1>1, <1>2, LeastSet
<1>4. s \subseteq X /\ IsFiniteSet(s) /\ s # {}
  <2>1. s \subseteq X /\ Total(f, s) \notin Int
    OBVIOUS
  <2>2. s # {}
    BY <2>1, TotalEmpty
  <2>. QED
    BY <2>1, <2>2, FS_Subset
<1>5. Any(s) \in X /\ Less(s) \subseteq X /\ Less(s) \subseteq s /\ Less(s) # s
  BY <1>4, AnyElement
<1>6. Total(f, Less(s)) \in Int /\ f[Any(s)] \in Int
  BY <1>3, <1>5
<1>7. Total(f, s) = f[Any(s)] + Total(f, Less(s))
  BY <1>4, TotalAny
<1>8. Total(f, s) \in Int
  BY <1>6, <1>7
<1>. QED
  BY <1>8

\* Any term may be the last.
LEMMA TotalRemove ==
    ASSUME NEW X, IsFiniteSet(X), NEW f, \A x \in X : f[x] \in Int, NEW x \in X
    PROVE  Total(f, X) = f[x] + Total(f, X \ {x})
<1> DEFINE bad == {s \in SUBSET X : \E y \in s : Total(f, s) # f[y] + Total(f, s \ {y})}
<1>1. SUFFICES ASSUME bad # {} PROVE FALSE
  OBVIOUS
<1>2. bad \subseteq SUBSET X
  OBVIOUS
<1>3. PICK s \in bad : \A t \in bad : t \subseteq s => t = s
  <2> HIDE DEF bad
  <2>. QED
    BY <1>1, <1>2, LeastSet
<1>4. PICK y \in s : Total(f, s) # f[y] + Total(f, s \ {y})
  BY <1>3
<1> DEFINE a == Any(s)
<1>5. a \in s /\ s \subseteq X /\ IsFiniteSet(s) /\ Less(s) = s \ {a}
  BY AnyElement, FS_Subset DEF Less
<1>6. Total(f, s) = f[a] + Total(f, s \ {a})
  BY <1>5, TotalAny
<1> HIDE DEF a
<1>7. y # a
  BY <1>4, <1>6
<1>8. Total(f, s \ {a}) = f[y] + Total(f, (s \ {a}) \ {y})
  <2>1. s \ {a} \notin bad /\ s \ {a} \in SUBSET X /\ y \in s \ {a}
    BY <1>3, <1>5, <1>7
  <2>. QED
    BY <2>1
<1>9. Total(f, s \ {y}) = f[a] + Total(f, (s \ {y}) \ {a})
  <2>1. s \ {y} \notin bad /\ s \ {y} \in SUBSET X /\ a \in s \ {y}
    BY <1>3, <1>5, <1>7
  <2>. QED
    BY <2>1
<1>10. Total(f, (s \ {y}) \ {a}) = Total(f, (s \ {a}) \ {y})
  <2>1. (s \ {y}) \ {a} = (s \ {a}) \ {y}
    OBVIOUS
  <2>. QED
    BY <2>1, Zenon
<1>11. Total(f, (s \ {a}) \ {y}) \in Int /\ f[a] \in Int /\ f[y] \in Int
  <2>1. (s \ {a}) \ {y} \subseteq X
    BY <1>5
  <2>2. IsFiniteSet((s \ {a}) \ {y}) /\ \A z \in (s \ {a}) \ {y} : f[z] \in Int
    BY <2>1, FS_Subset
  <2>. QED
    BY <1>5, <2>2, TotalInteger
<1>. QED
  BY <1>4, <1>6, <1>8, <1>9, <1>10, <1>11

LEMMA TotalNatural ==
    ASSUME NEW X, IsFiniteSet(X), NEW f, \A x \in X : f[x] \in Nat
    PROVE  Total(f, X) \in Nat
<1> DEFINE good == {s \in SUBSET X : Total(f, s) \in Nat}
<1>1. {} \in good
  BY TotalEmpty
<1>2. ASSUME NEW s \in SUBSET X, NEW x \in s, s \ {x} \in good PROVE s \in good
  <2>1. IsFiniteSet(s) /\ \A y \in s : f[y] \in Int
    BY FS_Subset
  <2>2. Total(f, s) = f[x] + Total(f, s \ {x})
    <3> HIDE DEF good
    <3>. QED
      BY <2>1, TotalRemove
  <2>3. f[x] \in Nat /\ Total(f, s \ {x}) \in Nat
    BY <1>2
  <2>. QED
    BY <2>2, <2>3
<1>3. X \in good
  <2> HIDE DEF good
  <2>. QED
    BY <1>1, <1>2, SetInduction
<1>. QED
  BY <1>3

LEMMA TotalPlus ==
    ASSUME NEW X, IsFiniteSet(X), NEW f, NEW g, NEW h,
           \A x \in X : f[x] \in Int /\ g[x] \in Int /\ h[x] = f[x] + g[x]
    PROVE  Total(h, X) = Total(f, X) + Total(g, X)
<1> DEFINE good == {s \in SUBSET X : Total(h, s) = Total(f, s) + Total(g, s)}
<1>1. {} \in good
  BY TotalEmpty
<1>2. ASSUME NEW s \in SUBSET X, NEW x \in s, s \ {x} \in good PROVE s \in good
  <2>1. IsFiniteSet(s) /\ IsFiniteSet(s \ {x})
    BY FS_Subset
  <2>2. /\ Total(f, s) = f[x] + Total(f, s \ {x})
        /\ Total(g, s) = g[x] + Total(g, s \ {x})
        /\ Total(h, s) = h[x] + Total(h, s \ {x})
    BY <2>1, TotalRemove
  <2>3. Total(f, s \ {x}) \in Int /\ Total(g, s \ {x}) \in Int
    BY <2>1, TotalInteger
  <2>4. f[x] \in Int /\ g[x] \in Int /\ h[x] = f[x] + g[x]
    OBVIOUS
  <2>5. Total(h, s \ {x}) = Total(f, s \ {x}) + Total(g, s \ {x})
    BY <1>2
  <2>. QED
    BY <2>2, <2>3, <2>4, <2>5
<1>3. X \in good
  <2> HIDE DEF good
  <2>. QED
    BY <1>1, <1>2, SetInduction
<1>. QED
  BY <1>3

LEMMA TotalTimes ==
    ASSUME NEW X, IsFiniteSet(X), NEW c \in Int, NEW f, NEW h,
           \A x \in X : f[x] \in Int /\ h[x] = c * f[x]
    PROVE  Total(h, X) = c * Total(f, X)
<1> DEFINE good == {s \in SUBSET X : Total(h, s) = c * Total(f, s)}
<1>1. {} \in good
  BY TotalEmpty
<1>2. ASSUME NEW s \in SUBSET X, NEW x \in s, s \ {x} \in good PROVE s \in good
  <2>1. IsFiniteSet(s) /\ IsFiniteSet(s \ {x})
    BY FS_Subset
  <2>2. \A y \in X : h[y] \in Int
    OBVIOUS
  <2>3. /\ Total(f, s) = f[x] + Total(f, s \ {x})
        /\ Total(h, s) = h[x] + Total(h, s \ {x})
    BY <2>1, <2>2, TotalRemove
  <2>4. Total(f, s \ {x}) \in Int /\ f[x] \in Int /\ h[x] = c * f[x]
    BY <2>1, TotalInteger
  <2>5. Total(h, s \ {x}) = c * Total(f, s \ {x})
    BY <1>2
  <2>6. \A a, b \in Int : c * (a + b) = c * a + c * b
    OBVIOUS
  <2>. QED
    BY <2>3, <2>4, <2>5, <2>6
<1>3. X \in good
  <2> HIDE DEF good
  <2>. QED
    BY <1>1, <1>2, SetInduction
<1>. QED
  BY <1>3

\* A sum over two parts.
LEMMA TotalParts ==
    ASSUME NEW X, IsFiniteSet(X), NEW f, \A x \in X : f[x] \in Int,
           NEW Y, Y \subseteq X
    PROVE  Total(f, X) = Total(f, Y) + Total(f, X \ Y)
<1> DEFINE good == {s \in SUBSET X : Total(f, s) = Total(f, s \cap Y) + Total(f, s \ Y)}
<1>1. {} \in good
  <2>1. {} \cap Y = {} /\ {} \ Y = {}
    OBVIOUS
  <2>. QED
    BY <2>1, TotalEmpty
<1>2. ASSUME NEW s \in SUBSET X, NEW x \in s, s \ {x} \in good PROVE s \in good
  <2> DEFINE r == s \ {x}
             in == s \cap Y
             out == s \ Y
             inR == r \cap Y
             outR == r \ Y
  <2>1. /\ IsFiniteSet(s) /\ IsFiniteSet(in) /\ IsFiniteSet(out)
        /\ IsFiniteSet(inR) /\ IsFiniteSet(outR)
    BY FS_Subset
  <2>2. Total(f, r) = Total(f, inR) + Total(f, outR)
    BY <1>2
  <2>3. /\ f[x] \in Int
        /\ \A y \in in \cup out \cup inR \cup outR : f[y] \in Int
    OBVIOUS
  <2>4. Total(f, s) = f[x] + Total(f, r)
    BY <2>1, TotalRemove
  <2>5. /\ x \in Y => x \in in /\ in \ {x} = inR /\ out = outR
        /\ x \notin Y => x \in out /\ out \ {x} = outR /\ in = inR
    OBVIOUS
  <2> HIDE DEF r, in, out, inR, outR
  <2>6. Total(f, inR) \in Int /\ Total(f, outR) \in Int
    BY <2>1, <2>3, TotalInteger
  <2>7. CASE x \in Y
    <3>1. Total(f, in) = f[x] + Total(f, inR)
      <4>1. Total(f, in) = f[x] + Total(f, in \ {x})
        BY <2>1, <2>3, <2>5, <2>7, TotalRemove
      <4>2. in \ {x} = inR
        BY <2>5, <2>7
      <4>. QED
        BY <4>1, <4>2
    <3>2. Total(f, out) = Total(f, outR)
      BY <2>5, <2>7
    <3>3. Total(f, s) = Total(f, in) + Total(f, out)
      BY <2>2, <2>3, <2>4, <2>6, <3>1, <3>2
    <3>. QED
      BY <3>3 DEF in, out
  <2>8. CASE x \notin Y
    <3>1. Total(f, out) = f[x] + Total(f, outR)
      <4>1. Total(f, out) = f[x] + Total(f, out \ {x})
        BY <2>1, <2>3, <2>5, <2>8, TotalRemove
      <4>2. out \ {x} = outR
        BY <2>5, <2>8
      <4>. QED
        BY <4>1, <4>2
    <3>2. Total(f, in) = Total(f, inR)
      BY <2>5, <2>8
    <3>3. Total(f, s) = Total(f, in) + Total(f, out)
      BY <2>2, <2>3, <2>4, <2>6, <3>1, <3>2
    <3>. QED
      BY <3>3 DEF in, out
  <2>. QED
    BY <2>7, <2>8
<1>3. X \in good
  <2> HIDE DEF good
  <2>. QED
    BY <1>1, <1>2, SetInduction
<1>4. X \cap Y = Y
  OBVIOUS
<1>. QED
  BY <1>3, <1>4

\* Terms that are zero may be left out.
LEMMA TotalZero ==
    ASSUME NEW X, IsFiniteSet(X), NEW f, \A x \in X : f[x] = 0
    PROVE  Total(f, X) = 0
<1> DEFINE good == {s \in SUBSET X : Total(f, s) = 0}
<1>1. {} \in good
  BY TotalEmpty
<1>2. ASSUME NEW s \in SUBSET X, NEW x \in s, s \ {x} \in good PROVE s \in good
  <2>1. IsFiniteSet(s) /\ \A y \in s : f[y] \in Int
    BY FS_Subset
  <2>2. Total(f, s) = f[x] + Total(f, s \ {x})
    BY <2>1, TotalRemove
  <2>. QED
    BY <1>2, <2>2
<1>3. X \in good
  <2> HIDE DEF good
  <2>. QED
    BY <1>1, <1>2, SetInduction
<1>. QED
  BY <1>3

\* The terms in another order.
LEMMA TotalImage ==
    ASSUME NEW X, IsFiniteSet(X), NEW f, NEW g, NEW m, NEW Z,
           Z = {m[x] : x \in X}, \A x, y \in X : m[x] = m[y] => x = y,
           \A x \in X : f[x] \in Int /\ g[m[x]] = f[x]
    PROVE  IsFiniteSet(Z) /\ Total(g, Z) = Total(f, X)
<1> DEFINE image(s) == {m[x] : x \in s}
           good == {s \in SUBSET X : IsFiniteSet(image(s)) /\ Total(g, image(s)) = Total(f, s)}
<1>1. {} \in good
  <2>1. image({}) = {}
    OBVIOUS
  <2>. QED
    BY <2>1, TotalEmpty, FS_EmptySet
<1>2. ASSUME NEW s \in SUBSET X, NEW x \in s, s \ {x} \in good PROVE s \in good
  <2> DEFINE r == s \ {x}
  <2>1. /\ image(s) = image(r) \cup {m[x]} /\ image(s) \ {m[x]} = image(r)
        /\ m[x] \in image(s)
    OBVIOUS
  <2>2. \A z \in image(s) : g[z] \in Int
    OBVIOUS
  <2>3. IsFiniteSet(image(r)) /\ Total(g, image(r)) = Total(f, r)
    BY <1>2
  <2>4. g[m[x]] = f[x]
    OBVIOUS
  <2>5. IsFiniteSet(s) /\ (\A y \in s : f[y] \in Int) /\ r = s \ {x}
    BY FS_Subset
  <2> HIDE DEF image, r, good
  <2>6. Total(f, s) = f[x] + Total(f, r)
    BY <2>5, TotalRemove
  <2>7. IsFiniteSet(image(s))
    BY <2>1, <2>3, FS_AddElement
  <2>8. Total(g, image(s)) = g[m[x]] + Total(g, image(r))
    BY <2>1, <2>2, <2>7, TotalRemove
  <2>. QED
    BY <2>3, <2>4, <2>6, <2>7, <2>8 DEF good
<1>3. X \in good
  <2> HIDE DEF good
  <2>. QED
    BY <1>1, <1>2, SetInduction
<1>. QED
  BY <1>3

-----------------------------------------------------------------------------
(* Least and greatest elements of finite sets of integers. *)

LEMMA LeastInteger ==
    ASSUME NEW X, IsFiniteSet(X), X \subseteq Int, X # {}
    PROVE  /\ Min(X) \in X /\ \A y \in X : Min(X) <= y
           /\ Max(X) \in X /\ \A y \in X : Max(X) >= y
<1> DEFINE good == {s \in SUBSET X : s # {} =>
                        /\ \E a \in s : \A y \in s : a <= y
                        /\ \E a \in s : \A y \in s : a >= y}
<1>1. {} \in good
  OBVIOUS
<1>2. ASSUME NEW s \in SUBSET X, NEW x \in s, s \ {x} \in good PROVE s \in good
  <2>1. CASE s \ {x} = {}
    <3>1. \A y \in s : x <= y /\ x >= y
      BY <2>1
    <3>. QED
      BY <3>1
  <2>2. CASE s \ {x} # {}
    <3>1. PICK a \in s \ {x} : \A y \in s \ {x} : a <= y
      BY <1>2, <2>2
    <3>2. PICK b \in s \ {x} : \A y \in s \ {x} : b >= y
      BY <1>2, <2>2
    <3>3. \E c \in s : \A y \in s : c <= y
      <4>1. CASE a <= x
        BY <3>1, <4>1
      <4>2. CASE x <= a
        BY <3>1, <4>2
      <4>. QED
        BY <4>1, <4>2
    <3>4. \E c \in s : \A y \in s : c >= y
      <4>1. CASE b >= x
        BY <3>2, <4>1
      <4>2. CASE x >= b
        BY <3>2, <4>2
      <4>. QED
        BY <4>1, <4>2
    <3>. QED
      BY <3>3, <3>4
  <2>. QED
    BY <2>1, <2>2
<1>3. X \in good
  <2> HIDE DEF good
  <2>. QED
    BY <1>1, <1>2, SetInduction
<1>4. (\E a \in X : \A y \in X : a <= y) /\ (\E a \in X : \A y \in X : a >= y)
  BY <1>3
<1>. QED
  BY <1>4, Zenon DEF Min, Max

-----------------------------------------------------------------------------
(* Tuning: a run stores no weights that score worse, but for the rounding. *)

\* Sums, by another module's name of them.
LEMMA TuningTotals ==
    \A f : T!SumFunction(f) = Total(f, DOMAIN f)
BY Zenon DEF T!SumFunction, T!SumFunctionOnSet, T!FoldFunctionOnSet, T!MapThenFoldSet,
        Total, SumFunctionOnSet, FoldFunctionOnSet, MapThenFoldSet

LEMMA TuningMin == \A X : T!Min(X) = Min(X)
BY Zenon DEF T!Min, Min

LEMMA CountNatural ==
    ASSUME NEW events, IsFiniteSet(events), \A ev \in events : ev.count \in Nat
    PROVE  T!Count(events) \in Nat
<1> DEFINE f == [ev \in events |-> ev.count]
<1>1. T!Count(events) = Total(f, events)
  BY TuningTotals DEF T!Count
<1>2. \A ev \in events : f[ev] \in Nat
  OBVIOUS
<1> HIDE DEF f
<1>. QED
  BY <1>1, <1>2, TotalNatural

LEMMA RoundedInteger ==
    ASSUME NEW n \in Int, NEW d \in Int, d > 0
    PROVE  T!Rounded(n, d) \in Int
<1>1. 2 * n + d \in Int /\ 2 * d \in Int /\ 2 * d > 0
  OBVIOUS
<1>2. \A a, b \in Int : b > 0 => a \div b \in Int
  OBVIOUS
<1>. QED
  BY <1>1, <1>2 DEF T!Rounded

LEMMA ScoreInteger ==
    ASSUME NEW s \in DOMAIN Samples, NEW w
    PROVE  T!F1(s, w) \in Int
<1> DEFINE flagged(ev) == T!SumFunctionOnSet(w, ev.fired) >= 30
           hit == {ev \in Samples[s] : ev.malicious /\ flagged(ev)}
           miss == {ev \in Samples[s] : ev.malicious # flagged(ev)}
           tp == T!Count(hit)
           wrong == T!Count(miss)
<1>1. T!F1(s, w) = IF tp = 0 THEN 0 ELSE T!Rounded(2000 * tp, 2 * tp + wrong)
  BY Zenon DEF T!F1
<1>2. hit \subseteq Samples[s] /\ miss \subseteq Samples[s]
  OBVIOUS
<1> HIDE DEF flagged, hit, miss
<1>3. tp \in Nat /\ wrong \in Nat
  <2>1. IsFiniteSet(hit) /\ IsFiniteSet(miss)
    BY <1>2, FS_Subset, SampleAssumption
  <2>2. \A ev \in hit \cup miss : ev.count \in Nat
    BY <1>2, SampleAssumption
  <2>. QED
    BY <2>1, <2>2, CountNatural
<1> HIDE DEF tp, wrong
<1>4. tp # 0 => 2000 * tp \in Int /\ 2 * tp + wrong \in Int /\ 2 * tp + wrong > 0
  BY <1>3
<1>. QED
  BY <1>1, <1>4, RoundedInteger

LEMMA BestScores ==
    ASSUME NEW s \in DOMAIN Samples, NEW tuned, NEW snapped, NEW current
    PROVE  LET kept == T!BestOf(s, tuned, snapped, current)
           IN  kept \in {tuned, snapped, current} /\ T!F1(s, kept) >= T!F1(s, current)
<1> DEFINE a == T!F1(s, tuned)
           b == T!F1(s, snapped)
           c == T!F1(s, current)
<1>1. a \in Int /\ b \in Int /\ c \in Int
  BY ScoreInteger
<1>2. T!BestOf(s, tuned, snapped, current) =
        CASE a >= b /\ a >= c -> tuned [] b > a /\ b >= c -> snapped [] OTHER -> current
  BY Zenon DEF T!BestOf
<1>3. CASE a >= b /\ a >= c
  <2>1. T!BestOf(s, tuned, snapped, current) = tuned
    <3> HIDE DEF a, b, c
    <3>. QED
      BY <1>1, <1>2, <1>3
  <2>. QED
    BY <1>3, <2>1
<1>4. CASE ~(a >= b /\ a >= c) /\ b > a /\ b >= c
  <2>1. T!BestOf(s, tuned, snapped, current) = snapped
    <3> HIDE DEF a, b, c
    <3>. QED
      BY <1>1, <1>2, <1>4
  <2>. QED
    BY <1>4, <2>1
<1>5. CASE ~(a >= b /\ a >= c) /\ ~(b > a /\ b >= c)
  <2>1. T!BestOf(s, tuned, snapped, current) = current
    <3> HIDE DEF a, b, c
    <3>. QED
      BY <1>1, <1>2, <1>5
  <2>. QED
    BY <1>1, <2>1
<1>. QED
  BY <1>3, <1>4, <1>5

LEMMA NearestLevel ==
    ASSUME NEW w \in Int
    PROVE  T!_nearest_level(w) \in Range(Levels)
<1> DEFINE places == DOMAIN Levels
           distance(i) == T!Abs(Levels[i] - w)
           all == {distance(i) : i \in places}
           least == T!Min(all)
           nearest == {i \in places : distance(i) = least}
<1>1. /\ IsFiniteSet(places) /\ places \subseteq Int /\ places # {}
      /\ \A i \in places : Levels[i] \in Int
  <2>1. Levels \in Seq(Int) /\ Levels # <<>>
    BY WeightAssumption
  <2>2. places = 1 .. Len(Levels) /\ Len(Levels) \in Nat \ {0}
    BY <2>1
  <2>3. IsFiniteSet(places) /\ places \subseteq Int /\ 1 \in places
    <3> HIDE DEF places
    <3>1. places \subseteq Int /\ 1 \in places
      BY <2>2
    <3>2. 1 \in Int /\ Len(Levels) \in Int
      BY <2>2
    <3>3. IsFiniteSet(places)
      BY <2>2, <3>2, FS_Interval
    <3>. QED
      BY <3>1, <3>3
  <2>. QED
    BY <2>1, <2>3
<1>2. IsFiniteSet(all) /\ all # {}
  <2> DEFINE f == [i \in places |-> distance(i)]
  <2>1. f \in Surjection(places, all)
    BY DEF Surjection
  <2>. QED
    BY <1>1, <2>1, FS_Surjection
<1>3. all \subseteq Int
  BY <1>1 DEF T!Abs
<1>4. least \in all
  <2> HIDE DEF all
  <2>. QED
    BY <1>2, <1>3, LeastInteger, TuningMin
<1>5. nearest # {} /\ nearest \subseteq places
  <2>1. PICK i \in places : least = distance(i)
    BY <1>4
  <2> HIDE DEF least, distance
  <2>. QED
    BY <2>1
<1>6. IsFiniteSet(nearest) /\ nearest \subseteq Int
  BY <1>1, <1>5, FS_Subset
<1>7. T!Min(nearest) \in places
  <2> HIDE DEF nearest, places
  <2>. QED
    BY <1>5, <1>6, LeastInteger, TuningMin
<1>8. T!_nearest_level(w) = Levels[T!Min(nearest)]
  BY Zenon DEF T!_nearest_level
<1>. QED
  BY <1>7, <1>8 DEF Range

\* What a solver's answer decodes to.
LEMMA DecodedWeights ==
    ASSUME NEW s, NEW current \in [Rules -> Int], NEW ones
    PROVE  LET tuned == T!Decoded(s, current, ones)
           IN  /\ DOMAIN tuned = Rules /\ tuned = [i \in Rules |-> tuned[i]]
               /\ \A i \in Rules :
                    tuned[i] = current[i] \/ (i \in T!Tunable(s) /\ tuned[i] \in Range(Levels))
<1> DEFINE tuned == T!Decoded(s, current, ones)
           group(i) == Len(Levels) * T!Cardinality({q \in T!Tunable(s) : q < i})
           chosen(i) == {l \in DOMAIN Levels : group(i) + l - 1 \in ones}
<1>1. tuned = [i \in Rules |->
                 IF i \notin T!Tunable(s) \/ chosen(i) = {} THEN current[i]
                 ELSE Levels[T!Min(chosen(i))]]
  BY Zenon DEF T!Decoded
<1>2. ASSUME NEW i \in Rules, chosen(i) # {} PROVE Levels[T!Min(chosen(i))] \in Range(Levels)
  <2>1. chosen(i) \subseteq DOMAIN Levels
    OBVIOUS
  <2>2. DOMAIN Levels = 1 .. Len(Levels) /\ Len(Levels) \in Nat
    BY WeightAssumption
  <2>3. IsFiniteSet(DOMAIN Levels) /\ DOMAIN Levels \subseteq Int
    BY <2>2, FS_Interval
  <2> HIDE DEF chosen
  <2>4. IsFiniteSet(chosen(i)) /\ chosen(i) \subseteq Int
    BY <2>1, <2>3, FS_Subset
  <2>5. T!Min(chosen(i)) \in chosen(i)
    BY <1>2, <2>4, LeastInteger, TuningMin
  <2>. QED
    BY <2>1, <2>5 DEF Range
<1> HIDE DEF chosen
<1>3. \A i \in Rules : tuned[i] = current[i] \/ (i \in T!Tunable(s) /\ tuned[i] \in Range(Levels))
  BY <1>1, <1>2
<1>. QED
  BY <1>1, <1>3

\* Every candidate has a level or the current weight for a rule, and the current
\* one for a rule that did not fire.
Candidates(s, current) ==
    {w \in [Rules -> Int] : \A i \in Rules :
        w[i] = current[i] \/ (i \in T!Tunable(s) /\ w[i] \in Range(Levels))}

LEMMA CandidateWeights ==
    ASSUME NEW r, v4[r].weights \in [Rules -> Int], NEW tuned \in T!Tuned(r)
    PROVE  {tuned, T!Snapped(v4[r].sample, v4[r].weights), v4[r].weights}
              \subseteq Candidates(v4[r].sample, v4[r].weights)
<1> DEFINE s == v4[r].sample
           current == v4[r].weights
           snapped == T!Snapped(s, current)
<1>1. Range(Levels) \subseteq Int
  BY WeightAssumption DEF Range
<1>2. snapped \in Candidates(s, current)
  <2>1. \A i \in Rules : T!_nearest_level(current[i]) \in Range(Levels)
    BY NearestLevel
  <2>2. snapped = [i \in Rules |-> IF i \in T!Tunable(s) THEN T!_nearest_level(current[i])
                                   ELSE current[i]]
    BY Zenon DEF T!Snapped
  <2>. QED
    BY <1>1, <2>1, <2>2 DEF Candidates
<1>3. tuned \in Candidates(s, current)
  <2>1. CASE v4[r].exact
    <3>1. PICK ones : tuned = T!Decoded(s, current, ones)
      BY <2>1, Zenon DEF T!Tuned
    <3>2. /\ tuned = [i \in Rules |-> tuned[i]]
          /\ \A i \in Rules :
               tuned[i] = current[i] \/ (i \in T!Tunable(s) /\ tuned[i] \in Range(Levels))
      BY <3>1, DecodedWeights
    <3>. QED
      BY <1>1, <3>2 DEF Candidates
  <2>2. CASE ~v4[r].exact
    <3>1. /\ tuned \in [Rules -> T!Range(Levels) \cup T!Range(current)]
          /\ \A i \in Rules :
               tuned[i] # current[i] => i \in T!Tunable(s) /\ tuned[i] \in T!Range(Levels)
      BY <2>2 DEF T!Tuned
    <3>2. T!Range(Levels) = Range(Levels) /\ T!Range(current) \subseteq Int
      BY DEF T!Range, Range
    <3>. QED
      BY <1>1, <3>1, <3>2 DEF Candidates
  <2>. QED
    BY <2>1, <2>2
<1>4. current \in Candidates(s, current)
  BY DEF Candidates
<1>. QED
  BY <1>2, <1>3, <1>4

\* Rounding to the grain of a stored weight.
LEMMA StoredWeight ==
    ASSUME NEW n \in Int
    PROVE  /\ 3 * T!Rounded(n, 3) \in Int
           /\ n % 3 = 0 => 3 * T!Rounded(n, 3) = n
           /\ 2 * T!Abs(3 * T!Rounded(n, 3) - n) <= 3
<1>1. T!Rounded(n, 3) = (2 * n + 3) \div 6
  BY DEF T!Rounded
<1>. QED
  BY <1>1 DEF T!Abs

\* A run of which TunedNotWorse holds.
Scored(t) ==
    /\ T!Storable(t.of.weights) => T!F1(t.of.sample, t.weights) = t.after /\ t.after >= t.before
    /\ \A i \in Rules \ T!Tunable(t.of.sample) :
          2 * T!Abs(t.weights[i] - t.of.weights[i]) <= 3

LEMMA ScoredRuns == T!TunedNotWorse <=> \A t \in T!Runs : Scored(t)
BY Zenon DEF T!TunedNotWorse, Scored

LEMMA ResultScored ==
    ASSUME NEW r, v4[r].weights \in [Rules -> Int], v4[r].sample \in DOMAIN Samples,
           NEW tuned \in T!Tuned(r)
    PROVE  /\ Scored(T!Result(v4[r], tuned))
           /\ T!Result(v4[r], tuned).weights \in [Rules -> Int]
<1> DEFINE s == v4[r].sample
           current == v4[r].weights
           snapped == T!Snapped(s, current)
           kept == T!BestOf(s, tuned, snapped, current)
           new == T!Result(v4[r], tuned)
<1>1. /\ new.of = v4[r] /\ new.weights = T!Stored(kept)
      /\ new.before = T!F1(s, current) /\ new.after = T!F1(s, kept)
  BY DEF T!Result
<1>2. kept \in {tuned, snapped, current} /\ T!F1(s, kept) >= T!F1(s, current)
  BY BestScores
<1>3. kept \in Candidates(s, current)
  BY <1>2, CandidateWeights
<1> HIDE DEF kept, snapped, new
<1>4. /\ kept \in [Rules -> Int]
      /\ \A i \in Rules :
           kept[i] = current[i] \/ (i \in T!Tunable(s) /\ kept[i] \in Range(Levels))
  BY <1>3 DEF Candidates
<1>5. T!Stored(kept) = [i \in Rules |-> 3 * T!Rounded(kept[i], 3)]
  BY Zenon DEF T!Stored
<1>6. T!Stored(kept) \in [Rules -> Int]
  BY <1>4, <1>5, StoredWeight
<1>7. ASSUME T!Storable(current) PROVE T!Stored(kept) = kept
  <2>1. \A l \in Range(Levels) : l % 3 = 0
    BY WeightAssumption DEF Range
  <2>2. \A i \in Rules : kept[i] % 3 = 0
    BY <1>4, <1>7, <2>1 DEF T!Storable
  <2>3. \A i \in Rules : 3 * T!Rounded(kept[i], 3) = kept[i]
    BY <1>4, <2>2, StoredWeight
  <2>. QED
    BY <1>4, <1>5, <2>3
<1>8. \A i \in Rules \ T!Tunable(s) : 2 * T!Abs(T!Stored(kept)[i] - current[i]) <= 3
  <2>1. \A i \in Rules \ T!Tunable(s) : kept[i] = current[i] /\ current[i] \in Int
    BY <1>4
  <2>. QED
    BY <1>5, <2>1, StoredWeight
<1>9. T!Storable(new.of.weights) =>
        T!F1(new.of.sample, new.weights) = new.after /\ new.after >= new.before
  <2>1. T!Storable(current) => new.weights = kept
    BY <1>1, <1>7
  <2>2. T!Storable(current) =>
          T!F1(s, new.weights) = new.after /\ new.after >= new.before
    BY <1>1, <1>2, <2>1
  <2>. QED
    BY <1>1, <2>2
<1>10. \A i \in Rules \ T!Tunable(new.of.sample) :
          2 * T!Abs(new.weights[i] - new.of.weights[i]) <= 3
  BY <1>1, <1>8
<1>11. Scored(new)
  <2> HIDE DEF s, current
  <2>. QED
    BY <1>9, <1>10 DEF Scored
<1>. QED
  BY <1>1, <1>6, <1>11 DEF new

LEMMA ScoreCommits ==
    ASSUME T!ScoreInv, NEW r \in Tuners, T!TuneCommits(r)
    PROVE  T!TunedNotWorse' /\ T!Numbers'
<1>1. PICK tuned \in T!Tuned(r) : v5' = [v5 EXCEPT ![r] = T!Result(v4[r], tuned)]
  BY DEF T!TuneCommits
<1> DEFINE new == T!Result(v4[r], tuned)
<1>2. /\ v4[r].sample \in DOMAIN Samples /\ v4[r].weights \in [Rules -> Int]
      /\ DOMAIN v5 = Tuners /\ v1' = v1
  BY DEF T!TuneCommits, T!ScoreInv, T!Inv, T!ReadSample, T!RunsStored
<1>3. Scored(new) /\ new.weights \in [Rules -> Int]
  BY <1>2, ResultScored
<1> HIDE DEF new
<1>4. \A t \in T!Runs' : t \in T!Runs \/ t = new
  BY <1>1, <1>2 DEF T!Runs, new
<1>5. \A t \in T!Runs' : Scored(t)
  BY <1>3, <1>4, ScoredRuns DEF T!ScoreInv
<1>6. T!TunedNotWorse'
  BY <1>5, Zenon DEF T!TunedNotWorse, Scored
<1>7. T!Numbers'
  BY <1>1, <1>2, <1>3 DEF T!ScoreInv, T!Numbers, new
<1>. QED
  BY <1>6, <1>7

LEMMA TuningScores ==
    ASSUME T!ScoreInv, T!Next \/ UNCHANGED T!vars
    PROVE  T!ScoreInv'
<1>. USE DEF T!Requests
<1>1. DOMAIN v3 = T!Requests /\ DOMAIN v4 = T!Requests /\ DOMAIN v5 = Tuners
  BY DEF T!ScoreInv, T!Inv, T!RunsStored
<1>2. T!Inv'
  BY TuningStep DEF T!ScoreInv
<1>3. ASSUME NEW r \in Tuners, NEW sample \in DOMAIN Samples, NEW exact,
             T!TuneReads(r, sample, exact)
      PROVE  T!ScoreInv'
  <2>1. T!ReadSample' /\ T!Numbers'
    BY <1>1, <1>3 DEF T!ScoreInv, T!ReadSample, T!Numbers, T!TuneReads, T!Goto
  <2>2. T!TunedNotWorse'
    BY <1>3 DEF T!ScoreInv, T!TunedNotWorse, T!Runs, T!TuneReads
  <2>. QED
    BY <1>2, <2>1, <2>2 DEF T!ScoreInv
<1>4. ASSUME NEW r \in Tuners, T!TuneCommits(r)
      PROVE  T!ScoreInv'
  <2>1. T!ReadSample'
    BY <1>1, <1>4 DEF T!ScoreInv, T!ReadSample, T!TuneCommits, T!Goto
  <2>. QED
    BY <1>2, <1>4, <2>1, ScoreCommits DEF T!ScoreInv
<1>5. ASSUME NEW r \in Appliers, NEW q \in Tuners, T!ApplyReads(r, q)
      PROVE  T!ScoreInv'
  <2>1. T!ReadSample' /\ T!Numbers'
    BY <1>1, <1>5 DEF T!ScoreInv, T!ReadSample, T!Numbers, T!ApplyReads, T!Goto
  <2>2. T!TunedNotWorse'
    BY <1>5 DEF T!ScoreInv, T!TunedNotWorse, T!Runs, T!ApplyReads
  <2>. QED
    BY <1>2, <2>1, <2>2 DEF T!ScoreInv
<1>6. ASSUME NEW r \in Appliers, T!ApplyCommits(r)
      PROVE  T!ScoreInv'
  <2>1. /\ v1' = [i \in Rules |-> T!Writes(r, i)] /\ v4' = v4 /\ v5' = v5
        /\ v3' = [v3 EXCEPT ![r] = "done"] /\ v3[r] = "apply"
    BY <1>6 DEF T!ApplyCommits, T!Goto
  <2>2. \A i \in Rules : T!Writes(r, i) \in Int
    <3>1. v4[r].run \in Tuners /\ v5[v4[r].run] # Nothing
      BY <2>1 DEF T!ScoreInv, T!Inv, T!AppliesCurrent
    <3>2. v5[v4[r].run].weights \in [Rules -> Int] /\ v1 \in [Rules -> Int]
      BY <3>1 DEF T!ScoreInv, T!Numbers
    <3>. QED
      BY <3>2 DEF T!Writes
  <2>3. T!Numbers'
    BY <2>1, <2>2 DEF T!ScoreInv, T!Numbers
  <2>4. T!ReadSample'
    BY <1>1, <2>1 DEF T!ScoreInv, T!ReadSample
  <2>5. T!TunedNotWorse'
    BY <2>1 DEF T!ScoreInv, T!TunedNotWorse, T!Runs
  <2>. QED
    BY <1>2, <2>3, <2>4, <2>5 DEF T!ScoreInv
<1>7. CASE \/ \E i \in Rules, w \in NewWeights : T!PatchRule(i, w)
           \/ T!Restart
           \/ UNCHANGED T!vars
  <2>1. /\ v5' = v5 /\ v4' = v4
        /\ \A r \in Tuners : v3'[r] = v3[r] \/ v3'[r] = "done"
    <3>1. CASE T!Restart
      BY <1>1, <3>1 DEF T!Restart
    <3>2. CASE UNCHANGED T!vars
      BY <1>1, <3>2 DEF T!vars
    <3>3. CASE \E i \in Rules, w \in NewWeights : T!PatchRule(i, w)
      BY <1>1, <3>3 DEF T!PatchRule
    <3>. QED
      BY <1>7, <3>1, <3>2, <3>3, Zenon
  <2>2. v1' \in [Rules -> Int]
    <3>1. v1 \in [Rules -> Int]
      BY DEF T!ScoreInv, T!Numbers
    <3>2. CASE v1' = v1
      BY <3>1, <3>2
    <3>3. CASE \E i \in Rules, w \in NewWeights : T!PatchRule(i, w)
      BY <3>1, <3>3, WeightAssumption DEF T!PatchRule
    <3>. QED
      BY <1>7, <3>2, <3>3 DEF T!Restart, T!vars
  <2>3. T!ReadSample' /\ T!Numbers'
    BY <2>1, <2>2 DEF T!ScoreInv, T!ReadSample, T!Numbers
  <2>4. T!TunedNotWorse'
    BY <2>1 DEF T!ScoreInv, T!TunedNotWorse, T!Runs
  <2>. QED
    BY <1>2, <2>3, <2>4 DEF T!ScoreInv
<1>. QED
  BY <1>3, <1>4, <1>5, <1>6, <1>7 DEF T!Next

(***************************************************************************)
(* For all samples, rules and weights, and whatever the solver answers:    *)
(* when the weights in use have no more than three decimals, those that a  *)
(* run stores score its sample at least as well; a rule that did not fire  *)
(* keeps its weight up to the rounding (services/quantum/tuning.py).       *)
(***************************************************************************)
THEOREM TunedNotWorseAlways == MCSpec => []TunedNotWorse
<1> DEFINE IInv == part = "tuning" => T!ScoreInv
<1>1. MCInit => IInv
  <2>1. ASSUME T!Init PROVE T!ScoreInv
    <3>1. T!Inv
      BY <2>1, TuningInit
    <3>2. T!ReadSample
      BY <2>1 DEF T!Init, T!ReadSample, T!Requests
    <3>3. T!Runs = {}
      BY <2>1 DEF T!Init, T!Runs
    <3>4. T!Numbers
      BY <2>1, WeightAssumption DEF T!Init, T!Numbers
    <3>. QED
      BY <3>1, <3>2, <3>3, <3>4 DEF T!ScoreInv, T!TunedNotWorse
  <2>. QED
    BY <2>1 DEF MCInit
<1>2. IInv /\ [MCNext]_mcvars => IInv'
  BY PartStep, TuningScores
<1>3. IInv => TunedNotWorse
  BY DEF TunedNotWorse, T!ScoreInv
<1>. QED
  BY <1>1, <1>2, <1>3, PTL DEF MCSpec

-----------------------------------------------------------------------------
(* Pairs. *)

LEMMA PairsOf ==
    ASSUME NEW X, IsFiniteSet(X)
    PROVE  /\ IsFiniteSet(Pairs(X))
           /\ \A e : e \in Pairs(X) <=> \E u, v \in X : u # v /\ e = {u, v}
<1>1. \A e : e \in Pairs(X) <=> e \in SUBSET X /\ Cardinality(e) = 2
  BY Zenon DEF Pairs, kSubset
<1>2. IsFiniteSet(Pairs(X))
  <2>1. IsFiniteSet(SUBSET X)
    BY FS_SUBSET
  <2>2. Pairs(X) \subseteq SUBSET X
    BY <1>1
  <2>. QED
    BY <2>1, <2>2, FS_Subset
<1>3. ASSUME NEW e \in SUBSET X, Cardinality(e) = 2
      PROVE  \E u, v \in X : u # v /\ e = {u, v}
  <2>1. IsFiniteSet(e)
    BY FS_Subset
  <2>2. e # {}
    BY <1>3, FS_EmptySet
  <2>3. PICK u \in e : TRUE
    BY <2>2
  <2>4. IsFiniteSet(e \ {u}) /\ Cardinality(e \ {u}) = 1
    BY <1>3, <2>1, FS_RemoveElement
  <2>5. PICK v : e \ {u} = {v}
    BY <2>4, FS_Singleton
  <2>. QED
    BY <2>5
<1>4. ASSUME NEW u \in X, NEW v \in X, u # v
      PROVE  {u, v} \in SUBSET X /\ Cardinality({u, v}) = 2
  <2>1. {u, v} = {u} \cup {v} /\ v \notin {u}
    BY <1>4
  <2>2. IsFiniteSet({u}) /\ Cardinality({u}) = 1
    BY FS_Singleton
  <2>3. Cardinality({u} \cup {v}) = 2
    BY <2>1, <2>2, FS_AddElement
  <2>. QED
    BY <2>1, <2>3, Zenon
<1>. QED
  BY <1>1, <1>2, <1>3, <1>4

\* The product of two spins.
LEMMA ProductOf ==
    ASSUME NEW s, NEW u, NEW v, s[u] \in {-1, 1}, s[v] \in {-1, 1}
    PROVE  Product(s, {u, v}) = s[u] * s[v]
<1>1. {s[w] : w \in {u, v}} = {s[u], s[v]}
  OBVIOUS
<1>2. s[u] = s[v] <=> Cardinality({s[u], s[v]}) = 1
  <2>1. \A a, b : a = b => Cardinality({a, b}) = 1
    <3>1. \A a : {a, a} = {a}
      OBVIOUS
    <3>. QED
      BY <3>1, FS_Singleton
  <2>2. ASSUME NEW a, NEW b, Cardinality({a, b}) = 1 PROVE a = b
    <3>1. IsFiniteSet({a, b})
      <4>1. {a, b} = {a} \cup {b}
        OBVIOUS
      <4>2. IsFiniteSet({a}) /\ IsFiniteSet({b})
        BY FS_Singleton
      <4>3. IsFiniteSet({a} \cup {b})
        BY <4>2, FS_Union
      <4>. QED
        BY <4>1, <4>3, Zenon
    <3>2. PICK c : {a, b} = {c}
      BY <2>2, <3>1, FS_Singleton
    <3>3. a \in {c} /\ b \in {c}
      BY <3>2
    <3>. QED
      BY <3>3
  <2>. QED
    BY <2>1, <2>2
<1>3. Product(s, {u, v}) = IF s[u] = s[v] THEN 1 ELSE -1
  BY <1>1, <1>2, Zenon DEF Product
<1>. QED
  BY <1>3

QuboModel(q) ==
    /\ q.n \in Nat /\ q.offset \in Int
    /\ q.linear \in [Variables(q) -> Int]
    /\ q.quadratic \in [Pairs(Variables(q)) -> Int]

\* Sums over a function's whole domain.
LEMMA TotalDomain == \A f : SumFunction(f) = Total(f, DOMAIN f)
BY Zenon DEF SumFunction, Total

\* Terms outside Y are zero.
LEMMA TotalOnly ==
    ASSUME NEW X, IsFiniteSet(X), NEW f, NEW g, NEW Y, Y \subseteq X,
           \A x \in Y : f[x] = g[x] /\ f[x] \in Int,
           \A x \in X \ Y : f[x] = 0
    PROVE  Total(f, X) = Total(g, Y)
<1>1. IsFiniteSet(Y) /\ IsFiniteSet(X \ Y)
  BY FS_Subset
<1>2. \A x \in X : f[x] \in Int
  OBVIOUS
<1>3. Total(f, X) = Total(f, Y) + Total(f, X \ Y)
  BY <1>2, TotalParts
<1>4. Total(f, X \ Y) = 0
  BY <1>1, TotalZero
<1>5. Total(f, Y) = Total(g, Y) /\ Total(f, Y) \in Int
  BY <1>1, TotalEqual, TotalInteger
<1>. QED
  BY <1>3, <1>4, <1>5

LEMMA VariablesFinite ==
    ASSUME NEW q, QuboModel(q)
    PROVE  /\ IsFiniteSet(Variables(q)) /\ Variables(q) \subseteq Int
           /\ IsFiniteSet(Pairs(Variables(q)))
<1>1. q.n - 1 \in Int /\ 0 \in Int
  BY DEF QuboModel
<1>2. IsFiniteSet(0 .. q.n - 1)
  BY <1>1, FS_Interval
<1>3. IsFiniteSet(Variables(q)) /\ Variables(q) \subseteq Int
  BY <1>2 DEF Variables
<1>. QED
  BY <1>3, PairsOf

LEMMA PairsWithin ==
    ASSUME NEW X, IsFiniteSet(X), NEW Y, Y \subseteq X
    PROVE  Pairs(Y) = {e \in Pairs(X) : e \subseteq Y}
<1>1. IsFiniteSet(Y)
  BY FS_Subset
<1>2. \A e : e \in Pairs(X) <=> \E u, v \in X : u # v /\ e = {u, v}
  BY PairsOf
<1>3. \A e : e \in Pairs(Y) <=> \E u, v \in Y : u # v /\ e = {u, v}
  BY <1>1, PairsOf
<1>4. \A e : e \in Pairs(Y) <=> e \in Pairs(X) /\ e \subseteq Y
  <2>1. ASSUME NEW e \in Pairs(Y) PROVE e \in Pairs(X) /\ e \subseteq Y
    <3>1. PICK u \in Y, v \in Y : u # v /\ e = {u, v}
      BY <1>3
    <3>. QED
      BY <1>2, <3>1
  <2>2. ASSUME NEW e \in Pairs(X), e \subseteq Y PROVE e \in Pairs(Y)
    <3>1. PICK u \in X, v \in X : u # v /\ e = {u, v}
      BY <1>2
    <3>. QED
      BY <1>3, <2>2, <3>1
  <2>. QED
    BY <2>1, <2>2
<1>. QED
  BY <1>4

LEMMA EnergyInteger ==
    ASSUME NEW q, QuboModel(q), NEW x \in SUBSET Variables(q)
    PROVE  energy(q, x) \in Int
<1>1. IsFiniteSet(x) /\ IsFiniteSet(Pairs(x)) /\ Pairs(x) \subseteq Pairs(Variables(q))
  BY VariablesFinite, FS_Subset, PairsOf, PairsWithin
<1>2. /\ \A v \in x : q.linear[v] \in Int
      /\ \A e \in Pairs(x) : q.quadratic[e] \in Int
      /\ q.offset \in Int
  BY <1>1 DEF QuboModel
<1>3. Total(q.linear, x) \in Int /\ Total(q.quadratic, Pairs(x)) \in Int
  BY <1>1, <1>2, TotalInteger
<1>. QED
  BY <1>2, <1>3 DEF energy, Total

-----------------------------------------------------------------------------
(* The order of the masks is total, and brute_force finds an optimum. *)

LEMMA BeforeAt ==
    ASSUME NEW X, IsFiniteSet(X), X \subseteq Int, NEW x \in SUBSET X, NEW y \in SUBSET X
    PROVE  Before(x, y) <=>
              x = y \/ \E m \in y \ x : \A v \in (x \ y) \cup (y \ x) : v <= m
<1> DEFINE d == (x \ y) \cup (y \ x)
<1>1. SymDiff(x, y) = d
  BY DEF SymDiff
<1>2. IsFiniteSet(d) /\ d \subseteq Int
  BY FS_Subset
<1>3. ASSUME x # y PROVE Max(d) \in d /\ \A v \in d : Max(d) >= v
  <2>1. d # {}
    BY <1>3
  <2>. QED
    BY <1>2, <2>1, LeastInteger
<1>4. Before(x, y) <=> x = y \/ Max(d) \in y
  BY <1>1, Zenon DEF Before
<1>5. ASSUME x # y, Max(d) \in y
      PROVE  \E m \in y \ x : \A v \in d : v <= m
  <2>1. Max(d) \in y \ x
    BY <1>3, <1>5
  <2>2. \A v \in d : v <= Max(d)
    BY <1>2, <1>3, <1>5
  <2>. QED
    BY <2>1, <2>2
<1>6. ASSUME x # y, NEW m \in y \ x, \A v \in d : v <= m
      PROVE  Max(d) \in y
  <2>1. Max(d) <= m /\ m <= Max(d) /\ m \in Int /\ Max(d) \in Int
    BY <1>2, <1>3, <1>6
  <2>. QED
    BY <2>1
<1>. QED
  BY <1>4, <1>5, <1>6

LEMMA BeforeOrder ==
    ASSUME NEW X, IsFiniteSet(X), X \subseteq Int
    PROVE  /\ \A x, y \in SUBSET X : Before(x, y) \/ Before(y, x)
           /\ \A x, y, z \in SUBSET X : Before(x, y) /\ Before(y, z) => Before(x, z)
<1>1. \A x, y \in SUBSET X : Before(x, y) <=>
          x = y \/ \E m \in y \ x : \A v \in (x \ y) \cup (y \ x) : v <= m
  BY BeforeAt
<1>2. ASSUME NEW x \in SUBSET X, NEW y \in SUBSET X
      PROVE  Before(x, y) \/ Before(y, x)
  <2> DEFINE d == (x \ y) \cup (y \ x)
  <2>1. CASE x = y
    BY <2>1 DEF Before
  <2>2. CASE x # y
    <3>1. IsFiniteSet(d) /\ d \subseteq Int /\ d # {}
      BY <2>2, FS_Subset
    <3>2. Max(d) \in d /\ \A v \in d : Max(d) >= v
      BY <3>1, LeastInteger
    <3>3. \A v \in d : v <= Max(d)
      BY <3>1, <3>2
    <3>4. CASE Max(d) \in y
      <4>1. Max(d) \in y \ x
        BY <3>2, <3>4
      <4>2. \E m \in y \ x : \A v \in (x \ y) \cup (y \ x) : v <= m
        BY <3>3, <4>1
      <4>. QED
        BY <1>1, <4>2
    <3>5. CASE Max(d) \notin y
      <4>1. Max(d) \in x \ y /\ (y \ x) \cup (x \ y) = d
        BY <3>2, <3>5
      <4>2. \E m \in x \ y : \A v \in (y \ x) \cup (x \ y) : v <= m
        BY <3>3, <4>1
      <4>. QED
        BY <1>1, <4>2
    <3>. QED
      BY <3>4, <3>5
  <2>. QED
    BY <2>1, <2>2
<1>3. ASSUME NEW x \in SUBSET X, NEW y \in SUBSET X, NEW z \in SUBSET X,
             Before(x, y), Before(y, z)
      PROVE  Before(x, z)
  <2>1. CASE x = y \/ y = z
    BY <1>3, <2>1
  <2>2. CASE x # y /\ y # z
    <3>1. PICK m \in y \ x : \A v \in (x \ y) \cup (y \ x) : v <= m
      BY <1>1, <1>3, <2>2
    <3>2. PICK n \in z \ y : \A v \in (y \ z) \cup (z \ y) : v <= n
      BY <1>1, <1>3, <2>2
    <3>3. m \in Int /\ n \in Int /\ m # n /\ \A v \in X : v \in Int
      OBVIOUS
    <3>4. CASE m > n
      <4>1. m \in z \ x
        BY <3>1, <3>2, <3>3, <3>4
      <4>2. \A v \in (x \ z) \cup (z \ x) : v <= m
        BY <3>1, <3>2, <3>3, <3>4
      <4>. QED
        BY <1>1, <4>1, <4>2
    <3>5. CASE n > m
      <4>1. n \in z \ x
        BY <3>1, <3>2, <3>3, <3>5
      <4>2. \A v \in (x \ z) \cup (z \ x) : v <= n
        BY <3>1, <3>2, <3>3, <3>5
      <4>. QED
        BY <1>1, <4>1, <4>2
    <3>. QED
      BY <3>3, <3>4, <3>5
  <2>. QED
    BY <2>1, <2>2
<1>. QED
  BY <1>2, <1>3

LEMMA FirstMask ==
    ASSUME NEW X, IsFiniteSet(X), X \subseteq Int,
           NEW O, O \subseteq SUBSET X, O # {}
    PROVE  \E x \in O : \A y \in O : Before(x, y)
<1> DEFINE good == {s \in SUBSET O : s # {} => \E x \in s : \A y \in s : Before(x, y)}
<1>1. {} \in good
  OBVIOUS
<1>2. ASSUME NEW s \in SUBSET O, NEW x \in s, s \ {x} \in good PROVE s \in good
  <2>1. \A a \in s : Before(a, a)
    BY DEF Before
  <2>2. CASE s \ {x} = {}
    <3>1. \A y \in s : y = x
      BY <2>2
    <3>. QED
      BY <2>1, <3>1
  <2>3. CASE s \ {x} # {}
    <3>1. PICK a \in s \ {x} : \A y \in s \ {x} : Before(a, y)
      BY <1>2, <2>3
    <3>2. x \in SUBSET X /\ a \in SUBSET X /\ \A y \in s : y \in SUBSET X
      OBVIOUS
    <3>3. CASE Before(a, x)
      <4>1. \A y \in s : Before(a, y)
        BY <3>1, <3>3
      <4>. QED
        BY <4>1
    <3>4. CASE Before(x, a)
      <4>1. \A y \in s \ {x} : Before(x, y)
        BY <3>1, <3>2, <3>4, BeforeOrder
      <4>2. \A y \in s : Before(x, y)
        BY <2>1, <4>1
      <4>. QED
        BY <4>2
    <3>. QED
      BY <3>2, <3>3, <3>4, BeforeOrder
  <2>. QED
    BY <2>2, <2>3
<1>3. IsFiniteSet(O)
  BY FS_SUBSET, FS_Subset
<1>4. O \in good
  <2> HIDE DEF good
  <2>. QED
    BY <1>1, <1>2, <1>3, SetInduction
<1>. QED
  BY <1>4

\* The enumeration finds an optimum, and an optimum is what has its energy.
LEMMA BruteOptimal ==
    ASSUME NEW q, QuboModel(q)
    PROVE  /\ brute_force(q) \in Optima(q) /\ brute_force(q) \in SUBSET Variables(q)
           /\ \A x \in SUBSET Variables(q) :
                x \in Optima(q) <=> energy(q, x) = energy(q, brute_force(q))
<1> DEFINE W == Variables(q)
           all == {energy(q, x) : x \in SUBSET W}
<1>1. IsFiniteSet(W) /\ W \subseteq Int /\ \A x \in SUBSET W : energy(q, x) \in Int
  BY VariablesFinite, EnergyInteger
<1>2. IsFiniteSet(all)
  <2>1. IsFiniteSet(SUBSET W)
    BY <1>1, FS_SUBSET
  <2> DEFINE e == [x \in SUBSET W |-> energy(q, x)]
  <2>2. e \in Surjection(SUBSET W, all)
    BY DEF Surjection
  <2>. QED
    BY <2>1, <2>2, FS_Surjection
<1>3. all # {} /\ all \subseteq Int
  BY <1>1
<1>4. Min(all) \in all
  <2> HIDE DEF all
  <2>. QED
    BY <1>2, <1>3, LeastInteger
<1>5. Optima(q) = {x \in SUBSET W : energy(q, x) = Min(all)}
  <2> DEFINE e == [x \in SUBSET W |-> energy(q, x)]
  <2>1. Optima(q) = {x \in DOMAIN e : e[x] = Min({e[y] : y \in DOMAIN e})}
    BY Zenon DEF Optima
  <2>2. DOMAIN e = SUBSET W /\ \A x \in SUBSET W : e[x] = energy(q, x)
    OBVIOUS
  <2> HIDE DEF e
  <2>3. {e[y] : y \in DOMAIN e} = all
    BY <2>2
  <2> HIDE DEF all
  <2>. QED
    BY <2>1, <2>2, <2>3
<1> HIDE DEF all
<1>6. Optima(q) # {}
  BY <1>4, <1>5 DEF all
<1>7. \E x \in Optima(q) : \A y \in Optima(q) : Before(x, y)
  <2>1. Optima(q) \subseteq SUBSET W
    BY <1>5
  <2> HIDE DEF W
  <2>. QED
    BY <1>1, <1>6, <2>1, FirstMask
<1>8. brute_force(q) \in Optima(q)
  BY <1>7, Zenon DEF brute_force
<1>. QED
  BY <1>5, <1>8

(* An Ising model, and what a flip changes. *)

IsingModel(i, W) ==
    /\ i.offset \in Int
    /\ i.h \in [W -> Int]
    /\ i.J \in [Pairs(W) -> Int]

Flipped(s, i) == [s EXCEPT ![i] = -@]

LEMMA FlippedSpins ==
    ASSUME NEW W, NEW s \in [W -> {-1, 1}], NEW i \in W
    PROVE  /\ Flipped(s, i) \in [W -> {-1, 1}]
           /\ Flipped(s, i)[i] = -s[i]
           /\ \A v \in W \ {i} : Flipped(s, i)[v] = s[v]
BY DEF Flipped

Links(m, s, W, v) == [u \in W \ {v} |-> m.J[{u, v}] * s[u]]

LEMMA FieldAt ==
    ASSUME NEW W, IsFiniteSet(W), NEW m, IsingModel(m, W), NEW s \in [W -> {-1, 1}],
           NEW v \in W
    PROVE  /\ local_field(m, s)[v] = 2 * Total(Links(m, s, W, v), W \ {v}) + m.h[v]
           /\ \A u \in W \ {v} : /\ {u, v} \in Pairs(W) /\ m.J[{u, v}] \in Int
                                 /\ Links(m, s, W, v)[u] \in Int
           /\ Total(Links(m, s, W, v), W \ {v}) \in Int
           /\ m.h[v] \in Int /\ local_field(m, s)[v] \in Int
<1> DEFINE f == Links(m, s, W, v)
<1>1. DOMAIN s = W
  OBVIOUS
<1>2. local_field(m, s) = [w \in W |-> 2 * SumFunction(Links(m, s, W, w)) + m.h[w]]
  BY <1>1, Zenon DEF local_field, Links
<1>3. local_field(m, s)[v] = 2 * SumFunction(f) + m.h[v]
  BY <1>2
<1>4. DOMAIN f = W \ {v} /\ \A u \in W \ {v} : f[u] = m.J[{u, v}] * s[u]
  BY DEF Links
<1>5. \A u \in W \ {v} : {u, v} \in Pairs(W)
  BY PairsOf
<1>6. \A u \in W \ {v} : m.J[{u, v}] \in Int /\ s[u] \in {-1, 1}
  BY <1>5 DEF IsingModel
<1>7. \A u \in W \ {v} : f[u] \in Int
  <2>1. ASSUME NEW u \in W \ {v} PROVE f[u] \in Int
    <3>1. s[u] = 1 \/ s[u] = -1
      BY <1>6
    <3>2. f[u] = m.J[{u, v}] * s[u] /\ m.J[{u, v}] \in Int
      BY <1>4, <1>6
    <3>. QED
      BY <3>1, <3>2
  <2>. QED
    BY <2>1
<1>8. IsFiniteSet(W \ {v}) /\ m.h[v] \in Int
  BY FS_Subset DEF IsingModel
<1> HIDE DEF f
<1>9. SumFunction(f) = Total(f, W \ {v})
  BY <1>4, TotalDomain
<1>10. Total(f, W \ {v}) \in Int
  BY <1>7, <1>8, TotalInteger
<1>11. local_field(m, s)[v] = 2 * Total(f, W \ {v}) + m.h[v]
  BY <1>3, <1>9
<1>12. local_field(m, s)[v] \in Int
  BY <1>8, <1>10, <1>11
<1>. QED
  BY <1>5, <1>6, <1>7, <1>8, <1>10, <1>11, <1>12 DEF f

LEMMA FieldInteger ==
    ASSUME NEW W, IsFiniteSet(W), NEW m, IsingModel(m, W), NEW s \in [W -> {-1, 1}]
    PROVE  local_field(m, s) \in [W -> Int]
<1>1. local_field(m, s) = [v \in W |-> local_field(m, s)[v]]
  BY DEF local_field
<1>2. \A v \in W : local_field(m, s)[v] \in Int
  BY FieldAt
<1>. QED
  BY <1>1, <1>2

FieldAfter(m, f, s, i, W) ==
    [v \in W |-> IF v = i THEN f[v] ELSE f[v] + 4 * (-s[i]) * m.J[{v, i}]]

\* fields += 4 s[i] J[i] keeps the local field of every spin.
LEMMA FieldFlip ==
    ASSUME NEW W, IsFiniteSet(W), NEW m, IsingModel(m, W),
           NEW s \in [W -> {-1, 1}], NEW i \in W
    PROVE  local_field(m, Flipped(s, i)) = FieldAfter(m, local_field(m, s), s, i, W)
<1> DEFINE z == Flipped(s, i)
<1>1. z \in [W -> {-1, 1}] /\ z[i] = -s[i] /\ \A v \in W \ {i} : z[v] = s[v]
  BY FlippedSpins
<1> HIDE DEF z
<1>2. local_field(m, z) = [v \in W |-> local_field(m, z)[v]]
  BY <1>1 DEF local_field
<1>3. ASSUME NEW v \in W
      PROVE  local_field(m, z)[v] = IF v = i THEN local_field(m, s)[v]
                           ELSE local_field(m, s)[v] + 4 * (-s[i]) * m.J[{v, i}]
  <2> DEFINE f == Links(m, s, W, v)
             g == Links(m, z, W, v)
             a == Total(f, W \ {v})
             b == Total(g, W \ {v})
  <2>1. local_field(m, s)[v] = 2 * a + m.h[v] /\ local_field(m, z)[v] = 2 * b + m.h[v]
    BY <1>1, FieldAt
  <2>2. a \in Int /\ m.h[v] \in Int /\ \A u \in W \ {v} : f[u] \in Int /\ g[u] \in Int
    BY <1>1, FieldAt
  <2>3. \A u \in W \ {v} : m.J[{u, v}] \in Int
    BY FieldAt
  <2>4. \A u \in W \ {v} : f[u] = m.J[{u, v}] * s[u] /\ g[u] = m.J[{u, v}] * z[u]
    BY DEF Links
  <2> HIDE DEF f, g
  <2>5. IsFiniteSet(W \ {v})
    BY FS_Subset
  <2>6. \A u \in W \ {v} : u # i => g[u] = f[u]
    BY <1>1, <2>4
  <2>7. CASE v = i
    <3>1. \A u \in W \ {v} : f[u] = g[u]
      BY <2>6, <2>7
    <3>2. a = b
      <4> HIDE DEF f, g
      <4>. QED
        BY <2>5, <3>1, TotalEqual
    <3>. QED
      BY <2>1, <2>2, <2>7, <3>2
  <2>8. CASE v # i
    <3> DEFINE c == m.J[{i, v}]
               rest == (W \ {v}) \ {i}
    <3>1. c \in Int /\ s[i] \in {-1, 1} /\ f[i] = c * s[i] /\ g[i] = c * (-s[i])
      <4>1. i \in W \ {v} /\ s[i] \in {-1, 1}
        BY <2>8
      <4>. QED
        BY <1>1, <2>4, <2>3, <4>1
    <3>2. \A u \in rest : f[u] = g[u] /\ f[u] \in Int
      BY <2>2, <2>6
    <3>3. IsFiniteSet(rest) /\ i \in W \ {v}
      BY <2>5, <2>8, FS_Subset
    <3>4. {v, i} = {i, v}
      OBVIOUS
    <3> HIDE DEF f, g, c
    <3>5. a = f[i] + Total(f, rest) /\ b = g[i] + Total(g, rest)
      BY <2>1, <2>2, <2>5, <3>3, TotalRemove
    <3>6. Total(f, rest) = Total(g, rest) /\ Total(f, rest) \in Int
      BY <3>2, <3>3, TotalEqual, TotalInteger
    <3>7. b = a - 2 * (c * s[i]) /\ a \in Int
      BY <3>1, <3>5, <3>6
    <3>8. local_field(m, z)[v] = local_field(m, s)[v] - 4 * (c * s[i])
      BY <2>1, <2>2, <3>1, <3>7
    <3>9. m.J[{v, i}] = c
      BY <3>4, Zenon DEF c
    <3>10. local_field(m, s)[v] \in Int
      BY <2>1, <2>2
    <3>11. 4 * (-s[i]) * m.J[{v, i}] = -(4 * (c * s[i]))
      BY <3>1, <3>9
    <3>. QED
      BY <2>8, <3>1, <3>8, <3>10, <3>11
  <2>. QED
    BY <2>7, <2>8
<1>. QED
  BY <1>2, <1>3 DEF z, FieldAfter

\* The term of a pair of spins.
Edge(m, s, u, v) == 2 * m.J[{u, v}] * (s[u] * s[v])

EdgeTerms(m, s) == [e \in DOMAIN m.J |-> 2 * m.J[e] * Product(s, e)]
SpinTerms(m, s) == [v \in DOMAIN s |-> m.h[v] * s[v]]

LEMMA SpinEnergyParts ==
    ASSUME NEW W, IsFiniteSet(W), NEW m, IsingModel(m, W), NEW s \in [W -> {-1, 1}]
    PROVE  /\ energy_spin(m, s) =
                Total(EdgeTerms(m, s), Pairs(W)) + Total(SpinTerms(m, s), W) + m.offset
           /\ \A u, v \in W : u # v =>
                /\ {u, v} \in Pairs(W)
                /\ EdgeTerms(m, s)[{u, v}] = Edge(m, s, u, v)
                /\ EdgeTerms(m, s)[{u, v}] \in Int /\ m.J[{u, v}] \in Int
           /\ \A e \in Pairs(W) : EdgeTerms(m, s)[e] \in Int
           /\ \A v \in W : SpinTerms(m, s)[v] = m.h[v] * s[v] /\ SpinTerms(m, s)[v] \in Int
           /\ Total(EdgeTerms(m, s), Pairs(W)) \in Int
           /\ Total(SpinTerms(m, s), W) \in Int /\ m.offset \in Int
<1>1. DOMAIN m.J = Pairs(W) /\ DOMAIN s = W /\ m.offset \in Int
  BY DEF IsingModel
<1>2. /\ DOMAIN EdgeTerms(m, s) = Pairs(W) /\ DOMAIN SpinTerms(m, s) = W
      /\ \A e \in Pairs(W) : EdgeTerms(m, s)[e] = 2 * m.J[e] * Product(s, e)
      /\ \A v \in W : SpinTerms(m, s)[v] = m.h[v] * s[v]
  BY <1>1 DEF EdgeTerms, SpinTerms
<1>3. energy_spin(m, s) =
         SumFunction(EdgeTerms(m, s)) + SumFunction(SpinTerms(m, s)) + m.offset
  BY Zenon DEF energy_spin, EdgeTerms, SpinTerms
<1>4. energy_spin(m, s) =
         Total(EdgeTerms(m, s), Pairs(W)) + Total(SpinTerms(m, s), W) + m.offset
  BY <1>2, <1>3, TotalDomain, Zenon
<1>5. \A e : e \in Pairs(W) <=> \E u, v \in W : u # v /\ e = {u, v}
  BY PairsOf
<1>6. ASSUME NEW u \in W, NEW v \in W, u # v
      PROVE  /\ {u, v} \in Pairs(W)
             /\ EdgeTerms(m, s)[{u, v}] = Edge(m, s, u, v)
             /\ EdgeTerms(m, s)[{u, v}] \in Int /\ m.J[{u, v}] \in Int
  <2>1. {u, v} \in Pairs(W)
    BY <1>5, <1>6
  <2>2. m.J[{u, v}] \in Int
    BY <2>1 DEF IsingModel
  <2>3. s[u] \in {-1, 1} /\ s[v] \in {-1, 1}
    OBVIOUS
  <2>4. Product(s, {u, v}) = s[u] * s[v]
    BY <2>3, ProductOf
  <2>5. EdgeTerms(m, s)[{u, v}] = 2 * m.J[{u, v}] * (s[u] * s[v])
    BY <1>2, <2>1, <2>4
  <2>. QED
    BY <2>1, <2>2, <2>3, <2>5 DEF Edge
<1>7. \A e \in Pairs(W) : EdgeTerms(m, s)[e] \in Int
  <2>1. ASSUME NEW e \in Pairs(W) PROVE EdgeTerms(m, s)[e] \in Int
    <3>1. PICK u \in W, v \in W : u # v /\ e = {u, v}
      BY <1>5
    <3>. QED
      BY <1>6, <3>1
  <2>. QED
    BY <2>1
<1>8. \A v \in W : SpinTerms(m, s)[v] \in Int
  <2>1. \A v \in W : m.h[v] \in Int /\ s[v] \in {-1, 1}
    BY DEF IsingModel
  <2>. QED
    BY <1>2, <2>1
<1>9. IsFiniteSet(Pairs(W))
  BY PairsOf
<1>10. Total(EdgeTerms(m, s), Pairs(W)) \in Int /\ Total(SpinTerms(m, s), W) \in Int
  BY <1>7, <1>8, <1>9, TotalInteger
<1>. QED
  BY <1>1, <1>2, <1>4, <1>6, <1>7, <1>8, <1>10

\* A flip of spin i changes the energy by -2 s[i] field[i].
LEMMA EnergyFlip ==
    ASSUME NEW W, IsFiniteSet(W), NEW m, IsingModel(m, W),
           NEW s \in [W -> {-1, 1}], NEW i \in W
    PROVE  energy_spin(m, Flipped(s, i)) = energy_spin(m, s) - 2 * s[i] * local_field(m, s)[i]
<1> DEFINE z == Flipped(s, i)
           touch == {e \in Pairs(W) : i \in e}
           away == Pairs(W) \ touch
           link == Links(m, s, W, i)
           t == Total(link, W \ {i})
           f == EdgeTerms(m, s)
           g == EdgeTerms(m, z)
           a == SpinTerms(m, s)
           b == SpinTerms(m, z)
<1>1. z \in [W -> {-1, 1}] /\ z[i] = -s[i] /\ \A v \in W \ {i} : z[v] = s[v]
  BY FlippedSpins
<1> HIDE DEF z
<1>2. s[i] \in {-1, 1} /\ s[i] \in Int /\ m.h[i] \in Int
  BY DEF IsingModel
<1>3. IsFiniteSet(W \ {i}) /\ IsFiniteSet(Pairs(W)) /\ IsFiniteSet(touch) /\ IsFiniteSet(away)
  BY PairsOf, FS_Subset
<1>4. \A e : e \in Pairs(W) <=> \E u, v \in W : u # v /\ e = {u, v}
  BY PairsOf
<1>5. \A u \in W \ {i} : /\ {u, i} \in Pairs(W) /\ m.J[{u, i}] \in Int
                         /\ f[{u, i}] = Edge(m, s, u, i) /\ g[{u, i}] = Edge(m, z, u, i)
                         /\ f[{u, i}] \in Int
  <2>1. \A u, v \in W : u # v =>
          /\ {u, v} \in Pairs(W) /\ m.J[{u, v}] \in Int
          /\ f[{u, v}] = Edge(m, s, u, v) /\ f[{u, v}] \in Int
    BY SpinEnergyParts
  <2>2. \A u, v \in W : u # v => g[{u, v}] = Edge(m, z, u, v)
    BY <1>1, SpinEnergyParts
  <2>. QED
    BY <2>1, <2>2
<1>6. ASSUME NEW u \in W \ {i}
      PROVE  /\ link[u] \in Int
             /\ f[{u, i}] = (2 * s[i]) * link[u]
             /\ g[{u, i}] = -f[{u, i}]
  <2> DEFINE c == m.J[{u, i}]
  <2>1. link[u] = c * s[u] /\ c \in Int /\ link[u] \in Int
    BY FieldAt DEF Links
  <2>2. f[{u, i}] = 2 * c * (s[u] * s[i]) /\ g[{u, i}] = 2 * c * (s[u] * (-s[i]))
    BY <1>1, <1>5 DEF Edge
  <2> HIDE DEF c, link, f, g
  <2>3. \A x, y \in {-1, 1} : /\ 2 * c * (x * y) = (2 * y) * (c * x)
                              /\ 2 * c * (x * (-y)) = -(2 * c * (x * y))
    BY <2>1
  <2>4. s[u] \in {-1, 1}
    OBVIOUS
  <2>. QED
    BY <1>2, <2>1, <2>2, <2>3, <2>4
<1>7. ASSUME NEW e \in touch PROVE \E u \in W \ {i} : e = {u, i}
  <2>1. PICK u \in W, v \in W : u # v /\ e = {u, v}
    BY <1>4
  <2>. QED
    BY <2>1
<1>8. Total(f, touch) = (2 * s[i]) * t
  <2> DEFINE edge == [u \in W \ {i} |-> {u, i}]
             h == [u \in W \ {i} |-> (2 * s[i]) * link[u]]
  <2>1. touch = {edge[u] : u \in W \ {i}}
    BY <1>5, <1>7
  <2>2. \A u, v \in W \ {i} : edge[u] = edge[v] => u = v
    OBVIOUS
  <2>3. \A u \in W \ {i} : h[u] \in Int /\ f[edge[u]] = h[u]
    BY <1>2, <1>6
  <2>4. \A u \in W \ {i} : link[u] \in Int /\ h[u] = (2 * s[i]) * link[u]
    BY <1>6
  <2>5. 2 * s[i] \in Int
    BY <1>2
  <2> HIDE DEF edge, h, f, link, touch
  <2>6. Total(f, touch) = Total(h, W \ {i})
    BY <1>3, <2>1, <2>2, <2>3, TotalImage
  <2>7. Total(h, W \ {i}) = (2 * s[i]) * t
    BY <1>3, <2>4, <2>5, TotalTimes
  <2>. QED
    BY <2>6, <2>7
<1>9. Total(g, touch) = -Total(f, touch)
  <2> DEFINE c == -1
  <2>1. \A e \in touch : f[e] \in Int /\ g[e] = c * f[e]
    <3>1. ASSUME NEW e \in touch PROVE f[e] \in Int /\ g[e] = c * f[e]
      <4>1. PICK u \in W \ {i} : e = {u, i}
        BY <1>7
      <4>2. f[e] \in Int /\ g[e] = -f[e]
        BY <1>5, <1>6, <4>1
      <4>. QED
        BY <4>2
    <3>. QED
      BY <3>1
  <2>2. c \in Int
    OBVIOUS
  <2> HIDE DEF f, g, touch, c
  <2>3. Total(g, touch) = c * Total(f, touch)
    BY <1>3, <2>1, <2>2, TotalTimes
  <2>4. Total(f, touch) \in Int
    BY <1>3, <2>1, TotalInteger
  <2>. QED
    BY <2>3, <2>4 DEF c
<1>10. Total(g, away) = Total(f, away)
  <2>1. ASSUME NEW e \in away PROVE g[e] = f[e]
    <3>1. PICK u \in W, v \in W : u # v /\ e = {u, v}
      BY <1>4
    <3>2. u # i /\ v # i
      BY <3>1
    <3>3. z[u] = s[u] /\ z[v] = s[v]
      BY <1>1, <3>2
    <3>4. f[e] = Edge(m, s, u, v) /\ g[e] = Edge(m, z, u, v)
      BY <1>1, <3>1, SpinEnergyParts
    <3>. QED
      BY <3>3, <3>4 DEF Edge
  <2> HIDE DEF f, g, away
  <2>. QED
    BY <1>3, <2>1, TotalEqual
<1>11. /\ \A e \in Pairs(W) : f[e] \in Int /\ g[e] \in Int
       /\ touch \subseteq Pairs(W)
  BY <1>1, SpinEnergyParts
<1>12. t \in Int
  <2>1. \A u \in W \ {i} : link[u] \in Int
    BY <1>6
  <2> HIDE DEF link
  <2>. QED
    BY <1>3, <2>1, TotalInteger
<1>13. Total(g, Pairs(W)) = Total(f, Pairs(W)) - 2 * ((2 * s[i]) * t)
  <2> HIDE DEF f, g, touch
  <2>1. /\ Total(f, Pairs(W)) = Total(f, touch) + Total(f, away)
        /\ Total(g, Pairs(W)) = Total(g, touch) + Total(g, away)
    BY <1>3, <1>11, TotalParts
  <2>2. Total(f, touch) \in Int /\ Total(f, away) \in Int
    BY <1>3, <1>11, TotalInteger
  <2> HIDE DEF away, t
  <2>. QED
    BY <1>2, <1>8, <1>9, <1>10, <1>12, <2>1, <2>2
<1>14. Total(b, W) = Total(a, W) - 2 * (m.h[i] * s[i])
  <2>1. \A v \in W : /\ a[v] = m.h[v] * s[v] /\ b[v] = m.h[v] * z[v]
                     /\ a[v] \in Int /\ b[v] \in Int
    BY <1>1, SpinEnergyParts
  <2>2. \A v \in W \ {i} : a[v] = b[v]
    BY <1>1, <2>1
  <2> HIDE DEF a, b
  <2>3. Total(a, W) = a[i] + Total(a, W \ {i}) /\ Total(b, W) = b[i] + Total(b, W \ {i})
    BY <2>1, TotalRemove
  <2>4. Total(a, W \ {i}) = Total(b, W \ {i}) /\ Total(a, W \ {i}) \in Int
    BY <1>3, <2>1, <2>2, TotalEqual, TotalInteger
  <2>5. a[i] = m.h[i] * s[i] /\ b[i] = -(m.h[i] * s[i]) /\ m.h[i] * s[i] \in Int
    BY <1>1, <1>2, <2>1
  <2>. QED
    BY <2>3, <2>4, <2>5
<1>15. local_field(m, s)[i] = 2 * t + m.h[i]
  BY FieldAt
<1>16. /\ energy_spin(m, s) = Total(f, Pairs(W)) + Total(a, W) + m.offset
       /\ energy_spin(m, z) = Total(g, Pairs(W)) + Total(b, W) + m.offset
       /\ Total(f, Pairs(W)) \in Int /\ Total(a, W) \in Int /\ m.offset \in Int
  BY <1>1, SpinEnergyParts
<1> HIDE DEF f, g, a, b, t
<1>17. 2 * s[i] * (2 * t + m.h[i]) = 2 * ((2 * s[i]) * t) + 2 * (m.h[i] * s[i])
  BY <1>2, <1>12
<1>18. 2 * ((2 * s[i]) * t) \in Int /\ 2 * (m.h[i] * s[i]) \in Int
  BY <1>2, <1>12
<1>19. energy_spin(m, z) = energy_spin(m, s) - 2 * s[i] * (2 * t + m.h[i])
  BY <1>13, <1>14, <1>16, <1>17, <1>18
<1>. QED
  BY <1>15, <1>19 DEF z

(* to_ising: the spins have eight times the energy of their bits. *)

LEMMA TwoTerms ==
    ASSUME NEW f, NEW u, NEW v, u # v, f[u] \in Int, f[v] \in Int
    PROVE  IsFiniteSet({u, v}) /\ Total(f, {u, v}) = f[u] + f[v]
<1>1. {u, v} = {u} \cup {v} /\ {u, v} \ {u} = {v} /\ {v} \ {v} = {}
  OBVIOUS
<1>2. IsFiniteSet({u}) /\ IsFiniteSet({v})
  BY FS_Singleton
<1>3. IsFiniteSet({u} \cup {v})
  BY <1>2, FS_Union
<1>4. IsFiniteSet({u, v})
  BY <1>1, <1>3, Zenon
<1>5. \A w \in {u, v} : f[w] \in Int
  OBVIOUS
<1>6. Total(f, {u, v}) = f[u] + Total(f, {v})
  <2>1. Total(f, {u, v}) = f[u] + Total(f, {u, v} \ {u})
    BY <1>4, <1>5, TotalRemove
  <2>. QED
    BY <1>1, <2>1
<1>7. Total(f, {v}) = f[v]
  <2>1. Total(f, {v}) = f[v] + Total(f, {v} \ {v})
    BY <1>2, <1>5, TotalRemove
  <2>2. Total(f, {v} \ {v}) = 0
    BY <1>1, TotalEmpty
  <2>. QED
    BY <1>5, <2>1, <2>2
<1>. QED
  BY <1>4, <1>6, <1>7

\* The pairs of F that v belongs to.
At(F, v) == {e \in F : v \in e}

LEMMA FromQubo ==
    ASSUME NEW q, QuboModel(q)
    PROVE  /\ IsingModel(from_qubo(q), Variables(q))
           /\ from_qubo(q).J = q.quadratic
           /\ \A v \in Variables(q) : from_qubo(q).h[v] =
                4 * q.linear[v] + 2 * Total(q.quadratic, At(Pairs(Variables(q)), v))
           /\ from_qubo(q).offset = 8 * q.offset + 4 * Total(q.linear, Variables(q))
                                        + 2 * Total(q.quadratic, Pairs(Variables(q)))
<1> DEFINE W == Variables(q)
           l == q.linear
           j == q.quadratic
           m == from_qubo(q)
<1>1. /\ DOMAIN l = W /\ DOMAIN j = Pairs(W) /\ q.offset \in Int
      /\ \A v \in W : l[v] \in Int
      /\ \A e \in Pairs(W) : j[e] \in Int
      /\ j \in [Pairs(W) -> Int]
  BY DEF QuboModel
<1>2. IsFiniteSet(W) /\ IsFiniteSet(Pairs(W))
  BY VariablesFinite
<1>3. m = [h |-> [v \in W |-> 4 * l[v] + 2 * Total(j, At(DOMAIN j, v))],
           J |-> j,
           offset |-> 8 * q.offset + 4 * SumFunction(l) + 2 * SumFunction(j)]
  BY Zenon DEF from_qubo, Total, At
<1>4. SumFunction(l) = Total(l, W) /\ SumFunction(j) = Total(j, Pairs(W))
  BY <1>1, TotalDomain
<1>5. Total(l, W) \in Int /\ Total(j, Pairs(W)) \in Int
  BY <1>1, <1>2, TotalInteger
<1>6. \A v \in W : Total(j, At(DOMAIN j, v)) \in Int
  <2>1. ASSUME NEW v \in W PROVE Total(j, At(DOMAIN j, v)) \in Int
    <3>1. At(DOMAIN j, v) \subseteq Pairs(W)
      BY <1>1 DEF At
    <3>2. IsFiniteSet(At(DOMAIN j, v))
      BY <1>2, <3>1, FS_Subset
    <3>3. \A e \in At(DOMAIN j, v) : j[e] \in Int
      BY <1>1, <3>1
    <3>. QED
      BY <3>2, <3>3, TotalInteger
  <2>. QED
    BY <2>1
<1> HIDE DEF W, l, j, m
<1>7. m.offset = 8 * q.offset + 4 * Total(l, W) + 2 * Total(j, Pairs(W)) /\ m.J = j
  BY <1>3, <1>4
<1>8. m.h = [v \in W |-> 4 * l[v] + 2 * Total(j, At(DOMAIN j, v))]
  BY <1>3
<1>9. m.h \in [W -> Int]
  BY <1>1, <1>6, <1>8
<1>10. \A v \in W : m.h[v] = 4 * l[v] + 2 * Total(j, At(Pairs(W), v))
  BY <1>1, <1>8
<1>11. IsingModel(m, W)
  BY <1>1, <1>5, <1>7, <1>9 DEF IsingModel
<1>. QED
  BY <1>7, <1>10, <1>11 DEF W, l, j, m

\* Adding up by variables and by pairs.
LEMMA ByPairs ==
    ASSUME NEW W, IsFiniteSet(W), NEW F, IsFiniteSet(F), F \subseteq SUBSET W,
           NEW j, \A e \in F : j[e] \in Int, NEW s \in [W -> {-1, 1}]
    PROVE  Total([v \in W |-> s[v] * Total(j, At(F, v))], W) =
              Total([e \in F |-> j[e] * Total(s, e)], F)
<1> DEFINE A(X) == [v \in W |-> s[v] * Total(j, At(X, v))]
           b == [e \in F |-> j[e] * Total(s, e)]
           good == {X \in SUBSET F : Total(A(X), W) = Total(b, X)}
<1>1. \A v \in W : s[v] \in {-1, 1}
  OBVIOUS
<1>2. ASSUME NEW X \in SUBSET F, NEW v \in W
      PROVE  IsFiniteSet(At(X, v)) /\ Total(j, At(X, v)) \in Int
  <2>1. At(X, v) \subseteq F
    BY DEF At
  <2>2. IsFiniteSet(At(X, v)) /\ \A e \in At(X, v) : j[e] \in Int
    BY <2>1, FS_Subset
  <2>. QED
    BY <2>2, TotalInteger
<1>3. ASSUME NEW e \in F PROVE IsFiniteSet(e) /\ Total(s, e) \in Int /\ b[e] = j[e] * Total(s, e)
                                 /\ b[e] \in Int
  <2>1. IsFiniteSet(e) /\ \A v \in e : s[v] \in Int
    BY <1>1, FS_Subset
  <2>2. Total(s, e) \in Int
    BY <2>1, TotalInteger
  <2>. QED
    BY <2>1, <2>2
<1>4. {} \in good
  <2>1. ASSUME NEW v \in W PROVE A({})[v] = 0
    <3>1. At({}, v) = {}
      BY DEF At
    <3>2. Total(j, At({}, v)) = 0
      BY <3>1, TotalEmpty
    <3>. QED
      BY <1>1, <3>2
  <2>2. Total(A({}), W) = 0
    <3> DEFINE f == A({})
    <3>1. \A v \in W : f[v] = 0
      BY <2>1
    <3> HIDE DEF f
    <3>2. Total(f, W) = 0
      BY <3>1, TotalZero
    <3>. QED
      BY <3>2 DEF f
  <2>3. Total(b, {}) = 0
    BY TotalEmpty
  <2>. QED
    BY <2>2, <2>3
<1>5. ASSUME NEW X \in SUBSET F, NEW x \in X, X \ {x} \in good PROVE X \in good
  <2> DEFINE r == X \ {x}
             c == j[x]
             d == [v \in W |-> IF v \in x THEN c * s[v] ELSE 0]
             e == [v \in x |-> c * s[v]]
             f == A(X)
             g == A(r)
  <2>1. c \in Int /\ x \subseteq W /\ IsFiniteSet(x) /\ r \in SUBSET F /\ IsFiniteSet(X)
    BY <1>3, FS_Subset
  <2>2. ASSUME NEW v \in W PROVE g[v] \in Int /\ d[v] \in Int /\ f[v] = g[v] + d[v]
    <3>1. At(X, v) \ {x} = At(r, v) /\ (v \notin x => At(X, v) = At(r, v))
                                    /\ (v \in x => x \in At(X, v))
      BY DEF At
    <3>2. \A z \in At(X, v) : j[z] \in Int
      BY DEF At
    <3>3. f[v] = s[v] * Total(j, At(X, v)) /\ g[v] = s[v] * Total(j, At(r, v))
      OBVIOUS
    <3>4. d[v] = IF v \in x THEN c * s[v] ELSE 0
      OBVIOUS
    <3>5. Total(j, At(r, v)) \in Int /\ IsFiniteSet(At(X, v))
      BY <1>2, <2>1
    <3> DEFINE t == Total(j, At(r, v))
               p == At(X, v)
    <3>6. CASE v \in x
      <4>1. Total(j, p) = j[x] + Total(j, p \ {x})
        BY <3>1, <3>2, <3>5, <3>6, TotalRemove
      <4>2. Total(j, p) = c + t
        BY <3>1, <4>1
      <4> HIDE DEF c, t, f, g, d, r
      <4>3. s[v] = 1 \/ s[v] = -1
        BY <1>1
      <4>4. f[v] = s[v] * (c + t) /\ g[v] = s[v] * t /\ d[v] = c * s[v] /\ t \in Int
        BY <3>3, <3>4, <3>5, <3>6, <4>2 DEF t
      <4>. QED
        BY <2>1, <4>3, <4>4
    <3>7. CASE v \notin x
      <4> HIDE DEF f, g, d, r
      <4>1. f[v] = s[v] * t /\ g[v] = s[v] * t /\ d[v] = 0
        BY <3>1, <3>3, <3>4, <3>7
      <4> HIDE DEF t
      <4>2. t \in Int /\ (s[v] = 1 \/ s[v] = -1)
        BY <1>1, <3>5 DEF t
      <4>. QED
        BY <4>1, <4>2
    <3>. QED
      BY <3>6, <3>7
  <2>3. Total(f, W) = Total(g, W) + Total(d, W)
    <3> HIDE DEF f, g, d
    <3>. QED
      BY <2>2, TotalPlus
  <2>4. Total(d, W) = Total(e, x)
    <3>1. \A v \in x : d[v] = e[v] /\ d[v] \in Int
      BY <2>1, <2>2
    <3>2. \A v \in W \ x : d[v] = 0
      OBVIOUS
    <3> HIDE DEF d, e
    <3>. QED
      BY <2>1, <3>1, <3>2, TotalOnly
  <2>5. Total(e, x) = c * Total(s, x)
    <3>1. \A v \in x : s[v] \in Int /\ e[v] = c * s[v]
      BY <1>1, <2>1
    <3> HIDE DEF e, c
    <3>. QED
      BY <2>1, <3>1, TotalTimes
  <2>6. Total(b, X) = b[x] + Total(b, r) /\ b[x] = c * Total(s, x) /\ b[x] \in Int
    <3>1. b[x] = c * Total(s, x) /\ b[x] \in Int
      BY <1>3
    <3>2. \A z \in X : b[z] \in Int
      BY <1>3
    <3> HIDE DEF b, c
    <3>3. Total(b, X) = b[x] + Total(b, r)
      BY <2>1, <3>2, TotalRemove
    <3>. QED
      BY <3>1, <3>3
  <2>7. Total(g, W) = Total(b, r)
    BY <1>5
  <2>8. Total(b, r) \in Int
    <3>1. IsFiniteSet(r) /\ \A z \in r : b[z] \in Int
      BY <1>3, <2>1, FS_Subset
    <3> HIDE DEF b, r
    <3>. QED
      BY <3>1, TotalInteger
  <2>9. Total(f, W) = Total(b, X)
    <3> HIDE DEF f, g, b, d, e, r, c
    <3>. QED
      BY <2>3, <2>4, <2>5, <2>6, <2>7, <2>8
  <2>. QED
    BY <2>9
<1>6. F \in good
  <2> HIDE DEF good
  <2>. QED
    BY <1>4, <1>5, SetInduction
<1>. QED
  BY <1>6

LEMMA SpinEnergy ==
    ASSUME NEW q, QuboModel(q), NEW s \in Spins(q)
    PROVE  /\ bits(s) \in SUBSET Variables(q)
           /\ energy_spin(from_qubo(q), s) = 8 * energy(q, bits(s))
<1> DEFINE W == Variables(q)
           l == q.linear
           j == q.quadratic
           m == from_qubo(q)
           on == bits(s)
           around(v) == Total(j, At(Pairs(W), v))
<1>1. s \in [W -> {-1, 1}]
  BY DEF Spins
<1>2. /\ on \in SUBSET W /\ DOMAIN s = W
      /\ \A v \in W : s[v] = IF v \in on THEN 1 ELSE -1
  BY <1>1 DEF bits
<1>3. /\ \A v \in W : l[v] \in Int
      /\ \A e \in Pairs(W) : j[e] \in Int
      /\ q.offset \in Int
  BY DEF QuboModel
<1>4. /\ IsFiniteSet(W) /\ IsFiniteSet(Pairs(W)) /\ IsFiniteSet(on)
      /\ Pairs(on) = {e \in Pairs(W) : e \subseteq on}
  BY <1>2, VariablesFinite, FS_Subset, PairsWithin
<1>5. /\ IsingModel(m, W) /\ m.J = j
      /\ \A v \in W : m.h[v] = 4 * l[v] + 2 * around(v)
      /\ m.offset = 8 * q.offset + 4 * Total(l, W) + 2 * Total(j, Pairs(W))
  BY FromQubo
<1>6. \A v \in W : around(v) \in Int
  <2>1. ASSUME NEW v \in W PROVE around(v) \in Int
    <3>1. At(Pairs(W), v) \subseteq Pairs(W)
      BY DEF At
    <3>2. IsFiniteSet(At(Pairs(W), v)) /\ \A e \in At(Pairs(W), v) : j[e] \in Int
      BY <1>3, <1>4, <3>1, FS_Subset
    <3>. QED
      BY <3>2, TotalInteger
  <2>. QED
    BY <2>1
<1> DEFINE f == EdgeTerms(m, s)
           a == SpinTerms(m, s)
           own == [v \in W |-> 4 * (l[v] * s[v])]
           met == [v \in W |-> s[v] * around(v)]
           paired == [e \in Pairs(W) |-> j[e] * Total(s, e)]
<1>7. /\ energy_spin(m, s) = Total(f, Pairs(W)) + Total(a, W) + m.offset
      /\ \A e \in Pairs(W) : f[e] \in Int
      /\ \A v \in W : a[v] = m.h[v] * s[v] /\ a[v] \in Int
      /\ Total(f, Pairs(W)) \in Int
  BY <1>1, <1>4, <1>5, SpinEnergyParts
<1>8. /\ \A v \in W : own[v] \in Int /\ met[v] \in Int /\ a[v] = own[v] + 2 * met[v]
  <2>1. ASSUME NEW v \in W
        PROVE  own[v] \in Int /\ met[v] \in Int /\ a[v] = own[v] + 2 * met[v]
    <3> DEFINE t == around(v)
    <3>1. t \in Int /\ l[v] \in Int /\ m.h[v] = 4 * l[v] + 2 * t
      BY <1>3, <1>5, <1>6
    <3>2. own[v] = 4 * (l[v] * s[v]) /\ met[v] = s[v] * t /\ a[v] = m.h[v] * s[v]
      BY <1>7
    <3>3. s[v] = 1 \/ s[v] = -1
      BY <1>2
    <3> HIDE DEF t, own, met, a, l, m
    <3>4. CASE s[v] = 1
      BY <3>1, <3>2, <3>4
    <3>5. CASE s[v] = -1
      BY <3>1, <3>2, <3>5
    <3>. QED
      BY <3>3, <3>4, <3>5
  <2>. QED
    BY <2>1
<1>9. /\ Total(a, W) = Total(own, W) + 2 * Total(met, W)
      /\ Total(own, W) \in Int /\ Total(met, W) \in Int
  <2> DEFINE twice == [v \in W |-> 2 * met[v]]
  <2>1. \A v \in W : /\ own[v] \in Int /\ twice[v] \in Int /\ a[v] = own[v] + twice[v]
                     /\ met[v] \in Int /\ twice[v] = 2 * met[v]
    BY <1>8
  <2> HIDE DEF a, own, met, twice, W
  <2>2. Total(a, W) = Total(own, W) + Total(twice, W)
    BY <1>4, <2>1, TotalPlus
  <2>3. Total(twice, W) = 2 * Total(met, W)
    BY <1>4, <2>1, TotalTimes
  <2>4. Total(own, W) \in Int /\ Total(met, W) \in Int
    BY <1>4, <2>1, TotalInteger
  <2>. QED
    BY <2>2, <2>3, <2>4
<1>10. Total(met, W) = Total(paired, Pairs(W))
  <2>1. Pairs(W) \subseteq SUBSET W
    BY <1>4, PairsOf
  <2>. QED
    BY <1>1, <1>3, <1>4, <2>1, ByPairs
<1>11. 4 * Total(l, W) + Total(own, W) = 8 * Total(l, on)
         /\ Total(l, W) \in Int /\ Total(l, on) \in Int
  <2> DEFINE four == [v \in W |-> 4 * l[v]]
             both == [v \in W |-> IF v \in on THEN 8 * l[v] ELSE 0]
             eight == [v \in on |-> 8 * l[v]]
  <2>1. ASSUME NEW v \in W
        PROVE  /\ four[v] = 4 * l[v] /\ four[v] \in Int /\ own[v] \in Int
               /\ both[v] = four[v] + own[v] /\ both[v] \in Int
    <3>1. l[v] \in Int /\ own[v] = 4 * (l[v] * s[v])
      BY <1>3
    <3> HIDE DEF own, l
    <3>2. CASE v \in on
      BY <1>2, <3>1, <3>2
    <3>3. CASE v \notin on
      BY <1>2, <3>1, <3>3
    <3>. QED
      BY <3>2, <3>3
  <2>2. \A v \in on : v \in W /\ both[v] = eight[v] /\ eight[v] = 8 * l[v] /\ l[v] \in Int
    BY <1>2, <1>3
  <2>3. \A v \in W \ on : both[v] = 0
    OBVIOUS
  <2> HIDE DEF four, both, eight, own, l, W, on
  <2>4. Total(both, W) = Total(four, W) + Total(own, W)
    BY <1>4, <2>1, TotalPlus
  <2>5. Total(four, W) = 4 * Total(l, W)
    BY <1>3, <1>4, <2>1, TotalTimes
  <2>6. Total(both, W) = Total(eight, on)
    <3>1. on \subseteq W /\ \A v \in on : both[v] = eight[v] /\ both[v] \in Int
      BY <1>2, <2>1, <2>2
    <3>2. IsFiniteSet(W) /\ \A v \in W \ on : both[v] = 0
      BY <1>4, <2>3
    <3>. QED
      BY <3>1, <3>2, TotalOnly
  <2>7. Total(eight, on) = 8 * Total(l, on)
    <3> DEFINE c == 8
    <3>1. c \in Int /\ c = 8
      OBVIOUS
    <3> HIDE DEF c
    <3>2. IsFiniteSet(on) /\ \A v \in on : l[v] \in Int /\ eight[v] = c * l[v]
      BY <1>4, <2>2, <3>1
    <3>3. Total(eight, on) = c * Total(l, on)
      BY <3>1, <3>2, TotalTimes
    <3>. QED
      BY <3>1, <3>3
  <2>8. Total(l, W) \in Int /\ Total(l, on) \in Int
    BY <1>3, <1>4, <2>2, TotalInteger
  <2>. QED
    BY <2>4, <2>5, <2>6, <2>7, <2>8
<1>12. Total(f, Pairs(W)) + 2 * Total(paired, Pairs(W)) + 2 * Total(j, Pairs(W))
          = 8 * Total(j, Pairs(on))
         /\ Total(j, Pairs(W)) \in Int /\ Total(j, Pairs(on)) \in Int
         /\ Total(paired, Pairs(W)) \in Int
  <2> DEFINE X == Pairs(W)
             two == [e \in X |-> 2 * paired[e] + 2 * j[e]]
             once == [e \in X |-> paired[e] + j[e]]
             all == [e \in X |-> IF e \subseteq on THEN 8 * j[e] ELSE 0]
             eight == [e \in Pairs(on) |-> 8 * j[e]]
  <2>1. ASSUME NEW e \in X
        PROVE  /\ paired[e] \in Int /\ j[e] \in Int /\ f[e] \in Int
               /\ all[e] = f[e] + two[e] /\ all[e] \in Int
               /\ two[e] \in Int /\ two[e] = 2 * once[e]
               /\ once[e] \in Int /\ once[e] = paired[e] + j[e]
    <3>1. PICK u \in W, v \in W : u # v /\ e = {u, v}
      BY <1>4, PairsOf
    <3>2. s[u] \in {-1, 1} /\ s[v] \in {-1, 1} /\ j[e] \in Int
      BY <1>2, <1>3
    <3>3. Total(s, e) = s[u] + s[v]
      <4>1. s[u] \in Int /\ s[v] \in Int
        BY <3>2
      <4>. QED
        BY <3>1, <4>1, TwoTerms
    <3>4. f[e] = Edge(m, s, u, v) /\ f[e] \in Int
      BY <1>1, <1>4, <1>5, <3>1, SpinEnergyParts
    <3>5. f[e] = 2 * j[e] * (s[u] * s[v])
      BY <1>5, <3>1, <3>4 DEF Edge
    <3>6. paired[e] = j[e] * (s[u] + s[v])
      BY <3>3
    <3>7. /\ all[e] = (IF u \in on /\ v \in on THEN 8 * j[e] ELSE 0)
          /\ two[e] = 2 * paired[e] + 2 * j[e] /\ once[e] = paired[e] + j[e]
      BY <3>1
    <3>8. /\ s[u] = (IF u \in on THEN 1 ELSE -1)
          /\ s[v] = (IF v \in on THEN 1 ELSE -1)
      BY <1>2
    <3> HIDE DEF j, f, paired, all, two, once
    <3>9. CASE u \in on /\ v \in on
      <4>1. s[u] = 1 /\ s[v] = 1
        BY <3>8, <3>9
      <4>2. f[e] = 2 * j[e] /\ paired[e] = 2 * j[e]
        BY <3>2, <3>5, <3>6, <4>1
      <4>. QED
        BY <3>2, <3>7, <3>9, <4>2
    <3>10. CASE u \in on /\ v \notin on
      <4>1. s[u] = 1 /\ s[v] = -1
        BY <3>8, <3>10
      <4>2. f[e] = -(2 * j[e]) /\ paired[e] = 0
        BY <3>2, <3>5, <3>6, <4>1
      <4>. QED
        BY <3>2, <3>7, <3>10, <4>2
    <3>11. CASE u \notin on /\ v \in on
      <4>1. s[u] = -1 /\ s[v] = 1
        BY <3>8, <3>11
      <4>2. f[e] = -(2 * j[e]) /\ paired[e] = 0
        BY <3>2, <3>5, <3>6, <4>1
      <4>. QED
        BY <3>2, <3>7, <3>11, <4>2
    <3>12. CASE u \notin on /\ v \notin on
      <4>1. s[u] = -1 /\ s[v] = -1
        BY <3>8, <3>12
      <4>2. f[e] = 2 * j[e] /\ paired[e] = -(2 * j[e])
        BY <3>2, <3>5, <3>6, <4>1
      <4>. QED
        BY <3>2, <3>7, <3>12, <4>2
    <3>. QED
      BY <3>9, <3>10, <3>11, <3>12
  <2>2. \A e \in Pairs(on) : e \in X /\ all[e] = eight[e] /\ eight[e] = 8 * j[e] /\ j[e] \in Int
    BY <1>3, <1>4
  <2>3. \A e \in X \ Pairs(on) : all[e] = 0
    BY <1>4
  <2>4. IsFiniteSet(X) /\ IsFiniteSet(Pairs(on)) /\ Pairs(on) \subseteq X
    BY <1>4, FS_Subset
  <2> DEFINE Y == Pairs(on)
  <2> HIDE DEF X, Y, two, once, all, eight, paired, j, f
  <2>5. Total(all, X) = Total(f, X) + Total(two, X)
    BY <2>1, <2>4, TotalPlus
  <2>6. Total(two, X) = 2 * Total(once, X)
    BY <2>1, <2>4, TotalTimes
  <2>7. Total(once, X) = Total(paired, X) + Total(j, X)
    BY <2>1, <2>4, TotalPlus
  <2>8. Total(all, X) = Total(eight, Y)
    <3>1. \A e \in Y : all[e] = eight[e] /\ all[e] \in Int
      BY <2>1, <2>2 DEF Y
    <3>2. \A e \in X \ Y : all[e] = 0
      BY <2>3 DEF Y
    <3>3. Y \subseteq X
      BY <2>4 DEF Y
    <3>. QED
      BY <2>4, <3>1, <3>2, <3>3, TotalOnly
  <2>9. Total(eight, Y) = 8 * Total(j, Y) /\ Total(j, Y) \in Int
    <3>1. IsFiniteSet(Y) /\ \A e \in Y : eight[e] = 8 * j[e] /\ j[e] \in Int
      BY <2>2, <2>4 DEF Y
    <3>. QED
      BY <3>1, TotalTimes, TotalInteger
  <2>10. Total(j, X) \in Int /\ Total(paired, X) \in Int
    BY <2>1, <2>4, TotalInteger
  <2>11. Total(f, X) + 2 * Total(paired, X) + 2 * Total(j, X) = 8 * Total(j, Y)
    <3>1. Total(f, X) \in Int
      BY <2>1, <2>4, TotalInteger
    <3>. QED
      BY <2>5, <2>6, <2>7, <2>8, <2>9, <2>10, <3>1
  <2>. QED
    BY <2>9, <2>10, <2>11 DEF X, Y
<1>13. energy(q, on) = Total(l, on) + Total(j, Pairs(on)) + q.offset
  BY Zenon DEF energy, Total
<1> HIDE DEF f, a, own, met, paired, l, j, on, W, m
<1>14. energy_spin(m, s) = 8 * (Total(l, on) + Total(j, Pairs(on)) + q.offset)
  BY <1>3, <1>5, <1>7, <1>9, <1>10, <1>11, <1>12
<1>. QED
  BY <1>2, <1>13, <1>14 DEF on, m, W

(* Annealing: the bookkeeping of the solvers. *)

LEMMA SameModels ==
    /\ \A q : /\ N!Variables(q) = Variables(q) /\ N!Spins(q) = Spins(q)
              /\ N!from_qubo(q) = from_qubo(q)
              /\ N!Optima(q) = Optima(q) /\ N!brute_force(q) = brute_force(q)
    /\ \A q, x : N!energy(q, x) = energy(q, x)
    /\ \A m, s : N!energy_spin(m, s) = energy_spin(m, s) /\ N!local_field(m, s) = local_field(m, s)
    /\ \A s : N!bits(s) = bits(s)
    /\ \A X : N!Min(X) = Min(X)
<1>. USE DEF N!SumFunction, N!SumFunctionOnSet, N!FoldFunctionOnSet, N!MapThenFoldSet,
             SumFunction, SumFunctionOnSet, FoldFunctionOnSet, MapThenFoldSet,
             N!Cardinality, Cardinality, N!kSubset, kSubset, N!Pairs, Pairs,
             N!Variables, Variables
<1>1. \A q : N!Variables(q) = Variables(q)
  BY Zenon
<1>2. \A q : N!Spins(q) = Spins(q)
  BY Zenon DEF N!Spins, Spins
<1>3. \A q : N!from_qubo(q) = from_qubo(q)
  BY Zenon DEF N!from_qubo, from_qubo
<1>4. \A q, x : N!energy(q, x) = energy(q, x)
  BY Zenon DEF N!energy, energy
<1>5. \A X : N!Min(X) = Min(X) /\ N!Max(X) = Max(X)
  BY Zenon DEF N!Min, Min, N!Max, Max
<1>6. \A q : N!Optima(q) = Optima(q)
  BY <1>4, <1>5, Zenon DEF N!Optima, Optima
<1>7. \A q : N!brute_force(q) = brute_force(q)
  BY <1>5, <1>6, Zenon DEF N!brute_force, brute_force, N!Before, Before, N!SymDiff, SymDiff
<1>8. \A m, s : N!energy_spin(m, s) = energy_spin(m, s)
  BY Zenon DEF N!energy_spin, energy_spin, N!Product, Product
<1>9. \A m, s : N!local_field(m, s) = local_field(m, s)
  BY Zenon DEF N!local_field, local_field
<1>10. \A s : N!bits(s) = bits(s)
  BY Zenon DEF N!bits, bits
<1>. QED
  BY <1>1, <1>2, <1>3, <1>4, <1>5, <1>6, <1>7, <1>8, <1>9, <1>10, Zenon

ising == from_qubo(v1)

SoundAnswer(r) ==
    /\ r.energy = 8 * energy(v1, r.bits)
    /\ r.optimal = "unknown" \/ (r.optimal = "yes" <=> r.bits \in Optima(v1))

KnownSpins(b) == b.spins \in Spins(v1) /\ b.energy = energy_spin(ising, b.spins)

RowsKept(rows) ==
    /\ DOMAIN v4 = rows /\ DOMAIN v5 = rows
    /\ \A j \in rows : v4[j] \in Spins(v1) /\ v5[j] = local_field(ising, v4[j])

AnnealInv ==
    /\ v1 \in Qubos
    /\ RowsKept(N!Rows)
    /\ IF v3 = "sqa" THEN v8 \in 1 .. Trotter ELSE v8 = 1
    /\ v3 = "sa" => v6 = energy_spin(ising, v4[1])
    /\ v11 = Nothing \/ KnownSpins(v11)
    /\ v12 = Nothing \/ SoundAnswer(v12)
    /\ v3 = "done" => SoundAnswer(v13)

\* The same in the words of Annealing.
LEMMA AnnealParts == (N!Inv <=> AnnealInv) /\ (N!Inv' <=> AnnealInv')
<1>1. /\ N!RowsWhole <=> RowsKept(N!Rows) /\ IF v3 = "sqa" THEN v8 \in 1 .. Trotter ELSE v8 = 1
      /\ N!RowsWhole' <=> (RowsKept(N!Rows)
                             /\ IF v3 = "sqa" THEN v8 \in 1 .. Trotter ELSE v8 = 1)'
  BY SameModels, Zenon DEF N!RowsWhole, RowsKept, N!ising, ising
<1>2. /\ \A b : N!Known(b) <=> KnownSpins(b)
      /\ (\A b : N!Known(b) <=> KnownSpins(b))'
  BY SameModels, Zenon DEF N!Known, KnownSpins, N!ising, ising
<1>3. /\ \A r : N!Sound(r) <=> SoundAnswer(r)
      /\ (\A r : N!Sound(r) <=> SoundAnswer(r))'
  BY SameModels, Zenon DEF N!Sound, SoundAnswer
<1>4. N!ising = ising /\ N!ising' = ising'
  BY SameModels, Zenon DEF N!ising, ising
<1>5. N!Inv <=> AnnealInv
  BY <1>1, <1>2, <1>3, <1>4, SameModels, Zenon DEF N!Inv, AnnealInv
<1>6. N!Inv' <=> AnnealInv'
  BY <1>1, <1>2, <1>3, <1>4, SameModels, Zenon DEF N!Inv, AnnealInv
<1>. QED
  BY <1>5, <1>6

LEMMA GivenModel ==
    ASSUME v1 \in Qubos
    PROVE  /\ QuboModel(v1) /\ IsingModel(ising, Variables(v1))
           /\ IsFiniteSet(Variables(v1))
           /\ Spins(v1) = [Variables(v1) -> {-1, 1}]
<1>1. QuboModel(v1)
  BY QuboAssumption DEF QuboModel
<1>. QED
  BY <1>1, FromQubo, VariablesFinite DEF ising, Spins

\* The energy of spins is that of their bits, and theirs say if it is optimal.
LEMMA FinalizedSound ==
    ASSUME v1 \in Qubos, NEW b, KnownSpins(b)
    PROVE  SoundAnswer(N!Finalized(b))
<1> DEFINE x == bits(b.spins)
           least == energy(v1, brute_force(v1))
           r == N!Finalized(b)
<1>1. QuboModel(v1)
  BY GivenModel
<1>2. x \in SUBSET Variables(v1) /\ b.energy = 8 * energy(v1, x)
  BY <1>1, SpinEnergy DEF KnownSpins, ising
<1>3. /\ energy(v1, x) \in Int /\ least \in Int
      /\ x \in Optima(v1) <=> energy(v1, x) = least
  BY <1>1, <1>2, BruteOptimal, EnergyInteger
<1>4. r = [bits |-> x, energy |-> b.energy,
           optimal |-> IF N!can_brute_force
                       THEN IF b.energy = 8 * least THEN "yes" ELSE "no" ELSE "unknown"]
  BY SameModels, Zenon DEF N!Finalized
<1> HIDE DEF x, least, r
<1>5. r.bits = x /\ r.energy = b.energy
  BY <1>4
<1>6. ASSUME N!can_brute_force PROVE SoundAnswer(r)
  <2>1. r.optimal = IF b.energy = 8 * least THEN "yes" ELSE "no"
    BY <1>4, <1>6
  <2>2. b.energy = 8 * least <=> x \in Optima(v1)
    BY <1>2, <1>3
  <2>3. r.optimal = "yes" <=> x \in Optima(v1)
    BY <2>1, <2>2
  <2>. QED
    BY <1>2, <1>5, <2>3 DEF SoundAnswer
<1>7. ASSUME ~N!can_brute_force PROVE SoundAnswer(r)
  BY <1>2, <1>4, <1>5, <1>7 DEF SoundAnswer
<1>. QED
  BY <1>6, <1>7 DEF r

LEMMA AnnealInit ==
    ASSUME N!Init
    PROVE  N!Inv
<1>1. v1 \in Qubos /\ v3 = "solve" /\ v4 = <<>> /\ v5 = <<>> /\ v8 = 1
        /\ v11 = Nothing /\ v12 = Nothing
  BY DEF N!Init
<1>2. N!Rows = {}
  BY <1>1 DEF N!Rows
<1>3. RowsKept({})
  BY <1>1 DEF RowsKept
<1>. QED
  BY <1>1, <1>2, <1>3, AnnealParts DEF AnnealInv

LEMMA SpinEnergyInteger ==
    ASSUME v1 \in Qubos, NEW s \in Spins(v1)
    PROVE  /\ energy_spin(ising, s) \in Int
           /\ \A v \in Variables(v1) : local_field(ising, s)[v] \in Int
<1>. USE GivenModel
<1>1. energy_spin(ising, s) \in Int
  <2>1. energy_spin(ising, s) =
          Total(EdgeTerms(ising, s), Pairs(Variables(v1)))
            + Total(SpinTerms(ising, s), Variables(v1)) + ising.offset
    BY SpinEnergyParts
  <2>2. /\ Total(EdgeTerms(ising, s), Pairs(Variables(v1))) \in Int
        /\ Total(SpinTerms(ising, s), Variables(v1)) \in Int
        /\ ising.offset \in Int
    BY SpinEnergyParts
  <2>. QED
    BY <2>1, <2>2
<1>2. \A v \in Variables(v1) : local_field(ising, s)[v] \in Int
  BY FieldAt
<1>. QED
  BY <1>1, <1>2

\* A flip keeps every row whole, and changes the energy of its own by Delta.
LEMMA FlipStep ==
    ASSUME AnnealInv, v3 \in {"sa", "sqa"}, NEW i \in N!V, N!Flip(i), v1' = v1
    PROVE  /\ v8 \in N!Rows
           /\ DOMAIN v4' = N!Rows /\ DOMAIN v5' = N!Rows
           /\ \A j \in N!Rows : v4'[j] \in Spins(v1) /\ v5'[j] = local_field(ising, v4'[j])
           /\ energy_spin(ising, v4'[v8]) = energy_spin(ising, v4[v8]) + N!Delta(i)
<1> DEFINE s == v4[v8]
           W == Variables(v1)
           new == N!Updates(v5[v8], i, -s[i])
<1>1. v8 \in N!Rows
  BY TrotterAssumption DEF AnnealInv, N!Rows
<1>2. i \in W /\ s \in [W -> {-1, 1}] /\ v5[v8] = local_field(ising, s)
  BY <1>1, GivenModel, SameModels DEF AnnealInv, RowsKept, N!V
<1>3. v4' = [v4 EXCEPT ![v8] = Flipped(s, i)] /\ v5' = [v5 EXCEPT ![v8] = new]
  BY DEF N!Flip, Flipped
<1>4. new = local_field(ising, Flipped(s, i))
  <2>1. new = FieldAfter(ising, v5[v8], s, i, W)
    BY SameModels, Zenon DEF N!Updates, N!V, N!ising, ising, FieldAfter
  <2>2. local_field(ising, Flipped(s, i)) = FieldAfter(ising, local_field(ising, s), s, i, W)
    BY <1>2, GivenModel, FieldFlip DEF AnnealInv
  <2>. QED
    BY <1>2, <2>1, <2>2
<1>5. Flipped(s, i) \in Spins(v1)
  BY <1>2, GivenModel, FlippedSpins DEF AnnealInv
<1>6. energy_spin(ising, Flipped(s, i)) = energy_spin(ising, s) - 2 * s[i] * v5[v8][i]
  BY <1>2, GivenModel, EnergyFlip DEF AnnealInv
<1>7. energy_spin(ising, Flipped(s, i)) = energy_spin(ising, s) + N!Delta(i)
  <2>1. N!Delta(i) = -2 * s[i] * v5[v8][i]
    BY DEF N!Delta
  <2>2. energy_spin(ising, s) \in Int /\ v5[v8][i] \in Int
    BY <1>1, <1>2, SpinEnergyInteger DEF AnnealInv, RowsKept
  <2>3. s[i] = 1 \/ s[i] = -1
    BY <1>2
  <2>. QED
    BY <1>6, <2>1, <2>2, <2>3
<1>8. /\ DOMAIN v4 = N!Rows /\ DOMAIN v5 = N!Rows
      /\ \A j \in N!Rows : v4[j] \in Spins(v1) /\ v5[j] = local_field(ising, v4[j])
  BY DEF AnnealInv, RowsKept
<1> HIDE DEF new
<1>9. /\ DOMAIN v4' = N!Rows /\ DOMAIN v5' = N!Rows
      /\ v4'[v8] = Flipped(s, i) /\ v5'[v8] = new
      /\ \A j \in N!Rows : j # v8 => v4'[j] = v4[j] /\ v5'[j] = v5[j]
  BY <1>1, <1>3, <1>8
<1>. QED
  BY <1>1, <1>4, <1>5, <1>7, <1>8, <1>9

LEMMA VisitStep ==
    ASSUME AnnealInv, NEW i \in N!V, N!VisitSA(i) \/ N!VisitSQA(i)
    PROVE  AnnealInv'
<1>1. /\ v1' = v1 /\ v3' = v3 /\ v8' = v8 /\ v11' = v11 /\ v12' = v12 /\ v13' = v13
      /\ v3 \in {"sa", "sqa"}
      /\ N!Flip(i) \/ UNCHANGED <<v4, v5>>
      /\ v3 = "sa" => \/ N!Flip(i) /\ v6' = v6 + N!Delta(i)
                      \/ UNCHANGED <<v4, v5, v6>>
  BY DEF N!VisitSA, N!VisitSQA
<1>2. N!Rows' = N!Rows /\ ising' = ising
  BY <1>1 DEF N!Rows, ising
<1>3. RowsKept(N!Rows)'
  <2>1. CASE N!Flip(i)
    BY <1>1, <1>2, <2>1, FlipStep DEF RowsKept
  <2>2. CASE UNCHANGED <<v4, v5>>
    BY <1>1, <1>2, <2>2 DEF AnnealInv, RowsKept
  <2>. QED
    BY <1>1, <2>1, <2>2
<1>4. v3 = "sa" => v6' = energy_spin(ising, v4'[1])
  <2>1. v3 = "sa" => v6 = energy_spin(ising, v4[1]) /\ v8 = 1
    BY DEF AnnealInv
  <2>2. N!Flip(i) => energy_spin(ising, v4'[v8]) = energy_spin(ising, v4[v8]) + N!Delta(i)
    BY <1>1, FlipStep
  <2>. QED
    BY <1>1, <2>1, <2>2
<1>5. /\ v11 = Nothing \/ KnownSpins(v11)
      /\ v12 = Nothing \/ SoundAnswer(v12)
      /\ IF v3 = "sqa" THEN v8 \in 1 .. Trotter ELSE v8 = 1
      /\ v1 \in Qubos
  BY DEF AnnealInv
<1>. QED
  BY <1>1, <1>2, <1>3, <1>4, <1>5 DEF AnnealInv, KnownSpins, SoundAnswer

LEMMA DispatchStep ==
    ASSUME AnnealInv, N!Dispatch
    PROVE  AnnealInv'
<1>1. /\ v1' = v1 /\ v4' = v4 /\ v5' = v5 /\ v8' = v8 /\ v11' = v11 /\ v12' = v12
      /\ v3 = "solve" /\ v3' \in {"done", "restart", "replicas"}
      /\ v3' = "done" => v13' = [bits |-> N!brute_force(v1),
                                 energy |-> 8 * N!energy(v1, N!brute_force(v1)),
                                 optimal |-> "yes"]
  BY DEF N!Dispatch
<1>2. N!Rows' = N!Rows /\ ising' = ising
  BY <1>1 DEF N!Rows, ising
<1>3. v3' = "done" => SoundAnswer(v13')
  <2>1. brute_force(v1) \in Optima(v1)
    BY GivenModel, BruteOptimal DEF AnnealInv
  <2>. QED
    BY <1>1, <2>1, SameModels DEF SoundAnswer
<1>. QED
  BY <1>1, <1>2, <1>3 DEF AnnealInv, RowsKept, KnownSpins, SoundAnswer

LEMMA AnnealRestartStep ==
    ASSUME AnnealInv, NEW s \in N!Spins(v1), N!Restart(s)
    PROVE  AnnealInv'
<1>1. /\ v1' = v1 /\ v8' = v8 /\ v11' = v11 /\ v12' = v12 /\ v13' = v13
      /\ v3 = "restart" /\ v3' = "sa" /\ s \in Spins(v1)
      /\ v4' = <<s>> /\ v5' = <<local_field(ising, s)>> /\ v6' = energy_spin(ising, s)
  BY SameModels DEF N!Restart, N!ising, ising
<1>2. N!Rows' = 1 .. 1 /\ ising' = ising
  BY <1>1 DEF N!Rows, ising
<1>3. RowsKept(N!Rows)'
  BY <1>1, <1>2 DEF RowsKept
<1>. QED
  BY <1>1, <1>2, <1>3 DEF AnnealInv, KnownSpins, SoundAnswer

LEMMA StartSQAStep ==
    ASSUME AnnealInv, NEW rows \in [1 .. Trotter -> N!Spins(v1)], N!StartSQA(rows)
    PROVE  AnnealInv'
<1>1. /\ v1' = v1 /\ v8' = v8 /\ v11' = Nothing /\ v12' = v12 /\ v13' = v13
      /\ v3 = "replicas" /\ v3' = "sqa" /\ rows \in [1 .. Trotter -> Spins(v1)]
      /\ v4' = rows /\ v5' = [j \in 1 .. Trotter |-> local_field(ising, rows[j])]
  BY SameModels DEF N!StartSQA, N!ising, ising
<1>2. N!Rows' = 1 .. Trotter /\ ising' = ising
  BY <1>1 DEF N!Rows, ising
<1>3. RowsKept(N!Rows)'
  BY <1>1, <1>2 DEF RowsKept
<1>4. v8' \in 1 .. Trotter
  BY <1>1, TrotterAssumption DEF AnnealInv
<1>. QED
  BY <1>1, <1>2, <1>3, <1>4 DEF AnnealInv, SoundAnswer

LEMMA NextRowStep ==
    ASSUME AnnealInv, N!NextRow
    PROVE  AnnealInv'
<1>1. /\ v1' = v1 /\ v3' = v3 /\ v4' = v4 /\ v5' = v5 /\ v11' = v11 /\ v12' = v12
      /\ v13' = v13 /\ v3 = "sqa" /\ v8 < Trotter /\ v8' = v8 + 1
  BY DEF N!NextRow
<1>2. N!Rows' = N!Rows /\ ising' = ising
  BY <1>1 DEF N!Rows, ising
<1>3. v8' \in 1 .. Trotter
  BY <1>1, TrotterAssumption DEF AnnealInv
<1>. QED
  BY <1>1, <1>2, <1>3 DEF AnnealInv, RowsKept, KnownSpins, SoundAnswer

LEMMA SweptSAStep ==
    ASSUME AnnealInv, N!SweptSA
    PROVE  AnnealInv'
<1>1. v1' = v1 /\ v8' = v8 /\ v11' = N!BestOfSA /\ v3 = "sa" /\ v8 = 1
  BY DEF N!SweptSA, N!Clear, AnnealInv
<1>2. KnownSpins(N!BestOfSA)
  <2>1. /\ v4[1] \in Spins(v1) /\ v6 = energy_spin(ising, v4[1])
        /\ v11 = Nothing \/ KnownSpins(v11)
    BY <1>1 DEF AnnealInv, RowsKept, N!Rows
  <2>. QED
    BY <2>1 DEF N!BestOfSA, N!Better, KnownSpins
<1>3. SoundAnswer(N!Finalized(N!BestOfSA))
  BY <1>2, FinalizedSound DEF AnnealInv
<1>4. ising' = ising /\ v1 \in Qubos /\ (v12 = Nothing \/ SoundAnswer(v12))
  BY <1>1 DEF ising, AnnealInv
<1>5. CASE UNCHANGED <<v3, v4, v5, v6, v12, v13>>
  <2>1. N!Rows' = N!Rows
    BY <1>1, <1>5 DEF N!Rows
  <2>. QED
    BY <1>1, <1>2, <1>4, <1>5, <2>1 DEF AnnealInv, RowsKept, KnownSpins, SoundAnswer
<1>6. CASE N!Clear /\ \/ v3' \in {"restart", "replicas"}
                      \/ v3' = "done" /\ v13' = N!Finalized(N!BestOfSA)
                 /\ \/ v12' = v12
                    \/ v12' = N!Finalized(N!BestOfSA)
  <2>1. v4' = <<>> /\ v5' = <<>> /\ v8' = 1 /\ v3' \notin {"sa", "sqa"}
    BY <1>6 DEF N!Clear
  <2>2. N!Rows' = {}
    BY <2>1 DEF N!Rows
  <2>3. RowsKept(N!Rows)'
    BY <2>1, <2>2 DEF RowsKept
  <2>4. v12' = Nothing \/ SoundAnswer(v12')
    BY <1>3, <1>4, <1>6
  <2>5. v3' = "done" => SoundAnswer(v13')
    BY <1>3, <1>6
  <2>. QED
    BY <1>1, <1>2, <1>4, <2>1, <2>3, <2>4, <2>5 DEF AnnealInv, KnownSpins, SoundAnswer
<1>. QED
  BY <1>5, <1>6 DEF N!SweptSA

\* The best row is one of them, with the energy that was compared.
LEMMA BestRow ==
    ASSUME AnnealInv, v3 = "sqa"
    PROVE  KnownSpins(N!BestOfSQA)
<1> DEFINE rows == 1 .. Trotter
           e == [j \in rows |-> energy_spin(ising, v4[j])]
           all == {e[j] : j \in rows}
           least == Min(all)
           ties == {j \in rows : e[j] = least}
           first == Min(ties)
<1>1. \A j \in rows : v4[j] \in Spins(v1) /\ e[j] = energy_spin(ising, v4[j]) /\ e[j] \in Int
  <2>1. N!Rows = rows
    BY DEF N!Rows
  <2>2. \A j \in rows : v4[j] \in Spins(v1)
    BY <2>1 DEF AnnealInv, RowsKept
  <2>. QED
    BY <2>2, SpinEnergyInteger DEF AnnealInv
<1>2. IsFiniteSet(rows) /\ 1 \in rows /\ rows \subseteq Int
  BY TrotterAssumption, FS_Interval
<1>3. least \in all
  <2>1. e \in Surjection(rows, all)
    BY DEF Surjection
  <2>2. all # {} /\ all \subseteq Int
    BY <1>1, <1>2
  <2> HIDE DEF e, all, rows
  <2>3. IsFiniteSet(all)
    BY <1>2, <2>1, FS_Surjection
  <2>. QED
    BY <2>2, <2>3, LeastInteger
<1>4. first \in ties
  <2>1. ties # {}
    BY <1>3
  <2>2. IsFiniteSet(ties) /\ ties \subseteq Int
    BY <1>2, FS_Subset
  <2> HIDE DEF ties
  <2>. QED
    BY <2>1, <2>2, LeastInteger
<1>5. N!BestOfSQA = IF N!Better(least) THEN [spins |-> v4[first], energy |-> least] ELSE v11
  BY SameModels, Zenon DEF N!BestOfSQA, N!ising, ising
<1>6. v4[first] \in Spins(v1) /\ least = energy_spin(ising, v4[first])
  <2> HIDE DEF first, least
  <2>. QED
    BY <1>1, <1>4
<1> HIDE DEF first, least
<1>. QED
  BY <1>5, <1>6 DEF N!Better, KnownSpins, AnnealInv

LEMMA SweptSQAStep ==
    ASSUME AnnealInv, N!SweptSQA
    PROVE  AnnealInv'
<1>1. v1' = v1 /\ v12' = v12 /\ v11' = N!BestOfSQA /\ v3 = "sqa" /\ v8' = 1
  BY DEF N!SweptSQA, N!Clear
<1>2. KnownSpins(N!BestOfSQA)
  BY <1>1, BestRow
<1>3. SoundAnswer(N!Finalized(N!BestOfSQA))
  BY <1>2, FinalizedSound DEF AnnealInv
<1>4. ising' = ising /\ v1 \in Qubos /\ (v12 = Nothing \/ SoundAnswer(v12))
  BY <1>1 DEF ising, AnnealInv
<1>5. CASE UNCHANGED <<v3, v4, v5, v13>>
  <2>1. N!Rows' = N!Rows /\ 1 \in 1 .. Trotter
    BY <1>1, <1>5, TrotterAssumption DEF N!Rows
  <2>. QED
    BY <1>1, <1>2, <1>4, <1>5, <2>1 DEF AnnealInv, RowsKept, KnownSpins, SoundAnswer
<1>6. CASE N!Clear /\ v3' = "done" /\ v13' = N!Winner(N!Finalized(N!BestOfSQA))
  <2>1. v4' = <<>> /\ v5' = <<>>
    BY <1>6 DEF N!Clear
  <2>2. N!Rows' = {}
    BY <1>6 DEF N!Rows
  <2>3. RowsKept(N!Rows)'
    BY <2>1, <2>2 DEF RowsKept
  <2>4. SoundAnswer(v13')
    BY <1>3, <1>4, <1>6 DEF N!Winner
  <2>. QED
    BY <1>1, <1>2, <1>4, <1>6, <2>3, <2>4 DEF AnnealInv, KnownSpins, SoundAnswer
<1>. QED
  BY <1>5, <1>6 DEF N!SweptSQA

LEMMA AnnealingStep ==
    ASSUME N!Inv, N!Next \/ UNCHANGED N!vars
    PROVE  N!Inv'
<1>1. AnnealInv
  BY AnnealParts
<1>2. CASE UNCHANGED N!vars
  <2>1. /\ v1' = v1 /\ v3' = v3 /\ v4' = v4 /\ v5' = v5 /\ v6' = v6 /\ v8' = v8
        /\ v11' = v11 /\ v12' = v12 /\ v13' = v13
    BY <1>2 DEF N!vars
  <2>2. AnnealInv'
    BY <1>1, <2>1, Zenon DEF AnnealInv, RowsKept, N!Rows, KnownSpins, SoundAnswer, ising
  <2>. QED
    BY <2>2, AnnealParts
<1>3. CASE N!Next
  <2>1. AnnealInv'
    BY <1>1, <1>3, DispatchStep, AnnealRestartStep, VisitStep, SweptSAStep, NextRowStep,
       SweptSQAStep, StartSQAStep DEF N!Next
  <2>. QED
    BY <2>1, AnnealParts
<1>. QED
  BY <1>2, <1>3

(***************************************************************************)
(* For all models, sweeps, restarts and replicas, and whatever the random  *)
(* numbers are: the fields and the energy that the annealers update flip   *)
(* by flip are those of their spins, and an answer has the energy of its   *)
(* bits and is said to be optimal exactly when it is                       *)
(* (services/quantum/annealer.py, qubo.py).                                *)
(***************************************************************************)
THEOREM BookkeepingExactAlways == MCSpec => []BookkeepingExact
<1> DEFINE IInv == part = "annealer" => N!Inv
<1>1. MCInit => IInv
  BY AnnealInit DEF MCInit
<1>2. IInv /\ [MCNext]_mcvars => IInv'
  BY PartStep, AnnealingStep
<1>3. IInv => BookkeepingExact
  BY DEF BookkeepingExact, N!BookkeepingExact, N!Inv, N!RowsWhole
<1>. QED
  BY <1>1, <1>2, <1>3, PTL DEF MCSpec

(* Exposure: the scores of score_qes. *)

LEMMA SameExtremes == \A X : E!Max(X) = Max(X) /\ E!Min(X) = Min(X)
BY Zenon DEF E!Max, Max, E!Min, Min

\* The strength of a factored key, segment by segment of its table.
RsaSegment(x, y, a, b, s, t) ==
    /\ a <= x /\ x <= b
    /\ y = s + ((x - a) * (t - s)) \div (b - a)

LEMMA RsaStrength ==
    ASSUME NEW x \in Int, NEW y, y = E!_interp(E!_RSA_STRENGTH, x)
    PROVE  \/ x <= 1024 /\ y = 1000
           \/ RsaSegment(x, y, 1024, 2048, 1000, 900)
           \/ RsaSegment(x, y, 2048, 3072, 900, 780)
           \/ RsaSegment(x, y, 3072, 4096, 780, 660)
           \/ RsaSegment(x, y, 4096, 7680, 660, 420)
           \/ RsaSegment(x, y, 7680, 15360, 420, 220)
           \/ x >= 15360 /\ y = 220
<1> DEFINE table == E!_RSA_STRENGTH
           keys == DOMAIN table
           below == {k \in keys : k <= x} \cup {Min(keys)}
           above == {k \in keys : k >= x} \cup {Max(keys)}
           lo == Max(below)
           hi == Min(above)
<1>1. /\ keys = {1024, 2048, 3072, 4096, 7680, 15360}
      /\ table[1024] = 1000 /\ table[2048] = 900 /\ table[3072] = 780
      /\ table[4096] = 660 /\ table[7680] = 420 /\ table[15360] = 220
  BY DEF E!_RSA_STRENGTH
<1> HIDE DEF table
<1>2. y = IF lo >= hi THEN table[lo]
          ELSE IF x <= lo THEN table[lo]
          ELSE IF x >= hi THEN table[hi]
          ELSE E!Between(table, x, lo, hi)
  BY SameExtremes, Zenon DEF E!_interp, table
<1> HIDE DEF keys
<1>3. IsFiniteSet(keys) /\ keys \subseteq Int /\ keys # {}
  <2>1. \A m, n \in Int : IsFiniteSet(m .. n)
    BY FS_Interval
  <2>2. \E m, n \in Int : keys \in SUBSET (m .. n)
    <3>1. PICK m \in Int : m = 1024
      OBVIOUS
    <3>2. PICK n \in Int : n = 15360
      OBVIOUS
    <3>3. keys \in SUBSET (m .. n)
      BY <1>1, <3>1, <3>2
    <3>. QED
      BY <3>3
  <2>3. IsFiniteSet(keys)
    BY <2>1, <2>2, FS_Subset
  <2>4. keys \subseteq Int /\ keys # {}
    BY <1>1
  <2>. QED
    BY <2>3, <2>4
<1>4. Min(keys) = 1024 /\ Max(keys) = 15360
  <2>1. /\ Min(keys) \in keys /\ \A z \in keys : Min(keys) <= z
        /\ Max(keys) \in keys /\ \A z \in keys : Max(keys) >= z
    BY <1>3, LeastInteger
  <2>. QED
    BY <1>1, <2>1
<1>5. lo \in below /\ (\A z \in below : lo >= z) /\ hi \in above /\ (\A z \in above : hi <= z)
  <2>1. below \subseteq keys /\ above \subseteq keys /\ below # {} /\ above # {}
    BY <1>1, <1>4
  <2> HIDE DEF below, above
  <2>2. IsFiniteSet(below) /\ IsFiniteSet(above)
    BY <1>3, <2>1, FS_Subset
  <2>3. below \subseteq Int /\ above \subseteq Int
    BY <1>3, <2>1
  <2>. QED
    BY <2>1, <2>2, <2>3, LeastInteger
<1>6. /\ \A z : z \in below <=> z \in keys /\ (z <= x \/ z = 1024)
      /\ \A z : z \in above <=> z \in keys /\ (z >= x \/ z = 15360)
  BY <1>1, <1>4
<1> HIDE DEF lo, hi, below, above
<1>7. lo \in keys /\ hi \in keys /\ (lo <= x \/ lo = 1024) /\ (hi >= x \/ hi = 15360)
        /\ (\A z \in keys : z <= x => z <= lo) /\ (\A z \in keys : z >= x => hi <= z)
  BY <1>5, <1>6
<1>8. E!Between(table, x, lo, hi) =
        table[lo] + ((x - lo) * (table[hi] - table[lo])) \div (hi - lo)
  BY DEF E!Between
<1>9. CASE x <= 1024
  <2>1. lo = 1024 /\ hi = 1024
    BY <1>1, <1>7, <1>9
  <2>. QED
    BY <1>1, <1>2, <1>9, <2>1
<1>10. CASE x >= 15360
  <2>1. lo = 15360 /\ hi = 15360
    BY <1>1, <1>7, <1>10
  <2>. QED
    BY <1>1, <1>2, <1>10, <2>1
<1>11. CASE x \in keys
  <2>1. lo = x /\ hi = x
    BY <1>1, <1>7, <1>11
  <2>2. y = table[x]
    BY <1>2, <2>1, <1>11
  <2>. QED
    BY <1>1, <1>11, <2>2 DEF RsaSegment
<1>12. CASE 1024 < x /\ x < 2048
  <2>1. lo = 1024 /\ hi = 2048
    BY <1>1, <1>7, <1>12
  <2>. QED
    BY <1>1, <1>2, <1>8, <1>12, <2>1 DEF RsaSegment
<1>13. CASE 2048 < x /\ x < 3072
  <2>1. lo = 2048 /\ hi = 3072
    BY <1>1, <1>7, <1>13
  <2>. QED
    BY <1>1, <1>2, <1>8, <1>13, <2>1 DEF RsaSegment
<1>14. CASE 3072 < x /\ x < 4096
  <2>1. lo = 3072 /\ hi = 4096
    BY <1>1, <1>7, <1>14
  <2>. QED
    BY <1>1, <1>2, <1>8, <1>14, <2>1 DEF RsaSegment
<1>15. CASE 4096 < x /\ x < 7680
  <2>1. lo = 4096 /\ hi = 7680
    BY <1>1, <1>7, <1>15
  <2>. QED
    BY <1>1, <1>2, <1>8, <1>15, <2>1 DEF RsaSegment
<1>16. CASE 7680 < x /\ x < 15360
  <2>1. lo = 7680 /\ hi = 15360
    BY <1>1, <1>7, <1>16
  <2>. QED
    BY <1>1, <1>2, <1>8, <1>16, <2>1 DEF RsaSegment
<1>. QED
  BY <1>1, <1>9, <1>10, <1>11, <1>12, <1>13, <1>14, <1>15, <1>16

\* What the table bounds, segment by segment.
RsaBounds(x, y) ==
    /\ y \in Int /\ 220 <= y /\ y <= 1000
    /\ x <= 1024 => y = 1000
    /\ 1024 <= x /\ x <= 2048 => 900 <= y /\ y <= 1000
    /\ 2048 <= x /\ x <= 3072 => 780 <= y /\ y <= 900
    /\ 3072 <= x /\ x <= 4096 => 660 <= y /\ y <= 780
    /\ 4096 <= x /\ x <= 7680 => 420 <= y /\ y <= 660
    /\ 7680 <= x /\ x <= 15360 => 220 <= y /\ y <= 420
    /\ x >= 15360 => y = 220

RsaInside(x, y) ==
    /\ 1024 <= x /\ x <= 2048 => RsaSegment(x, y, 1024, 2048, 1000, 900)
    /\ 2048 <= x /\ x <= 3072 => RsaSegment(x, y, 2048, 3072, 900, 780)
    /\ 3072 <= x /\ x <= 4096 => RsaSegment(x, y, 3072, 4096, 780, 660)
    /\ 4096 <= x /\ x <= 7680 => RsaSegment(x, y, 4096, 7680, 660, 420)
    /\ 7680 <= x /\ x <= 15360 => RsaSegment(x, y, 7680, 15360, 420, 220)

LEMMA RsaBounded ==
    ASSUME NEW x \in Int
    PROVE  /\ RsaBounds(x, E!_interp(E!_RSA_STRENGTH, x))
           /\ RsaInside(x, E!_interp(E!_RSA_STRENGTH, x))
<1>1. PICK y : y = E!_interp(E!_RSA_STRENGTH, x)
  OBVIOUS
<1>2. /\ RsaBounds(x, y)
      /\ RsaInside(x, y)
  <2>1. CASE x <= 1024 /\ y = 1000
    <3>1. RsaBounds(x, y)
      BY <2>1 DEF RsaBounds, RsaSegment
    <3>2. RsaInside(x, y)
      BY <2>1 DEF RsaInside, RsaSegment
    <3>. QED
      BY <3>1, <3>2
  <2>2. CASE RsaSegment(x, y, 1024, 2048, 1000, 900)
    <3>1. RsaBounds(x, y)
      BY <2>2 DEF RsaBounds, RsaSegment
    <3>2. RsaInside(x, y)
      BY <2>2 DEF RsaInside, RsaSegment
    <3>. QED
      BY <3>1, <3>2
  <2>3. CASE RsaSegment(x, y, 2048, 3072, 900, 780)
    <3>1. RsaBounds(x, y)
      BY <2>3 DEF RsaBounds, RsaSegment
    <3>2. RsaInside(x, y)
      BY <2>3 DEF RsaInside, RsaSegment
    <3>. QED
      BY <3>1, <3>2
  <2>4. CASE RsaSegment(x, y, 3072, 4096, 780, 660)
    <3>1. RsaBounds(x, y)
      BY <2>4 DEF RsaBounds, RsaSegment
    <3>2. RsaInside(x, y)
      BY <2>4 DEF RsaInside, RsaSegment
    <3>. QED
      BY <3>1, <3>2
  <2>5. CASE RsaSegment(x, y, 4096, 7680, 660, 420)
    <3>1. RsaBounds(x, y)
      BY <2>5 DEF RsaBounds, RsaSegment
    <3>2. RsaInside(x, y)
      BY <2>5 DEF RsaInside, RsaSegment
    <3>. QED
      BY <3>1, <3>2
  <2>6. CASE RsaSegment(x, y, 7680, 15360, 420, 220)
    <3>1. RsaBounds(x, y)
      BY <2>6 DEF RsaBounds, RsaSegment
    <3>2. RsaInside(x, y)
      BY <2>6 DEF RsaInside, RsaSegment
    <3>. QED
      BY <3>1, <3>2
  <2>7. CASE x >= 15360 /\ y = 220
    <3>1. RsaBounds(x, y)
      BY <2>7 DEF RsaBounds, RsaSegment
    <3>2. RsaInside(x, y)
      BY <2>7 DEF RsaInside, RsaSegment
    <3>. QED
      BY <3>1, <3>2
  <2>. QED
    BY <1>1, <2>1, <2>2, <2>3, <2>4, <2>5, <2>6, <2>7, RsaStrength
<1>. QED
  BY <1>1, <1>2

\* A longer key of this family is no stronger an exposure.
LEMMA RsaMonotone ==
    ASSUME NEW x \in Int, NEW z \in Int, x >= z
    PROVE  E!_interp(E!_RSA_STRENGTH, x) <= E!_interp(E!_RSA_STRENGTH, z)
<1>1. PICK y : y = E!_interp(E!_RSA_STRENGTH, x)
  OBVIOUS
<1>2. PICK u : u = E!_interp(E!_RSA_STRENGTH, z)
  OBVIOUS
<1>3. RsaBounds(x, y) /\ RsaBounds(z, u) /\ RsaInside(x, y) /\ RsaInside(z, u)
  BY <1>1, <1>2, RsaBounded
<1>4. ASSUME NEW a \in Int, NEW b \in Int, NEW s \in Int, NEW t \in Int,
             RsaSegment(x, y, a, b, s, t), RsaSegment(z, u, a, b, s, t),
             a < b, s >= t
      PROVE  y <= u
  <2>1. (x - a) * (t - s) <= (z - a) * (t - s)
    <3>1. PICK d \in Nat : x = z + d
      OBVIOUS
    <3>2. PICK g \in Nat : s = t + g
      BY <1>4
    <3>3. d * g \in Nat
      BY <3>1, <3>2
    <3>. QED
      BY <3>1, <3>2, <3>3
  <2>2. \A m, n \in Int, q \in Nat \ {0} : m <= n => m \div q <= n \div q
    OBVIOUS
  <2>. QED
    BY <1>4, <2>1, <2>2 DEF RsaSegment
<1>5. CASE x <= 1024
  BY <1>1, <1>2, <1>3, <1>5 DEF RsaBounds
<1>6. CASE 1024 <= x /\ x <= 2048
  <2>1. CASE z < 1024
    BY <1>1, <1>2, <1>3, <1>6, <2>1 DEF RsaBounds
  <2>2. CASE z >= 1024
    <3>1. 1024 <= z /\ z <= 2048
      BY <1>6, <2>2
    <3>2. /\ RsaSegment(x, y, 1024, 2048, 1000, 900)
          /\ RsaSegment(z, u, 1024, 2048, 1000, 900)
      BY <1>3, <1>6, <3>1 DEF RsaInside
    <3>. QED
      BY <1>1, <1>2, <1>4, <3>2
  <2>. QED
    BY <2>1, <2>2
<1>7. CASE 2048 <= x /\ x <= 3072
  <2>1. CASE z < 2048
    BY <1>1, <1>2, <1>3, <1>7, <2>1 DEF RsaBounds
  <2>2. CASE z >= 2048
    <3>1. 2048 <= z /\ z <= 3072
      BY <1>7, <2>2
    <3>2. /\ RsaSegment(x, y, 2048, 3072, 900, 780)
          /\ RsaSegment(z, u, 2048, 3072, 900, 780)
      BY <1>3, <1>7, <3>1 DEF RsaInside
    <3>. QED
      BY <1>1, <1>2, <1>4, <3>2
  <2>. QED
    BY <2>1, <2>2
<1>8. CASE 3072 <= x /\ x <= 4096
  <2>1. CASE z < 3072
    BY <1>1, <1>2, <1>3, <1>8, <2>1 DEF RsaBounds
  <2>2. CASE z >= 3072
    <3>1. 3072 <= z /\ z <= 4096
      BY <1>8, <2>2
    <3>2. /\ RsaSegment(x, y, 3072, 4096, 780, 660)
          /\ RsaSegment(z, u, 3072, 4096, 780, 660)
      BY <1>3, <1>8, <3>1 DEF RsaInside
    <3>. QED
      BY <1>1, <1>2, <1>4, <3>2
  <2>. QED
    BY <2>1, <2>2
<1>9. CASE 4096 <= x /\ x <= 7680
  <2>1. CASE z < 4096
    BY <1>1, <1>2, <1>3, <1>9, <2>1 DEF RsaBounds
  <2>2. CASE z >= 4096
    <3>1. 4096 <= z /\ z <= 7680
      BY <1>9, <2>2
    <3>2. /\ RsaSegment(x, y, 4096, 7680, 660, 420)
          /\ RsaSegment(z, u, 4096, 7680, 660, 420)
      BY <1>3, <1>9, <3>1 DEF RsaInside
    <3>. QED
      BY <1>1, <1>2, <1>4, <3>2
  <2>. QED
    BY <2>1, <2>2
<1>10. CASE 7680 <= x /\ x <= 15360
  <2>1. CASE z < 7680
    BY <1>1, <1>2, <1>3, <1>10, <2>1 DEF RsaBounds
  <2>2. CASE z >= 7680
    <3>1. 7680 <= z /\ z <= 15360
      BY <1>10, <2>2
    <3>2. /\ RsaSegment(x, y, 7680, 15360, 420, 220)
          /\ RsaSegment(z, u, 7680, 15360, 420, 220)
      BY <1>3, <1>10, <3>1 DEF RsaInside
    <3>. QED
      BY <1>1, <1>2, <1>4, <3>2
  <2>. QED
    BY <2>1, <2>2
<1>11. CASE x >= 15360
  BY <1>1, <1>2, <1>3, <1>11 DEF RsaBounds
<1>. QED
  BY <1>5, <1>6, <1>7, <1>8, <1>9, <1>10, <1>11

LEMMA PairFinite == \A a, b : IsFiniteSet({a, b})
<1> SUFFICES ASSUME NEW a, NEW b PROVE IsFiniteSet({a, b})
  OBVIOUS
<1>1. IsFiniteSet({a})
  BY FS_Singleton
<1>2. IsFiniteSet({a} \cup {b})
  BY <1>1, FS_AddElement
<1>3. {a, b} = {a} \cup {b}
  OBVIOUS
<1>. QED
  BY <1>2, <1>3

LEMMA EccStrength ==
    /\ E!_interp(E!_ECC_STRENGTH, 256) = 950
    /\ E!_interp(E!_ECC_STRENGTH, 384) = 820
    /\ E!_interp(E!_ECC_STRENGTH, 521) = 680
<1> DEFINE table == E!_ECC_STRENGTH
           keys == DOMAIN table
           below(x) == {k \in keys : k <= x} \cup {Min(keys)}
           above(x) == {k \in keys : k >= x} \cup {Max(keys)}
           lo(x) == Max(below(x))
           hi(x) == Min(above(x))
<1>1. /\ keys = {256, 384, 521}
      /\ table[256] = 950 /\ table[384] = 820 /\ table[521] = 680
  BY DEF E!_ECC_STRENGTH
<1> HIDE DEF table
<1>2. ASSUME NEW x
      PROVE  E!_interp(table, x) =
               IF lo(x) >= hi(x) THEN table[lo(x)]
               ELSE IF x <= lo(x) THEN table[lo(x)]
               ELSE IF x >= hi(x) THEN table[hi(x)]
               ELSE E!Between(table, x, lo(x), hi(x))
  BY SameExtremes, Zenon DEF E!_interp
<1> HIDE DEF keys
<1>3. IsFiniteSet(keys) /\ keys \subseteq Int /\ keys # {}
  <2>1. \A m, n \in Int : IsFiniteSet(m .. n)
    BY FS_Interval
  <2>2. \E m, n \in Int : keys \in SUBSET (m .. n)
    <3>1. PICK m \in Int : m = 256
      OBVIOUS
    <3>2. PICK n \in Int : n = 521
      OBVIOUS
    <3>3. keys \in SUBSET (m .. n)
      BY <1>1, <3>1, <3>2
    <3>. QED
      BY <3>3
  <2>3. IsFiniteSet(keys)
    BY <2>1, <2>2, FS_Subset
  <2>4. keys \subseteq Int /\ keys # {}
    BY <1>1
  <2>. QED
    BY <2>3, <2>4
<1>4. Min(keys) \in keys /\ Max(keys) \in keys
  BY <1>3, LeastInteger
<1>5. ASSUME NEW x \in keys
      PROVE  lo(x) = x /\ hi(x) = x
  <2>1. /\ below(x) \subseteq keys /\ above(x) \subseteq keys
        /\ x \in below(x) /\ x \in above(x)
    BY <1>3, <1>4
  <2>2. (\A z \in below(x) : z <= x \/ z = Min(keys)) /\ (\A z \in above(x) : z >= x \/ z = Max(keys))
    OBVIOUS
  <2>3. (\A z \in keys : Min(keys) <= z) /\ (\A z \in keys : Max(keys) >= z)
    BY <1>3, LeastInteger
  <2> HIDE DEF below, above
  <2>4. IsFiniteSet(below(x)) /\ IsFiniteSet(above(x))
    BY <1>3, <2>1, FS_Subset
  <2>5. below(x) \subseteq Int /\ above(x) \subseteq Int /\ below(x) # {} /\ above(x) # {}
    BY <1>3, <2>1
  <2>6. /\ lo(x) \in below(x) /\ (\A z \in below(x) : lo(x) >= z)
        /\ hi(x) \in above(x) /\ (\A z \in above(x) : hi(x) <= z)
    BY <2>4, <2>5, LeastInteger
  <2> HIDE DEF lo, hi
  <2>. QED
    BY <1>3, <2>1, <2>2, <2>3, <2>5, <2>6
<1> HIDE DEF lo, hi
<1>6. ASSUME NEW x \in keys
      PROVE  E!_interp(table, x) = table[x]
  BY <1>2, <1>3, <1>5
<1>. QED
  BY <1>1, <1>6 DEF table

\* What the proofs need of a key and of a request.
UsualKey(key) ==
    /\ key # Nothing /\ key.algo \notin {"factored", "elliptic"}
    /\ key.bits \in Nat \cup {Nothing}
    /\ key.curve \in {256, 384, 521, Nothing}

LEMMA StrengthOf ==
    ASSUME NEW key, UsualKey(key)
    PROVE  /\ E!strength_factor(key) \in Int
           /\ 0 <= E!strength_factor(key) /\ E!strength_factor(key) <= 1000
<1>1. CASE E!PostQuantum(key)
  BY <1>1 DEF E!strength_factor, E!PostQuantum, E!Elliptic, E!Factored
<1>2. CASE ~E!PostQuantum(key) /\ E!Elliptic(key)
  <2>1. E!strength_factor(key) =
          E!_interp(E!_ECC_STRENGTH, IF key.curve \in {521, 384} THEN key.curve ELSE 256)
    BY <1>2 DEF E!strength_factor, E!Elliptic, E!Factored
  <2>. QED
    BY <2>1, EccStrength DEF UsualKey
<1>3. CASE ~E!PostQuantum(key) /\ ~E!Elliptic(key) /\ E!Factored(key)
  <2>1. E!strength_factor(key) =
          E!_interp(E!_RSA_STRENGTH, IF key.bits = Nothing THEN 2048 ELSE key.bits)
    BY <1>3 DEF E!strength_factor
  <2>2. PICK x \in Int : x = IF key.bits = Nothing THEN 2048 ELSE key.bits
    BY DEF UsualKey
  <2>3. RsaBounds(x, E!_interp(E!_RSA_STRENGTH, x))
    BY RsaBounded
  <2>. QED
    BY <2>1, <2>2, <2>3 DEF RsaBounds
<1>4. CASE ~E!PostQuantum(key) /\ ~E!Elliptic(key) /\ ~E!Factored(key)
  BY <1>4 DEF E!strength_factor
<1>. QED
  BY <1>1, <1>2, <1>3, <1>4

LEMMA StrengthMonotone ==
    ASSUME NEW key, UsualKey(key), NEW other, UsualKey(other), E!AsStrong(key, other)
    PROVE  /\ E!strength_factor(key) <= E!strength_factor(other)
           /\ E!algo_factor(key) = E!algo_factor(other)
<1> USE DEF E!AsStrong, E!Family, E!Size
<1>1. CASE E!Factored(key)
  <2>1. E!Factored(other) /\ ~E!Elliptic(key) /\ ~E!Elliptic(other)
          /\ ~E!PostQuantum(key) /\ ~E!PostQuantum(other)
    BY <1>1 DEF E!Factored, E!Elliptic, E!PostQuantum, UsualKey
  <2>2. PICK x \in Int : x = IF key.bits = Nothing THEN 2048 ELSE key.bits
    BY DEF UsualKey
  <2>3. PICK z \in Int : z = IF other.bits = Nothing THEN 2048 ELSE other.bits
    BY DEF UsualKey
  <2>4. /\ E!strength_factor(key) = E!_interp(E!_RSA_STRENGTH, x)
        /\ E!strength_factor(other) = E!_interp(E!_RSA_STRENGTH, z)
    BY <1>1, <2>1, <2>2, <2>3 DEF E!strength_factor
  <2>5. x >= z
    BY <2>1, <2>2, <2>3
  <2>. QED
    BY <1>1, <2>1, <2>4, <2>5, RsaMonotone DEF E!algo_factor
<1>2. CASE ~E!Factored(key) /\ E!Elliptic(key)
  <2>1. ~E!Factored(other) /\ E!Elliptic(other)
          /\ ~E!PostQuantum(key) /\ ~E!PostQuantum(other)
    BY <1>2 DEF E!Factored, E!Elliptic, E!PostQuantum, UsualKey
  <2>2. /\ E!strength_factor(key) =
            E!_interp(E!_ECC_STRENGTH, IF key.curve \in {521, 384} THEN key.curve ELSE 256)
        /\ E!strength_factor(other) =
            E!_interp(E!_ECC_STRENGTH, IF other.curve \in {521, 384} THEN other.curve ELSE 256)
    BY <1>2, <2>1 DEF E!strength_factor
  <2>3. (IF key.curve = Nothing THEN 256 ELSE key.curve)
          >= (IF other.curve = Nothing THEN 256 ELSE other.curve)
    BY <1>2, <2>1
  <2>4. E!strength_factor(key) <= E!strength_factor(other)
    BY <2>2, <2>3, NothingAssumption, EccStrength DEF UsualKey
  <2>. QED
    BY <1>2, <2>1, <2>4 DEF E!algo_factor
<1>3. CASE ~E!Factored(key) /\ ~E!Elliptic(key)
  <2>1. ~E!Factored(other) /\ ~E!Elliptic(other) /\ (E!PostQuantum(key) <=> E!PostQuantum(other))
    BY <1>3 DEF E!Factored, E!Elliptic, E!PostQuantum, UsualKey
  <2>. QED
    BY <1>3, <2>1 DEF E!algo_factor, E!strength_factor
<1>. QED
  BY <1>1, <1>2, <1>3

\* The exposures of a request and its place between the bounds of the score.
LEMMA RequestParts ==
    ASSUME NEW c \in E!Call
    PROVE  /\ c.life \in Nat /\ c.ahead \in Int
           /\ c.exposure \in {"public", "transmitted", "internal", "sealed"}
           /\ E!_EXPOSURE[c.exposure] \in {1000, 750, 350, 100}
           /\ E!horizon(c) \in Nat \ {0}
           /\ E!horizon(c) = IF c.ahead >= 1 THEN c.ahead ELSE 1
<1>1. /\ c.life \in Nat /\ c.ahead \in Int
      /\ c.exposure \in {"public", "transmitted", "internal", "sealed"}
  BY ExposureAssumption DEF E!Call
<1>2. E!_EXPOSURE[c.exposure] \in {1000, 750, 350, 100}
  BY <1>1 DEF E!_EXPOSURE
<1>3. Max({1, c.ahead}) \in {1, c.ahead} /\ \A z \in {1, c.ahead} : Max({1, c.ahead}) >= z
  <2>1. IsFiniteSet({1, c.ahead})
    BY PairFinite
  <2>2. {1, c.ahead} \subseteq Int /\ {1, c.ahead} # {}
    BY <1>1
  <2>. QED
    BY <2>1, <2>2, LeastInteger
<1>4. E!horizon(c) = Max({1, c.ahead})
  BY SameExtremes, Zenon DEF E!horizon
<1>5. E!horizon(c) = IF c.ahead >= 1 THEN c.ahead ELSE 1
  BY <1>1, <1>3, <1>4
<1>. QED
  BY <1>1, <1>2, <1>5

LEMMA LongevityOf ==
    ASSUME NEW c \in E!Call
    PROVE  LET share == (1000 * c.life) \div E!horizon(c)
           IN  /\ share \in Nat
               /\ E!longevity_factor(c) = IF share <= 1000 THEN share ELSE 1000
<1> DEFINE share == (1000 * c.life) \div E!horizon(c)
<1>1. share \in Nat
  <2>1. PICK n \in Nat : n = 1000 * c.life
    BY RequestParts
  <2>. QED
    BY <2>1, RequestParts
<1>2. E!longevity_factor(c) = Min({1000, share})
  BY SameExtremes, Zenon DEF E!longevity_factor
<1> HIDE DEF share
<1>3. Min({1000, share}) \in {1000, share} /\ \A z \in {1000, share} : Min({1000, share}) <= z
  <2>1. IsFiniteSet({1000, share})
    <3>1. PICK n : n = 1000
      OBVIOUS
    <3>2. IsFiniteSet({n, share})
      BY PairFinite
    <3>. QED
      BY <3>1, <3>2
  <2>2. {1000, share} \subseteq Int /\ {1000, share} # {}
    BY <1>1
  <2>. QED
    BY <2>1, <2>2, LeastInteger
<1>4. E!longevity_factor(c) = IF share <= 1000 THEN share ELSE 1000
  BY <1>1, <1>2, <1>3
<1>. QED
  BY <1>1, <1>4 DEF share

LEMMA QuotientMonotone ==
    ASSUME NEW a \in Nat, NEW b \in Nat, a <= b,
           NEW c \in Nat \ {0}, NEW d \in Nat \ {0}, c >= d
    PROVE  a \div c <= b \div d
<1> DEFINE s == a \div c
           t == b \div d
<1>1. s \in Nat /\ t \in Nat /\ c * s <= a /\ b < d * (t + 1)
  OBVIOUS
<1> HIDE DEF s, t
<1>2. ASSUME s >= t + 1
      PROVE  FALSE
  <2>1. PICK p \in Nat : c = d + p
    OBVIOUS
  <2>2. PICK u \in Nat : s = (t + 1) + u
    BY <1>1, <1>2
  <2>3. p * s \in Nat /\ d * u \in Nat
    BY <1>1, <2>1, <2>2
  <2>4. c * s = d * (t + 1) + d * u + p * s
    BY <1>1, <2>1, <2>2
  <2>. QED
    BY <1>1, <2>3, <2>4
<1>. QED
  BY <1>1, <1>2 DEF s, t

LEMMA LongevityMonotone ==
    ASSUME NEW c \in E!Call, NEW d \in E!Call, c.life <= d.life, c.ahead >= d.ahead
    PROVE  E!longevity_factor(c) <= E!longevity_factor(d)
<1>1. 1000 * c.life \in Nat /\ 1000 * d.life \in Nat /\ 1000 * c.life <= 1000 * d.life
  BY RequestParts
<1>2. /\ E!horizon(c) \in Nat \ {0} /\ E!horizon(d) \in Nat \ {0}
      /\ E!horizon(c) >= E!horizon(d)
  <2>1. /\ c.ahead \in Int /\ d.ahead \in Int
        /\ E!horizon(c) = IF c.ahead >= 1 THEN c.ahead ELSE 1
        /\ E!horizon(d) = IF d.ahead >= 1 THEN d.ahead ELSE 1
    BY RequestParts
  <2>. QED
    BY <2>1
<1>3. (1000 * c.life) \div E!horizon(c) <= (1000 * d.life) \div E!horizon(d)
  <2>1. PICK a \in Nat, b \in Nat : a = 1000 * c.life /\ b = 1000 * d.life
    BY <1>1
  <2>2. a <= b
    BY <1>1, <2>1
  <2>3. a \div E!horizon(c) <= b \div E!horizon(d)
    BY <1>2, <2>2, QuotientMonotone
  <2>. QED
    BY <2>1, <2>3
<1>. QED
  BY <1>3, LongevityOf

\* A weighted sum and its score.
Weighed(s, l, x) == 4600000 + 800 * (9 * s + 8 * l + 6 * x)
Tenths(a, sum) == E!Rounded(a * sum, 46000)

LEMMA ScoreBetween ==
    ASSUME NEW a \in Int, NEW s \in Int, NEW l \in Int, NEW x \in Int,
           a = 1 \/ a = 2, 0 <= s, s <= 1000, 0 <= l, l <= 1000, 0 <= x, x <= 1000
    PROVE  /\ Tenths(a, Weighed(s, l, x)) \in Int
           /\ 0 < Tenths(a, Weighed(s, l, x))
           /\ Tenths(a, Weighed(s, l, x)) <= 1000
BY SMT DEF E!Rounded, Weighed, Tenths

LEMMA ScoreMonotone ==
    ASSUME NEW a \in Int, NEW s \in Int, NEW l \in Int, NEW x \in Int,
           NEW t \in Int, NEW m \in Int, NEW y \in Int,
           a = 1 \/ a = 2, s <= t, l <= m, x <= y
    PROVE  Tenths(a, Weighed(s, l, x)) <= Tenths(a, Weighed(t, m, y))
BY SMT DEF E!Rounded, Weighed, Tenths

LEMMA ScoreOf ==
    ASSUME NEW key, UsualKey(key), NEW c \in E!Call
    PROVE  /\ E!score_qes(key, c) \in Int
           /\ 0 <= E!score_qes(key, c) /\ E!score_qes(key, c) <= 1000
           /\ E!score_qes(key, c) = 0 <=> E!PostQuantum(key)
<1>1. E!score_qes(key, c) =
        Tenths(E!algo_factor(key), Weighed(E!strength_factor(key), E!longevity_factor(c),
                                          E!_EXPOSURE[c.exposure]))
  BY SMT DEF E!score_qes, Weighed, Tenths
<1>2. PICK s \in Int, l \in Int, x \in Int :
        /\ s = E!strength_factor(key) /\ 0 <= s /\ s <= 1000
        /\ l = E!longevity_factor(c) /\ 0 <= l /\ l <= 1000
        /\ x = E!_EXPOSURE[c.exposure] /\ 0 <= x /\ x <= 1000
  BY StrengthOf, LongevityOf, RequestParts
<1>3. CASE E!PostQuantum(key)
  <2>1. E!algo_factor(key) = 0
    BY <1>3 DEF E!algo_factor
  <2>2. Tenths(0, Weighed(s, l, x)) = 0
    BY SMT DEF E!Rounded, Weighed, Tenths
  <2>. QED
    BY <1>1, <1>2, <1>3, <2>1, <2>2
<1>4. CASE ~E!PostQuantum(key)
  <2>1. PICK a \in Int : a = E!algo_factor(key) /\ (a = 1 \/ a = 2)
    BY <1>4 DEF E!algo_factor
  <2>2. E!score_qes(key, c) = Tenths(a, Weighed(s, l, x))
    BY <1>1, <1>2, <2>1
  <2>3. /\ Tenths(a, Weighed(s, l, x)) \in Int
        /\ 0 < Tenths(a, Weighed(s, l, x)) /\ Tenths(a, Weighed(s, l, x)) <= 1000
    <3>1. 0 <= s /\ s <= 1000 /\ 0 <= l /\ l <= 1000 /\ 0 <= x /\ x <= 1000
      BY <1>2
    <3>2. a = 1 \/ a = 2
      BY <2>1
    <3>. QED
      BY <3>1, <3>2, ScoreBetween
  <2>. QED
    BY <1>4, <2>2, <2>3
<1>. QED
  BY <1>3, <1>4

LEMMA ScoresInOrder ==
    ASSUME NEW key, UsualKey(key), NEW other, UsualKey(other), E!AsStrong(key, other),
           NEW c \in E!Call, NEW d \in E!Call, E!AsSafe(c, d)
    PROVE  E!score_qes(key, c) <= E!score_qes(other, d)
<1>1. /\ E!score_qes(key, c) =
          Tenths(E!algo_factor(key), Weighed(E!strength_factor(key), E!longevity_factor(c),
                                             E!_EXPOSURE[c.exposure]))
      /\ E!score_qes(other, d) =
          Tenths(E!algo_factor(other), Weighed(E!strength_factor(other), E!longevity_factor(d),
                                               E!_EXPOSURE[d.exposure]))
  BY SMT DEF E!score_qes, Weighed, Tenths
<1>2. PICK s \in Int, l \in Int, x \in Int :
        s = E!strength_factor(key) /\ l = E!longevity_factor(c) /\ x = E!_EXPOSURE[c.exposure]
  BY StrengthOf, LongevityOf, RequestParts
<1>3. PICK t \in Int, m \in Int, y \in Int :
        t = E!strength_factor(other) /\ m = E!longevity_factor(d) /\ y = E!_EXPOSURE[d.exposure]
  BY StrengthOf, LongevityOf, RequestParts
<1>4. s <= t /\ E!algo_factor(key) = E!algo_factor(other)
  BY <1>2, <1>3, StrengthMonotone
<1>5. l <= m /\ x <= y
  BY <1>2, <1>3, LongevityMonotone DEF E!AsSafe
<1>6. CASE E!PostQuantum(key)
  <2>1. E!algo_factor(key) = 0
    BY <1>6 DEF E!algo_factor
  <2>2. Tenths(0, Weighed(s, l, x)) = 0 /\ Tenths(0, Weighed(t, m, y)) = 0
    BY SMT DEF E!Rounded, Weighed, Tenths
  <2>. QED
    BY <1>1, <1>2, <1>3, <1>4, <2>1, <2>2
<1>7. CASE ~E!PostQuantum(key)
  <2>1. PICK a \in Int : a = E!algo_factor(key) /\ (a = 1 \/ a = 2)
    BY <1>7 DEF E!algo_factor
  <2>2. /\ E!score_qes(key, c) = Tenths(a, Weighed(s, l, x))
        /\ E!score_qes(other, d) = Tenths(a, Weighed(t, m, y))
    BY <1>1, <1>2, <1>3, <1>4, <2>1
  <2>3. Tenths(a, Weighed(s, l, x)) <= Tenths(a, Weighed(t, m, y))
    BY <1>4, <1>5, <2>1, ScoreMonotone
  <2>. QED
    BY <2>2, <2>3
<1>. QED
  BY <1>6, <1>7

LEMMA BandsInOrder ==
    ASSUME NEW a \in Int, NEW b \in Int, a <= b
    PROVE  E!Urgency[E!band(a)] <= E!Urgency[E!band(b)]
BY DEF E!Urgency, E!band

\* A score is the row of an event that is still there.
ExposureInv ==
    /\ v1 \in Feeds
    /\ v2 \in Nat /\ v2 <= Len(v1)                             \* arrived
    /\ v3 \in Nat /\ v3 <= v2                                  \* purged
    /\ v5 \in [Takers -> {"idle", "commit", "answered", "failed"}]
    /\ DOMAIN v6 = Takers
    /\ v7 \in [Takers -> SUBSET Nat]                           \* samples
    /\ \A r \in Takers :
          v5[r] = "commit" =>
              /\ v6[r] \in E!Call
              /\ \A e \in v7[r] : e >= 1 /\ e <= v2 /\ v1[e].key # Nothing
    /\ \A s \in v4 :
          /\ s.event \in Nat /\ s.event > v3 /\ s.event <= v2
          /\ v1[s.event].key # Nothing
          /\ \E c \in E!Call : s = E!Row(s.event, c)

LEMMA ExposureInit ==
    ASSUME E!Init
    PROVE  ExposureInv
BY FeedAssumption DEF E!Init, ExposureInv

LEMMA VerifyStep ==
    ASSUME ExposureInv, E!Verify
    PROVE  ExposureInv'
<1>1. /\ v2 < Len(v1) /\ v2' = v2 + 1
      /\ UNCHANGED <<v1, v3, v4, v5, v6, v7>>
  BY DEF E!Verify
<1>2. v1 \in Feeds /\ v2 \in Nat /\ Len(v1) \in Nat /\ v3 \in Nat /\ v3 <= v2
  BY FeedAssumption DEF ExposureInv
<1>3. \A s \in v4 : (\E c \in E!Call : s = E!Row(s.event, c))' <=> \E c \in E!Call : s = E!Row(s.event, c)
  BY <1>1 DEF E!Row
<1>4. \A r \in Takers :
          v5'[r] = "commit" =>
              /\ v6'[r] \in E!Call
              /\ \A e \in v7'[r] : e >= 1 /\ e <= v2' /\ v1'[e].key # Nothing
  <2>1. ASSUME NEW r \in Takers, v5[r] = "commit"
        PROVE  v6[r] \in E!Call /\ \A e \in v7[r] : e >= 1 /\ e <= v2 + 1 /\ v1[e].key # Nothing
    BY <1>2, <2>1 DEF ExposureInv
  <2>. QED
    BY <1>1, <2>1
<1>5. \A s \in v4 :
          /\ s.event \in Nat /\ s.event > v3 /\ s.event <= v2 + 1
          /\ v1[s.event].key # Nothing
          /\ \E c \in E!Call : s = E!Row(s.event, c)
  BY <1>2 DEF ExposureInv
<1>6. /\ v1' \in Feeds /\ v2' \in Nat /\ v2' <= Len(v1') /\ v3' \in Nat /\ v3' <= v2'
      /\ v5' \in [Takers -> {"idle", "commit", "answered", "failed"}]
      /\ DOMAIN v6' = Takers /\ v7' \in [Takers -> SUBSET Nat]
  BY <1>1, <1>2 DEF ExposureInv
<1>7. \A s \in v4' :
          /\ s.event \in Nat /\ s.event > v3' /\ s.event <= v2'
          /\ v1'[s.event].key # Nothing
          /\ (\E c \in E!Call : s = E!Row(s.event, c))'
  BY <1>1, <1>3, <1>5
<1>. QED
  BY <1>4, <1>6, <1>7 DEF ExposureInv

LEMMA PurgeStep ==
    ASSUME ExposureInv, E!Purge
    PROVE  ExposureInv'
<1>1. /\ v3 < v2 /\ v3' = v3 + 1 /\ v4' = {s \in v4 : s.event # v3'}
      /\ UNCHANGED <<v1, v2, v5, v6, v7>>
  BY DEF E!Purge
<1>2. v2 \in Nat /\ v3 \in Nat
  BY DEF ExposureInv
<1>3. \A s \in v4' :
          /\ s.event \in Nat /\ s.event > v3' /\ s.event <= v2'
          /\ v1'[s.event].key # Nothing
          /\ (\E c \in E!Call : s = E!Row(s.event, c))'
  <2>1. \A s : (\E c \in E!Call : s = E!Row(s.event, c))' <=> \E c \in E!Call : s = E!Row(s.event, c)
    BY <1>1 DEF E!Row
  <2>2. ASSUME NEW s \in v4, s.event # v3 + 1
        PROVE  /\ s.event \in Nat /\ s.event > v3 + 1 /\ s.event <= v2
               /\ v1[s.event].key # Nothing
               /\ \E c \in E!Call : s = E!Row(s.event, c)
    BY <1>2, <2>2 DEF ExposureInv
  <2>. QED
    BY <1>1, <2>1, <2>2
<1>. QED
  BY <1>1, <1>2, <1>3 DEF ExposureInv

LEMMA ReadsStep ==
    ASSUME ExposureInv, NEW r \in Takers, NEW c \in E!Call, NEW begin \in DOMAIN v1,
           E!Reads(r, c, begin)
    PROVE  ExposureInv'
<1>1. PICK W \in SUBSET E!Recent(begin) :
        /\ v6' = [v6 EXCEPT ![r] = c]
        /\ v7' = [v7 EXCEPT ![r] = W]
        /\ v5' = [v5 EXCEPT ![r] = IF E!Recent(begin) = {} THEN "answered" ELSE "commit"]
        /\ UNCHANGED <<v1, v2, v3, v4>>
  BY DEF E!Reads
<1>2. v1 \in Feeds /\ v2 \in Nat /\ begin \in Nat /\ begin >= 1
  BY FeedAssumption DEF ExposureInv
<1>3. \A e \in W : e \in Nat /\ e >= 1 /\ e <= v2 /\ v1[e].key # Nothing
  BY <1>1, <1>2 DEF E!Recent
<1>4. /\ v5' \in [Takers -> {"idle", "commit", "answered", "failed"}]
      /\ DOMAIN v6' = Takers /\ v7' \in [Takers -> SUBSET Nat]
  BY <1>1, <1>3 DEF ExposureInv
<1>5. ASSUME NEW t \in Takers, v5'[t] = "commit"
      PROVE  v6'[t] \in E!Call /\ \A e \in v7'[t] : e >= 1 /\ e <= v2 /\ v1[e].key # Nothing
  <2>1. CASE t = r
    BY <1>1, <1>3, <2>1 DEF ExposureInv
  <2>2. CASE t # r
    BY <1>1, <1>5, <2>2 DEF ExposureInv
  <2>. QED
    BY <2>1, <2>2
<1>6. \A s : (\E d \in E!Call : s = E!Row(s.event, d))' <=> \E d \in E!Call : s = E!Row(s.event, d)
  BY <1>1 DEF E!Row
<1>. QED
  BY <1>1, <1>4, <1>5, <1>6 DEF ExposureInv

LEMMA CommitsStep ==
    ASSUME ExposureInv, NEW r \in Takers, E!Commits(r)
    PROVE  ExposureInv'
<1>1. /\ v5[r] = "commit" /\ \A e \in v7[r] : e > v3
      /\ v4' = v4 \cup {E!Row(e, v6[r]) : e \in v7[r]}
      /\ v5' = [v5 EXCEPT ![r] = "answered"]
      /\ UNCHANGED <<v1, v2, v3, v6, v7>>
  BY DEF E!Commits, E!Cited
<1>2. v6[r] \in E!Call /\ \A e \in v7[r] : e \in Nat /\ e <= v2 /\ v1[e].key # Nothing
  BY <1>1 DEF ExposureInv
<1>3. \A e : E!Row(e, v6[r]).event = e
  BY DEF E!Row
<1>4. \A s : (\E d \in E!Call : s = E!Row(s.event, d))' <=> \E d \in E!Call : s = E!Row(s.event, d)
  BY <1>1 DEF E!Row
<1>5. ASSUME NEW s \in v4'
      PROVE  /\ s.event \in Nat /\ s.event > v3 /\ s.event <= v2
             /\ v1[s.event].key # Nothing
             /\ \E d \in E!Call : s = E!Row(s.event, d)
  <2>1. CASE s \in v4
    BY <2>1 DEF ExposureInv
  <2>2. CASE s \notin v4
    <3>1. PICK e \in v7[r] : s = E!Row(e, v6[r])
      BY <1>1, <2>2
    <3>2. s.event = e
      BY <1>3, <3>1
    <3>. QED
      BY <1>1, <1>2, <3>1, <3>2
  <2>. QED
    BY <2>1, <2>2
<1>6. \A s \in v4' :
          /\ s.event \in Nat /\ s.event > v3' /\ s.event <= v2'
          /\ v1'[s.event].key # Nothing
          /\ (\E d \in E!Call : s = E!Row(s.event, d))'
  BY <1>1, <1>4, <1>5
<1>7. \A t \in Takers : v5'[t] = "commit" => v5[t] = "commit"
  BY <1>1 DEF ExposureInv
<1>8. v5' \in [Takers -> {"idle", "commit", "answered", "failed"}]
  BY <1>1 DEF ExposureInv
<1>9. \A t \in Takers :
        v5'[t] = "commit" =>
            v6'[t] \in E!Call /\ \A e \in v7'[t] : e >= 1 /\ e <= v2' /\ v1'[e].key # Nothing
  BY <1>1, <1>7 DEF ExposureInv
<1>. QED
  BY <1>1, <1>6, <1>8, <1>9 DEF ExposureInv

LEMMA FailsStep ==
    ASSUME ExposureInv, NEW r \in Takers, E!Fails(r)
    PROVE  ExposureInv'
<1>1. /\ v5' = [v5 EXCEPT ![r] = "failed"]
      /\ UNCHANGED <<v1, v2, v3, v4, v6, v7>>
  BY DEF E!Fails
<1>2. \A s : (\E d \in E!Call : s = E!Row(s.event, d))' <=> \E d \in E!Call : s = E!Row(s.event, d)
  BY <1>1 DEF E!Row
<1>3. /\ v5' \in [Takers -> {"idle", "commit", "answered", "failed"}]
      /\ \A t \in Takers : v5'[t] = "commit" => v5[t] = "commit"
  BY <1>1 DEF ExposureInv
<1>. QED
  BY <1>1, <1>2, <1>3 DEF ExposureInv

LEMMA ExposureStep ==
    ASSUME ExposureInv, E!Next \/ UNCHANGED E!vars
    PROVE  ExposureInv'
<1>1. CASE UNCHANGED E!vars
  <2>1. UNCHANGED <<v1, v2, v3, v4, v5, v6, v7>>
    BY <1>1 DEF E!vars
  <2>2. \A s : (\E d \in E!Call : s = E!Row(s.event, d))' <=> \E d \in E!Call : s = E!Row(s.event, d)
    BY <2>1 DEF E!Row
  <2>. QED
    BY <2>1, <2>2 DEF ExposureInv
<1>2. CASE \E r \in Takers, c \in E!Call, begin \in DOMAIN v1 : E!Reads(r, c, begin)
  BY <1>2, ReadsStep
<1>. QED
  BY <1>1, <1>2, VerifyStep, PurgeStep, CommitsStep, FailsStep DEF E!Next

LEMMA RowsStand ==
    ASSUME ExposureInv
    PROVE  E!ScoresStand
<1>1. ASSUME NEW s \in v4
      PROVE  /\ s.event > v3 /\ s.event <= v2 /\ s.event \in Nat
             /\ s.key = v1[s.event].key /\ UsualKey(s.key) /\ s.call \in E!Call
             /\ s.qes = E!score_qes(s.key, s.call) /\ s.band = E!band(s.qes)
  <2>1. /\ s.event > v3 /\ s.event <= v2 /\ s.event \in Nat /\ v3 \in Nat
        /\ v1 \in Feeds /\ v2 \in Nat /\ v2 <= Len(v1) /\ v1[s.event].key # Nothing
    BY <1>1 DEF ExposureInv
  <2>2. PICK c \in E!Call : s = E!Row(s.event, c)
    BY <1>1 DEF ExposureInv
  <2>3. /\ s.key = v1[s.event].key /\ s.call = c
        /\ s.qes = E!score_qes(s.key, c) /\ s.band = E!band(s.qes)
    BY <2>2 DEF E!Row
  <2>4. s.event \in DOMAIN v1
    BY <2>1, FeedAssumption
  <2>5. UsualKey(v1[s.event].key)
    BY <2>1, <2>4, FeedAssumption DEF UsualKey
  <2>. QED
    BY <2>1, <2>2, <2>3, <2>5
<1>2. ASSUME NEW s \in v4
      PROVE  s.event \in v3 + 1 .. v2
  BY <1>1, <1>2 DEF ExposureInv
<1>3. ASSUME NEW s \in v4
      PROVE  /\ s.qes \in 0 .. 1000 /\ (s.qes = 0) = E!PostQuantum(s.key)
             /\ E!PostQuantum(s.key) => s.band = "ok"
  <2>1. UsualKey(s.key) /\ s.call \in E!Call /\ s.qes = E!score_qes(s.key, s.call)
          /\ s.band = E!band(s.qes)
    BY <1>1, <1>3
  <2>2. /\ s.qes \in Int /\ 0 <= s.qes /\ s.qes <= 1000
        /\ s.qes = 0 <=> E!PostQuantum(s.key)
    BY <2>1, ScoreOf
  <2>3. s.qes \in 0 .. 1000
    <3>1. PICK n \in Int : n = 1000
      OBVIOUS
    <3>2. s.qes \in 0 .. n
      BY <2>2, <3>1
    <3>. QED
      BY <3>1, <3>2
  <2>4. E!PostQuantum(s.key) \in BOOLEAN
    BY DEF E!PostQuantum
  <2>5. E!PostQuantum(s.key) => s.band = "ok"
    <3>1. E!band(0) = "ok"
      BY DEF E!band
    <3>. QED
      BY <2>1, <2>2, <3>1
  <2>. QED
    BY <2>2, <2>3, <2>4, <2>5
<1>4. ASSUME NEW s \in v4, NEW t \in v4, E!AsStrong(s.key, t.key), E!AsSafe(s.call, t.call)
      PROVE  s.qes <= t.qes /\ E!Urgency[s.band] <= E!Urgency[t.band]
  <2>1. s.qes <= t.qes
    BY <1>1, <1>4, ScoresInOrder
  <2>2. s.qes \in Int /\ t.qes \in Int
    BY <1>1, <1>4, ScoreOf
  <2>3. s.band = E!band(s.qes) /\ t.band = E!band(t.qes)
    BY <1>1
  <2>. QED
    BY <2>1, <2>2, <2>3, BandsInOrder
<1>. QED
  BY <1>1, <1>2, <1>3, <1>4 DEF E!ScoresStand

(***************************************************************************)
(* Whatever the feeds, the windows and the purges, every stored score cites *)
(* an event that is still there, a post-quantum key and only it scores     *)
(* nothing, and neither score nor band falls from a key to another of its  *)
(* family that is as weak, with data that is at as much risk: score_qes    *)
(* (services/quantum/pq_risk.py) and score_portfolio (quantum/service.py). *)
(***************************************************************************)
THEOREM ScoresStandAlways == MCSpec => []ScoresStand
<1> DEFINE IInv == part = "exposure" => ExposureInv
<1>1. MCInit => IInv
  BY ExposureInit DEF MCInit
<1>2. IInv /\ [MCNext]_mcvars => IInv'
  BY PartStep, ExposureStep
<1>3. IInv => ScoresStand
  BY RowsStand DEF ScoresStand
<1>. QED
  BY <1>1, <1>2, <1>3, PTL DEF MCSpec

LEMMA EnergyAdd ==
    ASSUME NEW q, QuboModel(q), NEW v \in Variables(q), NEW x \in SUBSET (Variables(q) \ {v}),
           NEW g, \A u \in x : g[u] = q.quadratic[{u, v}]
    PROVE  /\ energy(q, x \cup {v}) = energy(q, x) + q.linear[v] + Total(g, x)
           /\ Total(g, x) \in Int
<1> DEFINE y == x \cup {v}
           new == Pairs(y) \ Pairs(x)
           edge == [u \in x |-> {u, v}]
<1>1. IsFiniteSet(x) /\ IsFiniteSet(y) /\ x \subseteq y /\ y \subseteq Variables(q) /\ v \notin x
  BY VariablesFinite, FS_Subset
<1> HIDE DEF y
<1>2. /\ IsFiniteSet(Pairs(y)) /\ Pairs(x) \subseteq Pairs(y) /\ IsFiniteSet(new)
      /\ Pairs(y) \subseteq Pairs(Variables(q)) /\ Pairs(y) \ Pairs(x) = new
  BY <1>1, VariablesFinite, PairsOf, PairsWithin, FS_Subset
<1>3. /\ \A e : e \in Pairs(y) <=> \E a, b \in y : a # b /\ e = {a, b}
      /\ \A e : e \in Pairs(x) <=> \E a, b \in x : a # b /\ e = {a, b}
  BY <1>1, PairsOf
<1>4. new = {edge[u] : u \in x}
  <2>1. ASSUME NEW e \in new PROVE \E u \in x : e = {u, v}
    <3>1. PICK a \in y, b \in y : a # b /\ e = {a, b}
      BY <1>3
    <3>2. ~(a \in x /\ b \in x)
      BY <1>3, <3>1
    <3>. QED
      BY <3>1, <3>2 DEF y
  <2>2. ASSUME NEW u \in x PROVE {u, v} \in new
    <3>1. {u, v} \in Pairs(y)
      BY <1>1, <1>3 DEF y
    <3>2. {u, v} \notin Pairs(x)
      BY <1>1, <1>3
    <3>. QED
      BY <3>1, <3>2
  <2> HIDE DEF new
  <2>. QED
    BY <2>1, <2>2
<1>5. /\ \A e \in Pairs(y) : q.quadratic[e] \in Int
      /\ \A u \in y : q.linear[u] \in Int
      /\ q.offset \in Int /\ v \in y
  BY <1>1, <1>2 DEF QuboModel, y
<1>6. \A u \in x : g[u] \in Int /\ q.quadratic[edge[u]] = g[u]
  <2>1. ASSUME NEW u \in x PROVE {u, v} \in Pairs(y)
    BY <1>1, <1>3 DEF y
  <2>. QED
    BY <1>5, <2>1
<1>7. \A a, b \in x : edge[a] = edge[b] => a = b
  BY <1>1
<1> HIDE DEF edge, new
<1>8. Total(q.quadratic, new) = Total(g, x)
  BY <1>1, <1>4, <1>6, <1>7, TotalImage
<1>9. Total(q.quadratic, Pairs(y)) = Total(q.quadratic, Pairs(x)) + Total(q.quadratic, new)
  BY <1>2, <1>5, TotalParts
<1>10. y \ {v} = x
  BY <1>1 DEF y
<1>11. Total(q.linear, y) = q.linear[v] + Total(q.linear, x)
  BY <1>1, <1>5, <1>10, TotalRemove
<1>12. /\ Total(g, x) \in Int /\ Total(q.linear, x) \in Int
       /\ Total(q.quadratic, Pairs(x)) \in Int /\ q.linear[v] \in Int
  <2>1. Total(g, x) \in Int
    BY <1>1, <1>6, TotalInteger
  <2>2. Total(q.linear, x) \in Int
    BY <1>1, <1>5, TotalInteger
  <2>3. IsFiniteSet(Pairs(x)) /\ \A e \in Pairs(x) : q.quadratic[e] \in Int
    BY <1>2, <1>5, FS_Subset
  <2>4. Total(q.quadratic, Pairs(x)) \in Int
    BY <2>3, TotalInteger
  <2>. QED
    BY <1>5, <2>1, <2>2, <2>4
<1>13. /\ energy(q, y) = Total(q.linear, y) + Total(q.quadratic, Pairs(y)) + q.offset
       /\ energy(q, x) = Total(q.linear, x) + Total(q.quadratic, Pairs(x)) + q.offset
  BY DEF energy, Total
<1>. QED
  BY <1>5, <1>8, <1>9, <1>11, <1>12, <1>13 DEF y

LEMMA Quotient ==
    ASSUME NEW m \in Nat \ {0}, NEW v \in Nat
    PROVE  v \div m \in Nat /\ v % m \in 0 .. m - 1 /\ v = m * (v \div m) + (v % m)
<1>1. v \div m \in Nat
  OBVIOUS
<1>2. v % m \in 0 .. m - 1
  OBVIOUS
<1>3. v = m * (v \div m) + (v % m)
  OBVIOUS
<1>. QED
  BY <1>1, <1>2, <1>3

LEMMA PlaceParts ==
    ASSUME NEW n \in Nat, NEW m \in Nat \ {0}, NEW v \in 0 .. n * m - 1
    PROVE  /\ v \div m \in 0 .. n - 1 /\ v % m \in 0 .. m - 1
           /\ v = (v \div m) * m + (v % m)
<1>1. n * m \in Int
  OBVIOUS
<1>2. v \in Nat /\ v < n * m
  BY <1>1
<1>3. v \div m \in Nat /\ v % m \in 0 .. m - 1 /\ v = m * (v \div m) + (v % m)
  BY <1>2, Quotient
<1>4. ASSUME v \div m >= n
      PROVE  FALSE
  <2>1. PICK d \in Nat : v \div m = n + d
    BY <1>3, <1>4
  <2>2. m * (n + d) = n * m + m * d /\ m * d \in Nat
    BY <2>1
  <2>. QED
    BY <1>1, <1>2, <1>3, <2>1, <2>2
<1>5. m * (v \div m) = (v \div m) * m
  BY <1>3
<1>. QED
  BY <1>3, <1>4, <1>5

LEMMA PlaceAt ==
    ASSUME NEW n \in Nat, NEW m \in Nat \ {0}, NEW i \in 0 .. n - 1, NEW j \in 0 .. m - 1
    PROVE  /\ i * m + j \in 0 .. n * m - 1
           /\ (i * m + j) \div m = i /\ (i * m + j) % m = j
<1>1. PICK d \in Nat : n = i + 1 + d
  OBVIOUS
<1>2. n * m = i * m + m + d * m /\ i * m \in Nat /\ d * m \in Nat
  BY <1>1
<1>3. PICK v \in Nat : v = i * m + j
  BY <1>2
<1>4. v \in 0 .. n * m - 1
  BY <1>2, <1>3
<1> DEFINE s == v \div m
<1>5. s \in Nat /\ v % m \in 0 .. m - 1 /\ v = m * s + (v % m)
  BY Quotient
<1>6. m * i = i * m
  OBVIOUS
<1> HIDE DEF s
<1>7. s = i
  <2>1. CASE s > i
    <3>1. PICK p \in Nat : s = i + 1 + p
      BY <1>5, <2>1
    <3>2. m * s = m * i + m + m * p /\ m * p \in Nat
      BY <3>1
    <3>3. m * i \in Nat /\ m * s >= m * i + m
      BY <3>2
    <3>. QED
      BY <1>2, <1>3, <1>5, <1>6, <3>3
  <2>2. CASE s < i
    <3>1. PICK p \in Nat : i = s + 1 + p
      BY <1>5, <2>2
    <3>2. m * i = m * s + m + m * p /\ m * p \in Nat /\ m * s \in Nat
      BY <1>5, <3>1
    <3>. QED
      BY <1>2, <1>3, <1>5, <1>6, <3>2
  <2>. QED
    BY <1>5, <2>1, <2>2
<1>8. v % m = j
  BY <1>2, <1>3, <1>5, <1>6, <1>7
<1>. QED
  BY <1>3, <1>4, <1>7, <1>8 DEF s

LEMMA SamePlanner ==
    /\ \A q : /\ P!Variables(q) = Variables(q) /\ P!brute_force(q) = brute_force(q)
    /\ \A X : P!Min(X) = Min(X) /\ P!Max(X) = Max(X) /\ P!Cardinality(X) = Cardinality(X)
              /\ P!Pairs(X) = Pairs(X)
    /\ \A f : P!SumFunction(f) = Total(f, DOMAIN f)
<1>. USE DEF P!SumFunction, P!SumFunctionOnSet, P!FoldFunctionOnSet, P!MapThenFoldSet,
             SumFunction, SumFunctionOnSet, FoldFunctionOnSet, MapThenFoldSet,
             P!Cardinality, Cardinality, P!kSubset, kSubset, P!Pairs, Pairs,
             P!Variables, Variables
<1>1. \A q : P!Variables(q) = Variables(q)
  BY Zenon
<1>2. \A q, x : P!energy(q, x) = energy(q, x)
  BY Zenon DEF P!energy, energy
<1>3. \A X : P!Min(X) = Min(X) /\ P!Max(X) = Max(X)
  BY Zenon DEF P!Min, Min, P!Max, Max
<1>4. \A q : P!Optima(q) = Optima(q)
  BY <1>2, <1>3, Zenon DEF P!Optima, Optima
<1>5. \A q : P!brute_force(q) = brute_force(q)
  BY <1>3, <1>4, Zenon DEF P!brute_force, brute_force, P!Before, Before, P!SymDiff, SymDiff
<1>6. \A X : P!Cardinality(X) = Cardinality(X)
  BY Zenon
<1>7. \A X : P!Pairs(X) = Pairs(X)
  BY Zenon
<1>8. \A f : P!SumFunction(f) = Total(f, DOMAIN f)
  BY Zenon DEF Total
<1>. QED
  BY <1>1, <1>3, <1>5, <1>6, <1>7, <1>8, Zenon

\* The request of a planner.
Requested ==
    /\ v1.ids \in Portfolios /\ v1.waves \in WaveCounts
    /\ v1.wave_capacity \in Capacities /\ v1.exact \in BOOLEAN

Effort(i) == v1.ids[i + 1].effort
Places == 0 .. P!N * P!w - 1

LEMMA RequestedParts ==
    ASSUME Requested
    PROVE  /\ P!N \in Nat \ {0} /\ P!w \in Nat \ {0} /\ DOMAIN v1.ids = 1 .. P!N
           /\ \A i \in 0 .. P!N - 1 :
                 /\ v1.ids[i + 1].qes \in Nat /\ v1.ids[i + 1].criticality \in 1 .. 5
                 /\ Effort(i) \in Nat \ {0}
<1>1. v1.ids \in Portfolios /\ P!N = Len(v1.ids) /\ P!w = v1.waves
  BY DEF Requested, P!N, P!w, P!ids
<1>2. P!N \in Nat \ {0} /\ DOMAIN v1.ids = 1 .. P!N
  BY <1>1, PlannerAssumption
<1>3. P!w \in Nat \ {0}
  BY <1>1, PlannerAssumption DEF Requested
<1>4. \A i \in 0 .. P!N - 1 : i + 1 \in DOMAIN v1.ids
  BY <1>2
<1>5. \A i \in DOMAIN v1.ids : /\ v1.ids[i].qes \in Nat /\ v1.ids[i].criticality \in 1 .. 5
                              /\ v1.ids[i].effort \in Nat \ {0}
  BY <1>1, PlannerAssumption
<1>. QED
  BY <1>2, <1>3, <1>4, <1>5 DEF Effort

LEMMA CapacityPositive ==
    ASSUME Requested
    PROVE  P!cap \in Nat \ {0}
<1>1. CASE v1.wave_capacity # 0
  BY <1>1, PlannerAssumption DEF P!cap, Requested
<1>2. CASE v1.wave_capacity = 0
  <2> DEFINE f == [i \in DOMAIN v1.ids |-> v1.ids[i].effort]
             X == 1 .. P!N
  <2>1. P!total_effort = Total(f, X)
    <3>1. P!total_effort = Total(f, DOMAIN f)
      BY SamePlanner, Zenon DEF P!total_effort, P!ids
    <3>. QED
      BY <3>1, RequestedParts
  <2>2. IsFiniteSet(X) /\ IsFiniteSet(X \ {1}) /\ 1 \in X
    <3>1. 1 \in Int /\ P!N \in Int
      BY RequestedParts
    <3>2. IsFiniteSet(X)
      BY <3>1, FS_Interval
    <3>. QED
      BY <3>2, FS_Subset, RequestedParts
  <2>3. \A i \in X : f[i] \in Nat \ {0}
    BY PlannerAssumption, RequestedParts DEF Requested
  <2> HIDE DEF f, X
  <2>4. \A i \in X : f[i] \in Int
    BY <2>3
  <2>5. \A i \in X \ {1} : f[i] \in Nat
    BY <2>3
  <2>6. Total(f, X) = f[1] + Total(f, X \ {1})
    BY <2>2, <2>4, TotalRemove
  <2>7. Total(f, X \ {1}) \in Nat
    BY <2>2, <2>5, TotalNatural
  <2>8. P!total_effort \in Nat \ {0}
    BY <2>1, <2>2, <2>3, <2>6, <2>7
  <2>9. PICK v \in Nat : v = P!total_effort + P!w - 1
    BY <2>8, RequestedParts
  <2>10. v \div P!w \in Nat /\ v % P!w \in 0 .. P!w - 1 /\ v = P!w * (v \div P!w) + (v % P!w)
    BY RequestedParts, Quotient
  <2>11. v \div P!w # 0
    <3>1. ASSUME v \div P!w = 0
          PROVE  FALSE
      <4>1. P!w * 0 = 0 /\ v >= P!w
        BY <2>8, <2>9, RequestedParts
      <4>. QED
        BY <2>10, <3>1, <4>1, RequestedParts
    <3>. QED
      BY <3>1
  <2>12. P!cap = v \div P!w
    BY <1>2, <2>9 DEF P!cap
  <2>. QED
    BY <2>10, <2>11, <2>12
<1>. QED
  BY <1>1, <1>2

LEMMA ScaleBounds ==
    ASSUME Requested
    PROVE  /\ P!weight_scale \in Nat \ {0}
           /\ \A i \in 0 .. P!N - 1 : v1.ids[i + 1].qes <= P!weight_scale
<1> DEFINE f == [i \in DOMAIN v1.ids |-> v1.ids[i].qes]
           B == {v1.ids[i].qes : i \in DOMAIN v1.ids}
           X == {1} \cup B
<1>1. P!weight_scale = Max(X)
  BY SamePlanner, Zenon DEF P!weight_scale, P!ids
<1>2. IsFiniteSet(DOMAIN v1.ids)
  <2>1. 1 \in Int /\ P!N \in Int
    BY RequestedParts
  <2>. QED
    BY <2>1, FS_Interval, RequestedParts
<1>3. f \in Surjection(DOMAIN v1.ids, B)
  BY DEF Surjection
<1>4. B \subseteq Nat
  BY PlannerAssumption DEF Requested
<1>5. \A i \in 0 .. P!N - 1 : v1.ids[i + 1].qes \in B
  BY RequestedParts
<1> HIDE DEF f, B
<1>6. IsFiniteSet(B)
  BY <1>2, <1>3, FS_Surjection
<1>7. IsFiniteSet(X) /\ X \subseteq Int /\ X # {} /\ 1 \in X
  <2>1. IsFiniteSet(B \cup {1})
    BY <1>6, FS_AddElement
  <2>2. X = B \cup {1}
    OBVIOUS
  <2>. QED
    BY <1>4, <2>1, <2>2
<1> HIDE DEF X
<1>8. Max(X) \in X /\ \A y \in X : Max(X) >= y
  BY <1>7, LeastInteger
<1>9. Max(X) \in Int
  BY <1>7, <1>8
<1>10. \A i \in 0 .. P!N - 1 : v1.ids[i + 1].qes <= Max(X)
  BY <1>5, <1>8 DEF X
<1>. QED
  BY <1>1, <1>7, <1>8, <1>9, <1>10

Owner(v) == v \div P!w
Wave(v) == v % P!w

\* What two variables of one identity, and of one wave, cost together.
Rival(u, v) == IF Owner(u) = Owner(v) THEN 2 * P!lam ELSE 0
Crowd(u, v) == IF Wave(u) = Wave(v) THEN 2 * P!mu * Effort(Owner(u)) * Effort(Owner(v)) ELSE 0
Lone(v) == P!Objective(v) - P!lam + P!CapacityLinear(v)

LEMMA PlacesParts ==
    ASSUME Requested
    PROVE  /\ P!N * P!w \in Nat \ {0} /\ IsFiniteSet(Places)
           /\ Cardinality(Places) = P!N * P!w
           /\ \A v \in Places : /\ Owner(v) \in 0 .. P!N - 1 /\ Wave(v) \in 0 .. P!w - 1
                                /\ v = Owner(v) * P!w + Wave(v)
           /\ \A i \in 0 .. P!N - 1, j \in 0 .. P!w - 1 :
                 /\ i * P!w + j \in Places
                 /\ Owner(i * P!w + j) = i /\ Wave(i * P!w + j) = j
<1>1. P!N \in Nat \ {0} /\ P!w \in Nat \ {0}
  BY RequestedParts
<1>2. P!N * P!w \in Nat \ {0}
  BY <1>1
<1>3. PICK t \in Nat \ {0} : t = P!N * P!w
  BY <1>2
<1>4. IsFiniteSet(0 .. t - 1) /\ Cardinality(0 .. t - 1) = t
  <2>1. 0 \in Int /\ t - 1 \in Int
    OBVIOUS
  <2>2. IsFiniteSet(0 .. t - 1) /\ Cardinality(0 .. t - 1) = IF 0 > t - 1 THEN 0 ELSE t - 1 - 0 + 1
    BY <2>1, FS_Interval
  <2>. QED
    BY <2>2
<1>5. \A v \in Places : /\ Owner(v) \in 0 .. P!N - 1 /\ Wave(v) \in 0 .. P!w - 1
                        /\ v = Owner(v) * P!w + Wave(v)
  BY <1>1, PlaceParts DEF Places, Owner, Wave
<1>6. \A i \in 0 .. P!N - 1, j \in 0 .. P!w - 1 :
                 /\ i * P!w + j \in Places
                 /\ Owner(i * P!w + j) = i /\ Wave(i * P!w + j) = j
  BY <1>1, PlaceAt DEF Places, Owner, Wave
<1>. QED
  BY <1>2, <1>3, <1>4, <1>5, <1>6 DEF Places

LEMMA TwoAlike ==
    ASSUME NEW a, NEW b
    PROVE  Cardinality({a, b}) = 1 <=> a = b
<1>1. CASE a = b
  <2>1. {a, b} = {a}
    BY <1>1
  <2>. QED
    BY <1>1, <2>1, FS_Singleton
<1>2. CASE a # b
  <2>1. IsFiniteSet({a}) /\ Cardinality({a}) = 1
    BY FS_Singleton
  <2>2. Cardinality({a} \cup {b}) = 2
    BY <1>2, <2>1, FS_AddElement
  <2>3. {a, b} = {a} \cup {b}
    OBVIOUS
  <2>. QED
    BY <1>2, <2>2, <2>3
<1>. QED
  BY <1>1, <1>2

LEMMA PlanCoefficients ==
    ASSUME Requested
    PROVE  /\ P!model.n = P!N * P!w /\ Variables(P!model) = Places
           /\ \A v \in Places : P!model.linear[v] = Lone(v)
           /\ \A u, v \in Places :
                u # v => P!model.quadratic[{u, v}] = Rival(u, v) + Crowd(u, v)
           /\ QuboModel(P!model)
<1> DEFINE lin == [v \in Places |-> P!Objective(v) + P!OneHotLinear(P!lam) + P!CapacityLinear(v)]
           quad == [e \in Pairs(Places) |-> P!OneHotQuadratic(e, P!w, P!lam) + P!CapacityQuadratic(e)]
           free == P!N * P!lam + P!w * P!mu * P!cap * P!cap
<1>1. P!model = [n |-> Cardinality(DOMAIN lin), linear |-> lin, quadratic |-> quad, offset |-> free]
  BY SamePlanner, Zenon DEF P!model, P!QUBOModel, Places
<1>2. DOMAIN lin = Places
  OBVIOUS
<1> HIDE DEF lin, quad, free
<1>3. /\ P!model.n = P!N * P!w /\ P!model.linear = lin /\ P!model.quadratic = quad
      /\ P!model.offset = free
  BY <1>1, <1>2, PlacesParts
<1>4. Variables(P!model) = Places
  BY <1>3 DEF Variables, Places
<1>5. /\ P!lam \in Int /\ P!mu \in Int /\ P!cap \in Int /\ P!w \in Int /\ P!N \in Int
  BY RequestedParts, CapacityPositive, ScaleBounds DEF P!lam, P!mu
<1>6. free \in Int
  BY <1>5 DEF free
<1>7. ASSUME NEW v \in Places
      PROVE  lin[v] = Lone(v) /\ lin[v] \in Int
  <2>1. P!Id(v) = v1.ids[Owner(v) + 1] /\ P!wave(v) = Wave(v)
    BY DEF P!Id, P!wave, Owner, Wave, P!ids
  <2>2. Owner(v) \in 0 .. P!N - 1 /\ Wave(v) \in Int
    BY PlacesParts
  <2>3. P!Id(v).qes \in Nat /\ P!Id(v).criticality \in Int /\ P!Id(v).effort \in Nat
    <3>1. /\ v1.ids[Owner(v) + 1].qes \in Nat /\ v1.ids[Owner(v) + 1].criticality \in 1 .. 5
          /\ Effort(Owner(v)) \in Nat \ {0}
      BY <2>2, RequestedParts
    <3>2. \A t \in 1 .. 5 : t \in Int
      OBVIOUS
    <3> HIDE DEF lin
    <3>. QED
      BY <2>1, <3>1, <3>2 DEF Effort
  <2>4. P!Objective(v) \in Int
    <3>1. PICK a \in Int, b \in Int, c \in Int :
            a = P!Id(v).qes /\ b = 6 + P!Id(v).criticality /\ c = P!wave(v) + 1
      BY <2>1, <2>2, <2>3
    <3>2. P!Objective(v) = P!cap * a * b * c
      BY <3>1 DEF P!Objective
    <3>. QED
      BY <1>5, <3>2
  <2>5. P!CapacityLinear(v) \in Int
    BY <1>5, <2>3 DEF P!CapacityLinear
  <2>6. P!OneHotLinear(P!lam) = -P!lam
    BY DEF P!OneHotLinear
  <2>7. lin[v] = P!Objective(v) + (-P!lam) + P!CapacityLinear(v)
    BY <2>6 DEF lin
  <2>. QED
    BY <1>5, <2>4, <2>5, <2>7 DEF Lone
<1>8. ASSUME NEW u \in Places, NEW v \in Places, u # v
      PROVE  quad[{u, v}] = Rival(u, v) + Crowd(u, v) /\ quad[{u, v}] \in Int
  <2>1. {u, v} \in Pairs(Places)
    BY <1>8, PlacesParts, PairsOf
  <2>2. quad[{u, v}] = P!OneHotQuadratic({u, v}, P!w, P!lam) + P!CapacityQuadratic({u, v})
    BY <2>1 DEF quad
  <2>3. P!OneHotQuadratic({u, v}, P!w, P!lam) = Rival(u, v)
    <3>1. {z \div P!w : z \in {u, v}} = {Owner(u), Owner(v)}
      BY DEF Owner
    <3>2. P!Cardinality({z \div P!w : z \in {u, v}}) = 1 <=> Owner(u) = Owner(v)
      BY <3>1, TwoAlike, SamePlanner
    <3>. QED
      BY <3>2 DEF P!OneHotQuadratic, Rival
  <2>4. P!CapacityQuadratic({u, v}) = Crowd(u, v)
    <3>1. {P!wave(z) : z \in {u, v}} = {Wave(u), Wave(v)}
      BY DEF Wave, P!wave
    <3>2. P!Cardinality({P!wave(z) : z \in {u, v}}) = 1 <=> Wave(u) = Wave(v)
      BY <3>1, TwoAlike, SamePlanner
    <3>3. P!CapacityQuadratic({u, v}) =
            IF Wave(u) = Wave(v)
            THEN 2 * P!mu * P!Id(Min({u, v})).effort * P!Id(Max({u, v})).effort ELSE 0
      BY <3>2, SamePlanner DEF P!CapacityQuadratic
    <3>4. \/ Min({u, v}) = u /\ Max({u, v}) = v
          \/ Min({u, v}) = v /\ Max({u, v}) = u
      <4>1. IsFiniteSet({u, v}) /\ {u, v} \subseteq Int /\ {u, v} # {}
        <5>1. IsFiniteSet({u, v})
          BY PairFinite, Zenon
        <5>2. u \in Int /\ v \in Int
          BY DEF Places
        <5>. QED
          BY <5>1, <5>2
      <4>2. /\ Min({u, v}) \in {u, v} /\ \A y \in {u, v} : Min({u, v}) <= y
            /\ Max({u, v}) \in {u, v} /\ \A y \in {u, v} : Max({u, v}) >= y
        BY <4>1, LeastInteger
      <4>. QED
        BY <1>8, <4>1, <4>2
    <3>5. P!Id(u).effort = Effort(Owner(u)) /\ P!Id(v).effort = Effort(Owner(v))
      BY DEF P!Id, P!ids, Effort, Owner
    <3>6. Effort(Owner(u)) \in Nat /\ Effort(Owner(v)) \in Nat
      BY PlacesParts, RequestedParts
    <3>7. 2 * P!mu * Effort(Owner(u)) * Effort(Owner(v)) = 2 * P!mu * Effort(Owner(v)) * Effort(Owner(u))
      BY <1>5, <3>6
    <3>. QED
      BY <3>3, <3>4, <3>5, <3>7 DEF Crowd
  <2>5. Rival(u, v) \in Int /\ Crowd(u, v) \in Int
    <3>1. Effort(Owner(u)) \in Nat /\ Effort(Owner(v)) \in Nat
      BY PlacesParts, RequestedParts
    <3>. QED
      BY <1>5, <3>1 DEF Rival, Crowd
  <2>. QED
    BY <2>2, <2>3, <2>4, <2>5
<1>9. lin \in [Places -> Int]
  BY <1>7 DEF lin
<1>10. quad \in [Pairs(Places) -> Int]
  <2>1. ASSUME NEW e \in Pairs(Places) PROVE quad[e] \in Int
    <3>1. PICK u \in Places, v \in Places : u # v /\ e = {u, v}
      BY PlacesParts, PairsOf
    <3>. QED
      BY <1>8, <3>1
  <2>. QED
    BY <2>1 DEF quad
<1>. QED
  BY <1>3, <1>4, <1>6, <1>7, <1>8, <1>9, <1>10, PlacesParts DEF QuboModel

\* The effort that u adds to the wave of v.
Shared(u, v) == IF Wave(u) = Wave(v) THEN Effort(Owner(u)) ELSE 0

LEMMA Marginal ==
    ASSUME Requested, NEW v \in Places, NEW x \in SUBSET (Places \ {v}),
           NEW r, \A u \in x : r[u] = Rival(u, v),
           NEW c, \A u \in x : c[u] = Shared(u, v)
    PROVE  /\ energy(P!model, x \cup {v}) =
                energy(P!model, x) + Lone(v) + Total(r, x)
                  + (2 * P!mu * Effort(Owner(v))) * Total(c, x)
           /\ Total(r, x) \in Nat /\ Total(c, x) \in Nat
<1> DEFINE m == P!model
           a == 2 * P!mu * Effort(Owner(v))
           d == [u \in x |-> a * c[u]]
           g == [u \in x |-> r[u] + d[u]]
<1>1. IsFiniteSet(x) /\ v \notin x /\ x \subseteq Places
  BY PlacesParts, FS_Subset
<1>2. P!lam \in Nat /\ P!mu \in Nat
  BY CapacityPositive, ScaleBounds DEF P!lam, P!mu
<1>3. \A u \in Places : Effort(Owner(u)) \in Nat
  BY PlacesParts, RequestedParts
<1>4. a \in Nat
  <2>1. PICK e \in Nat : e = Effort(Owner(v))
    BY <1>3
  <2>. QED
    BY <1>2, <2>1
<1>5. ASSUME NEW u \in x
      PROVE  r[u] \in Nat /\ c[u] \in Nat /\ Crowd(u, v) = a * c[u]
  <2>1. r[u] \in Nat
    BY <1>2 DEF Rival
  <2>2. PICK e \in Nat, f \in Nat : e = Effort(Owner(u)) /\ f = Effort(Owner(v))
    BY <1>1, <1>3
  <2>3. 2 * P!mu * e * f = (2 * P!mu * f) * e /\ (2 * P!mu * f) * 0 = 0
    BY <1>2, <2>2
  <2>. QED
    BY <2>1, <2>2, <2>3 DEF Crowd, Shared
<1> HIDE DEF a
<1>6. \A u \in x : d[u] = a * c[u] /\ d[u] \in Int /\ g[u] = r[u] + d[u]
  <2>1. ASSUME NEW u \in x PROVE a * c[u] \in Int
    BY <1>4, <1>5
  <2>. QED
    BY <2>1
<1>7. \A u \in x : g[u] = m.quadratic[{u, v}]
  <2>1. ASSUME NEW u \in x PROVE g[u] = m.quadratic[{u, v}]
    <3>1. u \in Places /\ u # v
      BY <1>1
    <3>2. m.quadratic[{u, v}] = Rival(u, v) + Crowd(u, v)
      BY <3>1, PlanCoefficients
    <3>. QED
      BY <1>5, <1>6, <3>2
  <2>. QED
    BY <2>1
<1>8. /\ \A u \in x : r[u] \in Nat /\ c[u] \in Nat
      /\ \A u \in x : r[u] \in Int /\ c[u] \in Int
  BY <1>5
<1> HIDE DEF d, g, m
<1>9. Total(r, x) \in Nat /\ Total(c, x) \in Nat
  BY <1>1, <1>8, TotalNatural
<1>10. Total(g, x) = Total(r, x) + Total(d, x)
  BY <1>1, <1>6, <1>8, TotalPlus
<1>11. Total(d, x) = a * Total(c, x)
  BY <1>1, <1>4, <1>6, <1>8, TotalTimes
<1>12. /\ QuboModel(m) /\ Variables(m) = Places /\ m.linear[v] = Lone(v)
  BY PlanCoefficients DEF m
<1>13. energy(m, x \cup {v}) = energy(m, x) + m.linear[v] + Total(g, x)
  <2>1. v \in Variables(m) /\ x \in SUBSET (Variables(m) \ {v})
    BY <1>12
  <2>2. /\ energy(m, x \cup {v}) = energy(m, x) + m.linear[v] + Total(g, x)
        /\ Total(g, x) \in Int
    BY <1>7, <1>12, <2>1, EnergyAdd
  <2>. QED
    BY <2>2
<1>14. energy(m, x) \in Int /\ m.linear[v] \in Int
  <2>1. x \in SUBSET Variables(m) /\ v \in Variables(m)
    BY <1>1, <1>12
  <2>2. energy(m, x) \in Int
    BY <1>12, <2>1, EnergyInteger
  <2>. QED
    BY <1>12, <2>1, <2>2 DEF QuboModel
<1>15. a * Total(c, x) \in Int
  BY <1>4, <1>9
<1>16. energy(m, x \cup {v}) = energy(m, x) + Lone(v) + Total(r, x) + a * Total(c, x)
  BY <1>9, <1>10, <1>11, <1>12, <1>13, <1>14, <1>15
<1>. QED
  BY <1>9, <1>16 DEF m, a

LEMMA FilledTotal ==
    ASSUME Requested, v2 \subseteq Places, NEW j \in 0 .. P!w - 1,
           NEW c, \A u \in v2 : c[u] = IF Wave(u) = j THEN Effort(Owner(u)) ELSE 0
    PROVE  P!Filled(j) = Total(c, v2)
<1> DEFINE X == {u \in v2 : Wave(u) = j}
           members == {i \in 0 .. P!N - 1 : j \in P!Chosen(i)}
           f == [u \in X |-> Effort(Owner(u))]
           g == [i \in members |-> Effort(i)]
           row == [u \in X |-> Owner(u)]
<1>1. IsFiniteSet(v2) /\ X \subseteq v2 /\ IsFiniteSet(X)
  BY PlacesParts, FS_Subset
<1>2. \A i : P!Chosen(i) = {Wave(u) : u \in {u \in v2 : Owner(u) = i}}
  BY Zenon DEF P!Chosen, P!wave, Wave, Owner
<1>3. P!Filled(j) = Total(g, members)
  <2>1. P!Filled(j) = P!Load(members)
    BY Zenon DEF P!Filled
  <2>2. P!Load(members) = Total([i \in members |-> v1.ids[i + 1].effort], members)
    BY SamePlanner, Zenon DEF P!Load, P!ids
  <2>. QED
    BY <2>1, <2>2 DEF Effort
<1>4. members = {row[u] : u \in X}
  <2>1. ASSUME NEW i \in members PROVE \E u \in X : i = Owner(u)
    BY <1>2
  <2>2. ASSUME NEW u \in X PROVE Owner(u) \in members
    BY <1>2, PlacesParts
  <2> HIDE DEF members, X
  <2>. QED
    BY <2>1, <2>2
<1>5. \A u, t \in X : row[u] = row[t] => u = t
  <2>1. ASSUME NEW u \in X, NEW t \in X, Owner(u) = Owner(t) PROVE u = t
    <3>1. u = Owner(u) * P!w + Wave(u) /\ t = Owner(t) * P!w + Wave(t)
      BY PlacesParts
    <3>. QED
      BY <2>1, <3>1
  <2>. QED
    BY <2>1
<1>6. \A u \in X : f[u] \in Int /\ g[row[u]] = f[u] /\ c[u] = f[u]
  <2>1. ASSUME NEW u \in X PROVE Effort(Owner(u)) \in Int /\ Owner(u) \in members
    BY <1>2, PlacesParts, RequestedParts
  <2>. QED
    BY <2>1
<1>7. \A u \in v2 \ X : c[u] = 0
  OBVIOUS
<1> HIDE DEF X, members, f, g, row
<1>8. Total(g, members) = Total(f, X)
  BY <1>1, <1>4, <1>5, <1>6, TotalImage
<1>9. \A u \in X : c[u] = f[u] /\ c[u] \in Int
  BY <1>6
<1>10. Total(c, v2) = Total(f, X)
  BY <1>1, <1>7, <1>9, TotalOnly
<1>. QED
  BY <1>3, <1>8, <1>10

\* What the exact solver answers is no dearer than any other bitstring.
Cheapest ==
    /\ v2 \in SUBSET Places
    /\ \A x \in SUBSET Places : energy(P!model, v2) <= energy(P!model, x)

LEMMA ExactCheapest ==
    ASSUME Requested, v2 = P!brute_force(P!model)
    PROVE  Cheapest
<1> DEFINE m == P!model
           W == SUBSET Variables(m)
           e == [x \in W |-> energy(m, x)]
           all == {e[x] : x \in DOMAIN e}
<1>1. QuboModel(m) /\ Variables(m) = Places /\ v2 = brute_force(m)
  BY PlanCoefficients, SamePlanner
<1> HIDE DEF m
<1>2. v2 \in Optima(m) /\ v2 \in W
  BY <1>1, BruteOptimal
<1>3. Optima(m) = {x \in DOMAIN e : e[x] = Min(all)}
  BY Zenon DEF Optima
<1>4. IsFiniteSet(W) /\ \A x \in W : energy(m, x) \in Int
  BY <1>1, VariablesFinite, FS_SUBSET, EnergyInteger
<1>5. DOMAIN e = W /\ \A x \in W : e[x] = energy(m, x)
  OBVIOUS
<1>6. e \in Surjection(W, all)
  BY DEF Surjection
<1> HIDE DEF e
<1>7. all \subseteq Int /\ v2 \in W
  BY <1>2, <1>4, <1>5
<1>8. \A x \in W : e[x] \in all
  BY <1>5
<1> HIDE DEF all, W
<1>9. IsFiniteSet(all)
  BY <1>4, <1>6, FS_Surjection
<1>10. \A y \in all : Min(all) <= y
  BY <1>7, <1>8, <1>9, LeastInteger
<1>11. energy(m, v2) = Min(all)
  BY <1>2, <1>3, <1>5
<1>. QED
  BY <1>1, <1>5, <1>7, <1>8, <1>10, <1>11 DEF Cheapest, m, W

\* The risk of an identity in one of the first three waves is worth less than lam.
LEMMA RiskBounded ==
    ASSUME Requested, NEW v \in Places, Wave(v) <= 2
    PROVE  P!Objective(v) \in Int /\ P!Objective(v) < P!lam
<1>1. /\ P!Id(v) = v1.ids[Owner(v) + 1] /\ P!wave(v) = Wave(v)
      /\ Owner(v) \in 0 .. P!N - 1 /\ Wave(v) \in 0 .. P!w - 1
  BY PlacesParts DEF P!Id, P!wave, Owner, Wave, P!ids
<1>2. /\ v1.ids[Owner(v) + 1].qes \in Nat /\ v1.ids[Owner(v) + 1].criticality \in 1 .. 5
      /\ v1.ids[Owner(v) + 1].qes <= P!weight_scale
  BY <1>1, RequestedParts, ScaleBounds
<1>3. PICK a \in Nat, b \in 7 .. 11, c \in 1 .. 3 :
        a = P!Id(v).qes /\ b = 6 + P!Id(v).criticality /\ c = P!wave(v) + 1
  BY <1>1, <1>2
<1>4. PICK k \in Nat \ {0}, s \in Nat \ {0} : k = P!cap /\ s = P!weight_scale
  BY CapacityPositive, ScaleBounds
<1>5. P!Objective(v) = k * a * b * c /\ P!lam = 40 * k * s /\ a <= s
  BY <1>1, <1>2, <1>3, <1>4 DEF P!Objective, P!lam
<1>6. PICK p \in Nat : p = k * a
  BY <1>3, <1>4
<1>7. PICK d \in Nat : s = a + d
  <2>1. a <= s
    BY <1>5
  <2>2. s - a \in Nat /\ s = a + (s - a)
    BY <1>3, <1>4, <2>1
  <2>. QED
    BY <2>2
<1>8. k * s = p + k * d /\ k * d \in Nat /\ k * s \in Nat /\ k * s # 0
  BY <1>4, <1>6, <1>7
<1>9. p * b * c \in Int /\ p * b * c <= 33 * p
  BY <1>3, <1>6
<1>10. 40 * k * s = 40 * (k * s)
  BY <1>4
<1>11. P!Objective(v) \in Int /\ P!Objective(v) <= 33 * p /\ p <= k * s /\ P!lam = 40 * (k * s)
  BY <1>5, <1>6, <1>8, <1>9, <1>10
<1>. QED
  BY <1>6, <1>8, <1>11

LEMMA ObjectiveNatural ==
    ASSUME Requested, NEW v \in Places
    PROVE  P!Objective(v) \in Nat
<1>1. /\ P!Id(v) = v1.ids[Owner(v) + 1] /\ P!wave(v) = Wave(v)
      /\ Owner(v) \in 0 .. P!N - 1 /\ Wave(v) \in 0 .. P!w - 1
  BY PlacesParts DEF P!Id, P!wave, Owner, Wave, P!ids
<1>2. /\ v1.ids[Owner(v) + 1].qes \in Nat /\ v1.ids[Owner(v) + 1].criticality \in 1 .. 5
  BY <1>1, RequestedParts
<1>3. PICK a \in Nat, b \in Nat, c \in Nat :
        a = P!Id(v).qes /\ b = 6 + P!Id(v).criticality /\ c = P!wave(v) + 1
  <2>1. P!Id(v).qes \in Nat
    BY <1>1, <1>2
  <2>2. 6 + P!Id(v).criticality \in Nat
    BY <1>1, <1>2
  <2>3. P!wave(v) + 1 \in Nat
    BY <1>1, RequestedParts
  <2>. QED
    BY <2>1, <2>2, <2>3
<1>4. PICK k \in Nat : k = P!cap
  BY CapacityPositive
<1>5. P!Objective(v) = k * a * b * c
  BY <1>3, <1>4 DEF P!Objective
<1>. QED
  BY <1>3, <1>4, <1>5

LEMMA ChosenParts ==
    ASSUME Requested, v2 \in SUBSET Places
    PROVE  \A i : /\ P!Chosen(i) = {Wave(u) : u \in {u \in v2 : Owner(u) = i}}
                  /\ P!Chosen(i) \subseteq 0 .. P!w - 1 /\ IsFiniteSet(P!Chosen(i))
<1>1. \A i : P!Chosen(i) = {Wave(u) : u \in {u \in v2 : Owner(u) = i}}
  BY Zenon DEF P!Chosen, P!wave, Wave, Owner
<1>2. \A i : P!Chosen(i) \subseteq 0 .. P!w - 1
  BY <1>1, PlacesParts
<1>3. IsFiniteSet(0 .. P!w - 1)
  <2>1. 0 \in Int /\ P!w - 1 \in Int
    BY RequestedParts
  <2>. QED
    BY <2>1, FS_Interval
<1>. QED
  BY <1>1, <1>2, <1>3, FS_Subset

LEMMA LoneParts ==
    ASSUME Requested, NEW v \in Places, NEW e \in Nat \ {0}, e = Effort(Owner(v))
    PROVE  Lone(v) = P!Objective(v) - P!lam + P!mu * (e * e - 2 * P!cap * e)
BY DEF Lone, P!CapacityLinear, P!Id, P!ids, Effort, Owner

\* An identity that the solver leaves out does not fit the first three waves.
LEMMA NoRoom ==
    ASSUME Requested, Cheapest, NEW i \in 0 .. P!N - 1, P!Chosen(i) = {},
           NEW j \in 0 .. P!w - 1, j <= 2
    PROVE  P!Filled(j) + Effort(i) > P!cap
<1> DEFINE v == i * P!w + j
           r == [u \in v2 |-> Rival(u, v)]
           c == [u \in v2 |-> Shared(u, v)]
<1>1. v \in Places /\ Owner(v) = i /\ Wave(v) = j
  BY PlacesParts
<1> HIDE DEF v
<1>2. v2 \in SUBSET Places /\ v2 \cup {v} \in SUBSET Places /\ IsFiniteSet(v2)
  BY <1>1, PlacesParts, FS_Subset DEF Cheapest
<1>3. \A u \in v2 : Owner(u) # i
  BY <1>2, ChosenParts
<1>4. v2 \in SUBSET (Places \ {v})
  BY <1>1, <1>2, <1>3
<1>5. /\ \A u \in v2 : r[u] = Rival(u, v) /\ r[u] = 0
      /\ \A u \in v2 : c[u] = Shared(u, v) /\ c[u] = IF Wave(u) = j THEN Effort(Owner(u)) ELSE 0
  BY <1>1, <1>3 DEF Rival, Shared
<1> HIDE DEF r, c
<1>6. Total(r, v2) = 0
  BY <1>2, <1>5, TotalZero
<1>7. P!Filled(j) = Total(c, v2)
  BY <1>2, <1>5, FilledTotal
<1>8. /\ energy(P!model, v2 \cup {v}) =
             energy(P!model, v2) + Lone(v) + Total(r, v2)
               + (2 * P!mu * Effort(Owner(v))) * Total(c, v2)
      /\ Total(c, v2) \in Nat
  BY <1>1, <1>4, <1>5, Marginal
<1>9. energy(P!model, v2) <= energy(P!model, v2 \cup {v})
  BY <1>2 DEF Cheapest
<1>10. energy(P!model, v2) \in Int
  BY <1>2, PlanCoefficients, EnergyInteger
<1>11. PICK e \in Nat \ {0}, k \in Nat \ {0}, s \in Nat, t \in Nat, h \in Int :
         /\ e = Effort(i) /\ k = P!cap /\ s = P!mu /\ t = P!Filled(j)
         /\ h = P!Objective(v) - P!lam /\ h < 0
  <2>1. Effort(i) \in Nat \ {0} /\ P!cap \in Nat \ {0} /\ P!Filled(j) \in Nat
    BY <1>7, <1>8, RequestedParts, CapacityPositive
  <2>2. P!mu \in Nat /\ P!lam \in Int
    BY CapacityPositive, ScaleBounds DEF P!mu, P!lam
  <2>3. P!Objective(v) \in Int /\ P!Objective(v) < P!lam
    BY <1>1, RiskBounded
  <2>4. P!Objective(v) - P!lam \in Int /\ P!Objective(v) - P!lam < 0
    BY <2>2, <2>3
  <2>. QED
    BY <2>1, <2>2, <2>4
<1>12. Lone(v) = h + s * (e * e - 2 * k * e)
  BY <1>1, <1>11, LoneParts
<1>13. energy(P!model, v2 \cup {v}) = energy(P!model, v2) + (h + s * (e * e - 2 * k * e)) + (2 * s * e) * t
  <2>1. energy(P!model, v2 \cup {v}) = energy(P!model, v2) + Lone(v) + 0 + (2 * s * e) * t
    BY <1>1, <1>6, <1>7, <1>8, <1>11
  <2>2. s * (e * e - 2 * k * e) \in Int /\ (2 * s * e) * t \in Int
    BY <1>11
  <2>. QED
    BY <1>10, <1>11, <1>12, <2>1, <2>2
<1>14. 0 <= h + s * (e * e - 2 * k * e) + (2 * s * e) * t
  <2>1. PICK b \in Int : b = s * (e * e - 2 * k * e)
    BY <1>11
  <2>2. PICK d \in Int : d = (2 * s * e) * t
    BY <1>11
  <2>3. energy(P!model, v2) <= energy(P!model, v2) + (h + b) + d
    BY <1>9, <1>13, <2>1, <2>2
  <2>4. 0 <= h + b + d
    BY <1>10, <2>3
  <2>. QED
    BY <2>1, <2>2, <2>4
<1>15. ASSUME t + e <= k
       PROVE  FALSE
  <2>1. PICK d \in Nat : k = t + e + d
    <3>1. k - (t + e) \in Nat /\ k = t + e + (k - (t + e))
      BY <1>11, <1>15
    <3>. QED
      BY <3>1
  <2>2. PICK a \in Nat : a = s * e
    BY <1>11
  <2>3. /\ s * (e * e - 2 * k * e) = a * e - 2 * (a * k)
        /\ (2 * s * e) * t = 2 * (a * t)
    BY <1>11, <2>2
  <2>4. a * k = a * t + a * e + a * d /\ a * t \in Nat /\ a * e \in Nat /\ a * d \in Nat
    BY <1>11, <2>1, <2>2
  <2>. QED
    BY <1>11, <1>14, <2>3, <2>4
<1>. QED
  BY <1>11, <1>15

\* Two waves for one identity cost more than they save, if it is small or they are.
LEMMA OneWave ==
    ASSUME Requested, Cheapest, NEW i \in 0 .. P!N - 1, Effort(i) <= 3 \/ P!cap <= 6
    PROVE  Cardinality(P!Chosen(i)) <= 1
<1>1. v2 \in SUBSET Places
  BY DEF Cheapest
<1>2. SUFFICES ASSUME ~(Cardinality(P!Chosen(i)) <= 1)
               PROVE  FALSE
  OBVIOUS
<1>3. \E u, v \in v2 : u # v /\ Owner(u) = i /\ Owner(v) = i
  <2>1. P!Chosen(i) # {}
    BY <1>2, FS_EmptySet
  <2>2. PICK a : a \in P!Chosen(i)
    BY <2>1
  <2>3. P!Chosen(i) # {a}
    BY <1>2, FS_Singleton
  <2>4. PICK b \in P!Chosen(i) : b # a
    BY <2>2, <2>3
  <2>5. /\ \E u \in v2 : Owner(u) = i /\ a = Wave(u)
        /\ \E u \in v2 : Owner(u) = i /\ b = Wave(u)
    BY <1>1, <2>2, <2>4, ChosenParts
  <2>. QED
    BY <2>4, <2>5
<1>4. PICK u \in v2, v \in v2 : u # v /\ Owner(u) = i /\ Owner(v) = i
  BY <1>3
<1> DEFINE x == v2 \ {v}
           r == [y \in x |-> Rival(y, v)]
           c == [y \in x |-> Shared(y, v)]
<1>5. /\ v \in Places /\ x \in SUBSET (Places \ {v}) /\ x \in SUBSET Places
      /\ x \cup {v} = v2 /\ u \in x
  BY <1>1, <1>4
<1>6. IsFiniteSet(x) /\ IsFiniteSet(x \ {u})
  BY <1>5, PlacesParts, FS_Subset
<1>7. \A y \in x : r[y] = Rival(y, v) /\ c[y] = Shared(y, v)
  OBVIOUS
<1>8. P!lam \in Nat /\ P!mu \in Nat
  BY CapacityPositive, ScaleBounds DEF P!lam, P!mu
<1>9. r[u] = 2 * P!lam /\ \A y \in x : r[y] \in Nat
  BY <1>4, <1>5, <1>8 DEF Rival
<1> HIDE DEF x, r, c
<1>10. /\ energy(P!model, x \cup {v}) =
             energy(P!model, x) + Lone(v) + Total(r, x)
               + (2 * P!mu * Effort(Owner(v))) * Total(c, x)
       /\ Total(c, x) \in Nat
  BY <1>5, <1>7, Marginal
<1>11. PICK f \in Nat : Total(r, x) = 2 * P!lam + f
  <2>1. \A y \in x : r[y] \in Int
    BY <1>9
  <2>2. Total(r, x) = r[u] + Total(r, x \ {u})
    BY <1>5, <1>6, <2>1, TotalRemove
  <2>3. \A y \in x \ {u} : r[y] \in Nat
    BY <1>9
  <2>4. Total(r, x \ {u}) \in Nat
    BY <1>6, <2>3, TotalNatural
  <2>. QED
    BY <1>9, <2>2, <2>4
<1>12. energy(P!model, v2) <= energy(P!model, x) /\ energy(P!model, x) \in Int
  BY <1>5, PlanCoefficients, EnergyInteger DEF Cheapest
<1>13. PICK e \in Nat \ {0}, k \in Nat \ {0}, s \in Nat \ {0}, o \in Nat, t \in Nat :
         /\ e = Effort(i) /\ k = P!cap /\ s = P!weight_scale
         /\ o = P!Objective(v) /\ t = Total(c, x)
  BY <1>5, <1>10, RequestedParts, CapacityPositive, ScaleBounds, ObjectiveNatural
<1>14. P!lam = 40 * k * s /\ P!mu = 6 * s
  BY <1>13 DEF P!lam, P!mu
<1>15. Lone(v) = o - 40 * k * s + (6 * s) * (e * e - 2 * k * e)
  BY <1>4, <1>5, <1>13, <1>14, LoneParts
<1>16. PICK a \in Nat, b \in Nat, d \in Nat, g \in Nat :
         a = k * s /\ b = s * (e * e) /\ d = s * (k * e) /\ g = (2 * (6 * s) * e) * t
  <2>1. k * s \in Nat /\ s * (e * e) \in Nat /\ s * (k * e) \in Nat
    BY <1>13
  <2>2. (2 * (6 * s) * e) * t \in Nat
    BY <1>13
  <2>. QED
    BY <2>1, <2>2
<1>17. Lone(v) = o - 40 * a + 6 * b - 12 * d
  <2>1. 40 * k * s = 40 * a
    BY <1>13, <1>16
  <2>2. (6 * s) * (e * e - 2 * k * e) = 6 * b - 12 * d
    BY <1>13, <1>16
  <2>. QED
    BY <1>13, <1>15, <1>16, <2>1, <2>2
<1>18. energy(P!model, v2) = energy(P!model, x) + Lone(v) + (2 * (40 * a) + f) + g
  <2>1. 40 * k * s = 40 * a
    BY <1>13, <1>16
  <2>. QED
    BY <1>4, <1>5, <1>10, <1>11, <1>13, <1>14, <1>16, <2>1
<1>19. o + 40 * a + 6 * b - 12 * d + f + g <= 0
  BY <1>11, <1>12, <1>13, <1>16, <1>17, <1>18
<1>20. 40 * a + 6 * b - 12 * d <= 0
  BY <1>11, <1>13, <1>16, <1>19
<1>21. 40 * k + 6 * (e * e) - 12 * (k * e) > 0
  <2>1. CASE e <= 3
    <3>1. e = 1 \/ e = 2 \/ e = 3
      BY <1>13, <2>1
    <3>. QED
      BY <1>13, <3>1
  <2>2. CASE k <= 6
    <3>1. (e - k) * (e - k) >= 0 /\ (e - k) * (e - k) = e * e - 2 * (k * e) + k * k
      <4>1. PICK q \in Int : q = e - k
        BY <1>13
      <4>2. q * q >= 0
        BY <4>1
      <4>3. (e - k) * (e - k) = e * e - 2 * (k * e) + k * k
        BY <1>13
      <4>. QED
        BY <4>1, <4>2, <4>3
    <3>2. k = 1 \/ k = 2 \/ k = 3 \/ k = 4 \/ k = 5 \/ k = 6
      BY <1>13, <2>2
    <3>3. 40 * k - 6 * (k * k) > 0
      BY <1>13, <3>2
    <3>4. PICK y \in Int, z \in Int, p \in Int : y = e * e /\ z = k * e /\ p = k * k
      BY <1>13
    <3>. QED
      BY <1>13, <3>1, <3>3, <3>4
  <2>. QED
    BY <1>13, <2>1, <2>2
<1>22. s * (40 * k + 6 * (e * e) - 12 * (k * e)) = 40 * a + 6 * b - 12 * d
  BY <1>13, <1>16
<1>23. PICK z \in Nat \ {0} : z = 40 * k + 6 * (e * e) - 12 * (k * e)
  BY <1>13, <1>21
<1>24. s * z > 0
  BY <1>13, <1>23
<1>. QED
  BY <1>20, <1>22, <1>23, <1>24

PlanInv ==
    /\ Requested
    /\ v2 # Nothing =>
          /\ v2 \in SUBSET Places
          /\ v1.exact => v2 = P!brute_force(P!model)
    /\ v3 # Nothing => v2 # Nothing /\ v3 = P!Decoded
    /\ v4 # Nothing => v3 # Nothing /\ v4 = v3

LEMMA PlannerInit ==
    ASSUME P!Init
    PROVE  PlanInv
BY DEF P!Init, PlanInv, Requested

\* A request that does not change, its model and the decoding of an answer.
LEMMA ModelKept ==
    ASSUME v1' = v1
    PROVE  /\ P!ids' = P!ids /\ P!N' = P!N /\ P!w' = P!w /\ P!cap' = P!cap
           /\ P!model' = P!model
<1>1. P!ids' = P!ids /\ P!w' = P!w
  BY Zenon DEF P!ids, P!w
<1>2. P!N' = P!N
  BY <1>1, Zenon DEF P!N
<1>3. P!total_effort' = P!total_effort /\ P!weight_scale' = P!weight_scale
  BY <1>1, Zenon DEF P!total_effort, P!weight_scale
<1>4. P!cap' = P!cap
  BY <1>1, <1>3, Zenon DEF P!cap
<1>5. P!lam' = P!lam /\ P!mu' = P!mu
  BY <1>3, <1>4, Zenon DEF P!lam, P!mu
<1>6. \A v : P!Id(v)' = P!Id(v) /\ P!wave(v)' = P!wave(v)
  BY <1>1, Zenon DEF P!Id, P!wave
<1>7. \A v : P!Objective(v)' = P!Objective(v) /\ P!CapacityLinear(v)' = P!CapacityLinear(v)
  BY <1>4, <1>5, <1>6, Zenon DEF P!Objective, P!CapacityLinear
<1>8. \A e : P!CapacityQuadratic(e)' = P!CapacityQuadratic(e)
  BY <1>5, <1>6, Zenon DEF P!CapacityQuadratic
<1>9. P!model' = P!model
  BY <1>1, <1>2, <1>4, <1>5, <1>7, <1>8, Zenon DEF P!model
<1>. QED
  BY <1>1, <1>2, <1>4, <1>9

LEMMA DecodedKept ==
    ASSUME v1' = v1, v2' = v2
    PROVE  P!Decoded' = P!Decoded
<1>1. P!ids' = P!ids /\ P!N' = P!N /\ P!w' = P!w /\ P!cap' = P!cap
  BY ModelKept
<1>2. \A v : P!wave(v)' = P!wave(v)
  BY <1>1, Zenon DEF P!wave
<1>3. \A i : P!Chosen(i)' = P!Chosen(i)
  BY <1>1, <1>2, Zenon DEF P!Chosen
<1>4. \A X : P!Load(X)' = P!Load(X)
  BY <1>1, Zenon DEF P!Load
<1>. QED
  BY <1>1, <1>3, <1>4, Zenon DEF P!Decoded

LEMMA PlannerStep ==
    ASSUME PlanInv, P!Next \/ UNCHANGED P!vars
    PROVE  PlanInv'
<1>1. v1' = v1
  BY DEF P!Next, P!Solve, P!Plan, P!Store, P!vars
<1>2. Requested /\ Requested' /\ Places' = Places /\ P!model' = P!model
  <2>1. Requested'
    BY <1>1 DEF PlanInv, Requested
  <2>2. Places' = Places
    BY <1>1 DEF Places, P!N, P!w, P!ids
  <2>3. P!model' = P!model
    BY <1>1, ModelKept
  <2>. QED
    BY <2>1, <2>2, <2>3 DEF PlanInv
<1>3. P!brute_force(P!model)' = P!brute_force(P!model)
  BY <1>2
<1>4. CASE P!Solve
  <2>1. v2 = Nothing /\ v3' = v3 /\ v4' = v4
    BY <1>4 DEF P!Solve
  <2>2. v3 = Nothing /\ v4 = Nothing
    BY <2>1 DEF PlanInv
  <2>3. \/ v1.exact /\ v2' = P!brute_force(P!model)
        \/ ~v1.exact /\ v2' \in SUBSET Places
    BY <1>4 DEF P!Solve, Places
  <2>4. P!brute_force(P!model) \in SUBSET Places
    BY <1>2, PlanCoefficients, SamePlanner, BruteOptimal
  <2>. QED
    BY <1>1, <1>2, <1>3, <2>1, <2>2, <2>3, <2>4 DEF PlanInv
<1>5. CASE P!Plan
  <2>1. v2 # Nothing /\ v3 = Nothing /\ v3' = P!Decoded /\ v2' = v2 /\ v4' = v4
    BY <1>5 DEF P!Plan
  <2>2. P!Decoded' = P!Decoded
    BY <1>1, <2>1, DecodedKept
  <2>. QED
    BY <1>1, <1>2, <1>3, <2>1, <2>2 DEF PlanInv
<1>6. CASE P!Store \/ UNCHANGED P!vars
  <2>1. v2' = v2 /\ v3' = v3 /\ (v4' = v4 \/ (v3 # Nothing /\ v4' = v3))
    BY <1>6 DEF P!Store, P!vars
  <2>2. P!Decoded' = P!Decoded
    BY <1>1, <2>1, DecodedKept
  <2>. QED
    BY <1>1, <1>2, <1>3, <2>1, <2>2 DEF PlanInv
<1>. QED
  BY <1>4, <1>5, <1>6 DEF P!Next

\* Every identity is in the first of its waves.
LEMMA PlacedOnce ==
    ASSUME Requested, v2 \in SUBSET Places, NEW i \in 0 .. P!N - 1
    PROVE  Cardinality({j \in 0 .. P!w - 1 : i \in P!Decoded.waves[j]})
             = IF i \in P!Decoded.unassigned THEN 0 ELSE 1
<1> DEFINE first == Min(P!Chosen(i))
           placed == {j \in 0 .. P!w - 1 : i \in P!Decoded.waves[j]}
<1>1. P!Decoded.waves = [j \in 0 .. P!w - 1 |->
            {n \in 0 .. P!N - 1 : P!Chosen(n) # {} /\ Min(P!Chosen(n)) = j}]
  BY SamePlanner, Zenon DEF P!Decoded
<1>2. P!Decoded.unassigned = {n \in 0 .. P!N - 1 : P!Chosen(n) = {}}
  BY Zenon DEF P!Decoded
<1>3. \A j \in 0 .. P!w - 1 : i \in P!Decoded.waves[j] <=> P!Chosen(i) # {} /\ first = j
  BY <1>1
<1>4. i \in P!Decoded.unassigned <=> P!Chosen(i) = {}
  BY <1>2
<1>5. CASE P!Chosen(i) = {}
  <2>1. placed = {}
    BY <1>3, <1>5
  <2>2. Cardinality({}) = 0
    BY FS_EmptySet
  <2>. QED
    BY <1>4, <1>5, <2>1, <2>2
<1>6. CASE P!Chosen(i) # {}
  <2>1. /\ IsFiniteSet(P!Chosen(i)) /\ P!Chosen(i) \subseteq 0 .. P!w - 1
    BY ChosenParts
  <2>2. P!Chosen(i) \subseteq Int
    BY <2>1
  <2>3. first \in P!Chosen(i)
    BY <1>6, <2>1, <2>2, LeastInteger
  <2>4. placed = {first}
    BY <1>3, <1>6, <2>1, <2>3
  <2>5. Cardinality({first}) = 1
    BY FS_Singleton
  <2>. QED
    BY <1>4, <1>6, <2>4, <2>5
<1>. QED
  BY <1>5, <1>6

LEMMA PlanSound ==
    ASSUME PlanInv
    PROVE  P!PlanComplete
<1> SUFFICES ASSUME v4 # Nothing
             PROVE  /\ \A i \in 0 .. P!N - 1 :
                          Cardinality({j \in 0 .. P!w - 1 : i \in v4.waves[j]})
                            = IF i \in v4.unassigned THEN 0 ELSE 1
                    /\ \A j \in 0 .. P!w - 1 :
                          P!Load(v4.waves[j]) > v4.capacity => "overloaded" \in v4.notes
                    /\ v4.unassigned # {} => "unplaced" \in v4.notes
                    /\ v1.exact =>
                          \A i \in 0 .. P!N - 1 :
                              Effort(i) <= 3 \/ P!cap <= 6 => Cardinality(P!Chosen(i)) <= 1
                    /\ v1.exact =>
                          \A i \in v4.unassigned, j \in 0 .. P!w - 1 :
                              j <= 2 => P!Filled(j) + Effort(i) > v4.capacity
  BY SamePlanner DEF P!PlanComplete, P!Exact, P!ids, Effort
<1>1. /\ Requested /\ v2 \in SUBSET Places /\ v4 = P!Decoded
      /\ v1.exact => v2 = P!brute_force(P!model)
  BY DEF PlanInv
<1>2. /\ v4.capacity = P!cap
      /\ v4.unassigned = {i \in 0 .. P!N - 1 : P!Chosen(i) = {}}
  BY <1>1, Zenon DEF P!Decoded
<1>3. v4.notes = {n \in {"unplaced", "overloaded"} :
                \/ n = "unplaced" /\ v4.unassigned # {}
                \/ n = "overloaded" /\ \E j \in 0 .. P!w - 1 : P!Load(v4.waves[j]) > P!cap}
  BY <1>1, Zenon DEF P!Decoded
<1>4. /\ \A j \in 0 .. P!w - 1 :
            P!Load(v4.waves[j]) > v4.capacity => "overloaded" \in v4.notes
      /\ v4.unassigned # {} => "unplaced" \in v4.notes
  BY <1>2, <1>3
<1>5. \A i \in 0 .. P!N - 1 :
        Cardinality({j \in 0 .. P!w - 1 : i \in v4.waves[j]})
          = IF i \in v4.unassigned THEN 0 ELSE 1
  BY <1>1, PlacedOnce
<1>6. ASSUME v1.exact
      PROVE  /\ \A i \in 0 .. P!N - 1 :
                   Effort(i) <= 3 \/ P!cap <= 6 => Cardinality(P!Chosen(i)) <= 1
             /\ \A i \in v4.unassigned, j \in 0 .. P!w - 1 :
                   j <= 2 => P!Filled(j) + Effort(i) > v4.capacity
  <2>1. Cheapest
    BY <1>1, <1>6, ExactCheapest
  <2>2. \A i \in 0 .. P!N - 1 :
          Effort(i) <= 3 \/ P!cap <= 6 => Cardinality(P!Chosen(i)) <= 1
    BY <1>1, <2>1, OneWave
  <2>3. \A i \in v4.unassigned, j \in 0 .. P!w - 1 :
          j <= 2 => P!Filled(j) + Effort(i) > v4.capacity
    BY <1>1, <1>2, <2>1, NoRoom
  <2>. QED
    BY <2>2, <2>3
<1>. QED
  BY <1>4, <1>5, <1>6

(***************************************************************************)
(* Whatever the portfolio, the waves and the capacity, a stored plan places *)
(* every identity once or reports it, and reports a wave beyond capacity;  *)
(* an exact solver gives an identity two waves only above effort 3 and     *)
(* capacity 6, and leaves one out only if the first three waves have no    *)
(* room for it: plan_migration (services/quantum/pq_risk.py).              *)
(***************************************************************************)
THEOREM PlanCompleteAlways == MCSpec => []PlanComplete
<1> DEFINE IInv == part = "planner" => PlanInv
<1>1. MCInit => IInv
  BY PlannerInit DEF MCInit
<1>2. IInv /\ [MCNext]_mcvars => IInv'
  BY PartStep, PlannerStep
<1>3. IInv => PlanComplete
  BY PlanSound DEF PlanComplete
<1>. QED
  BY <1>1, <1>2, <1>3, PTL DEF MCSpec

LEMMA SameClusters ==
    /\ \A q : /\ C!Variables(q) = Variables(q) /\ C!brute_force(q) = brute_force(q)
    /\ \A X : C!Min(X) = Min(X) /\ C!Cardinality(X) = Cardinality(X) /\ C!Pairs(X) = Pairs(X)
    /\ \A f : C!SumFunction(f) = Total(f, DOMAIN f)
    /\ \A f, X : C!SumFunctionOnSet(f, X) = Total(f, X)
<1>. USE DEF C!SumFunction, C!SumFunctionOnSet, C!FoldFunctionOnSet, C!MapThenFoldSet,
             SumFunction, SumFunctionOnSet, FoldFunctionOnSet, MapThenFoldSet,
             C!Cardinality, Cardinality, C!kSubset, kSubset, C!Pairs, Pairs,
             C!Variables, Variables
<1>1. \A q : C!Variables(q) = Variables(q)
  BY Zenon
<1>2. \A q, x : C!energy(q, x) = energy(q, x)
  BY Zenon DEF C!energy, energy
<1>3. \A X : C!Min(X) = Min(X) /\ C!Max(X) = Max(X)
  BY Zenon DEF C!Min, Min, C!Max, Max
<1>4. \A q : C!Optima(q) = Optima(q)
  BY <1>2, <1>3, Zenon DEF C!Optima, Optima
<1>5. \A q : C!brute_force(q) = brute_force(q)
  BY <1>3, <1>4, Zenon DEF C!brute_force, brute_force, C!Before, Before, C!SymDiff, SymDiff
<1>6. \A X : C!Cardinality(X) = Cardinality(X)
  BY Zenon
<1>7. \A X : C!Pairs(X) = Pairs(X)
  BY Zenon
<1>8. \A f : C!SumFunction(f) = Total(f, DOMAIN f)
  BY Zenon DEF Total
<1>9. \A f, X : C!SumFunctionOnSet(f, X) = Total(f, X)
  BY Zenon DEF Total
<1>. QED
  BY <1>1, <1>3, <1>5, <1>6, <1>7, <1>8, <1>9, Zenon

\* The answer of brute_force is an optimum, and none but the first of their order.
LEMMA BruteFirst ==
    ASSUME NEW q, QuboModel(q), energy(q, brute_force(q)) = energy(q, {})
    PROVE  brute_force(q) = {}
<1> DEFINE best == Optima(q)
           x == brute_force(q)
<1>1. /\ IsFiniteSet(Variables(q)) /\ Variables(q) \subseteq Int
      /\ x \in best /\ x \in SUBSET Variables(q) /\ {} \in SUBSET Variables(q)
      /\ {} \in best
  BY BruteOptimal, VariablesFinite
<1>2. x = CHOOSE z \in best : \A y \in best : Before(z, y)
  BY Zenon DEF brute_force
<1>3. best \subseteq SUBSET Variables(q)
  BY DEF Optima
<1> HIDE DEF best
<1>4. \E z \in best : \A y \in best : Before(z, y)
  BY <1>1, <1>3, FirstMask
<1> HIDE DEF x
<1>5. Before(x, {})
  BY <1>1, <1>2, <1>4
<1>. QED
  BY <1>5 DEF Before, x

LEMMA BruteLeast ==
    ASSUME NEW q, QuboModel(q), NEW y \in SUBSET Variables(q)
    PROVE  energy(q, brute_force(q)) <= energy(q, y)
<1> DEFINE W == SUBSET Variables(q)
           e == [x \in W |-> energy(q, x)]
           all == {e[x] : x \in DOMAIN e}
<1>1. brute_force(q) \in Optima(q) /\ brute_force(q) \in W
  BY BruteOptimal
<1>2. Optima(q) = {x \in DOMAIN e : e[x] = Min(all)}
  BY Zenon DEF Optima
<1>3. IsFiniteSet(W) /\ \A x \in W : energy(q, x) \in Int
  BY VariablesFinite, FS_SUBSET, EnergyInteger
<1>4. DOMAIN e = W /\ \A x \in W : e[x] = energy(q, x)
  OBVIOUS
<1>5. e \in Surjection(W, all)
  BY DEF Surjection
<1> HIDE DEF e
<1>6. all \subseteq Int /\ y \in W
  BY <1>3, <1>4
<1>7. \A x \in W : e[x] \in all
  BY <1>4
<1> HIDE DEF all, W
<1>8. IsFiniteSet(all)
  BY <1>3, <1>5, FS_Surjection
<1>9. \A z \in all : Min(all) <= z
  BY <1>6, <1>7, <1>8, LeastInteger
<1>10. energy(q, brute_force(q)) = Min(all)
  BY <1>1, <1>2, <1>4
<1>. QED
  BY <1>4, <1>6, <1>7, <1>9, <1>10

\* The numbers of the events that remain.
Rank(i) == Cardinality({n \in v4 : n < i})

LEMMA Ranks ==
    ASSUME IsFiniteSet(v4), v4 \subseteq Int
    PROVE  /\ Cardinality(v4) \in Nat
           /\ \A v \in 0 .. Cardinality(v4) - 1 : C!idx(v) \in v4 /\ Rank(C!idx(v)) = v
           /\ \A i \in v4 : Rank(i) \in 0 .. Cardinality(v4) - 1 /\ C!idx(Rank(i)) = i
<1> DEFINE below(i) == {n \in v4 : n < i}
           t == Cardinality(v4)
           rank == [i \in v4 |-> Rank(i)]
           all == {rank[i] : i \in v4}
<1>1. t \in Nat
  BY FS_CardinalityType
<1>2. ASSUME NEW i \in v4
      PROVE  Rank(i) \in Nat /\ Rank(i) < t
  <2>1. below(i) \in SUBSET v4 /\ below(i) # v4
    OBVIOUS
  <2> HIDE DEF below
  <2>2. IsFiniteSet(below(i)) /\ Cardinality(below(i)) <= t /\ Cardinality(below(i)) # t
    BY <2>1, FS_Subset
  <2>3. Cardinality(below(i)) \in Nat
    BY <2>2, FS_CardinalityType
  <2>4. Rank(i) = Cardinality(below(i))
    BY DEF Rank, below
  <2>. QED
    BY <1>1, <2>2, <2>3, <2>4
<1>3. ASSUME NEW i \in v4, NEW n \in v4, i < n
      PROVE  Rank(i) < Rank(n)
  <2>1. below(i) \in SUBSET below(n) /\ below(n) \in SUBSET v4 /\ i \in below(n) /\ i \notin below(i)
    <3>1. \A z \in v4 : z < i => z < n
      BY <1>3
    <3>2. ~(i < i)
      BY <1>3
    <3>. QED
      BY <1>3, <3>1, <3>2
  <2> HIDE DEF below
  <2>2. IsFiniteSet(below(n))
    BY <2>1, FS_Subset
  <2>3. Cardinality(below(i)) <= Cardinality(below(n)) /\ Cardinality(below(i)) # Cardinality(below(n))
    BY <2>1, <2>2, FS_Subset
  <2>4. Rank(i) = Cardinality(below(i)) /\ Rank(n) = Cardinality(below(n))
    BY DEF Rank, below
  <2>. QED
    BY <1>2, <2>3, <2>4
<1>4. \A i, n \in v4 : Rank(i) = Rank(n) => i = n
  <2>1. ASSUME NEW i \in v4, NEW n \in v4, i # n
        PROVE  Rank(i) # Rank(n)
    <3>1. i < n \/ n < i
      BY <2>1
    <3>. QED
      BY <1>2, <1>3, <3>1
  <2>. QED
    BY <2>1
<1>5. rank \in Surjection(v4, all) /\ rank \in Injection(v4, all)
  <2>1. rank \in Surjection(v4, all)
    BY DEF Surjection
  <2>2. rank \in [v4 -> all] /\ \A i, n \in v4 : rank[i] = rank[n] => i = n
    BY <1>4
  <2>. QED
    BY <2>1, <2>2 DEF Injection, IsInjective
<1>6. all \in SUBSET (0 .. t - 1)
  BY <1>1, <1>2
<1>7. \A i \in v4 : rank[i] = Rank(i)
  OBVIOUS
<1>8. \A v \in all : \E i \in v4 : v = Rank(i)
  OBVIOUS
<1> HIDE DEF rank, all
<1>9. Cardinality(all) = t
  BY <1>5, FS_Surjection
<1>10. IsFiniteSet(0 .. t - 1) /\ Cardinality(0 .. t - 1) = t
  <2>1. 0 \in Int /\ t - 1 \in Int
    BY <1>1
  <2>2. IsFiniteSet(0 .. t - 1)
    BY <2>1, FS_Interval
  <2>3. Cardinality(0 .. t - 1) = IF 0 > t - 1 THEN 0 ELSE t - 1 - 0 + 1
    BY <2>1, FS_Interval
  <2>. QED
    BY <1>1, <2>2, <2>3
<1>11. all = 0 .. t - 1
  BY <1>6, <1>9, <1>10, FS_Subset
<1>12. \A v : C!idx(v) = CHOOSE i \in v4 : Rank(i) = v
  BY SameClusters, Zenon DEF C!idx, Rank
<1>13. \A v \in 0 .. t - 1 : C!idx(v) \in v4 /\ Rank(C!idx(v)) = v
  <2>1. ASSUME NEW v \in 0 .. t - 1 PROVE C!idx(v) \in v4 /\ Rank(C!idx(v)) = v
    <3>1. \E i \in v4 : Rank(i) = v
      BY <1>8, <1>11
    <3>. QED
      BY <1>12, <3>1
  <2>. QED
    BY <2>1
<1>14. \A i \in v4 : Rank(i) \in 0 .. t - 1
  BY <1>1, <1>2
<1>15. \A i \in v4 : C!idx(Rank(i)) = i
  BY <1>4, <1>13, <1>14
<1>. QED
  BY <1>1, <1>13, <1>14, <1>15

\* A window, its gamma and the events that remain.
Windowed ==
    /\ v1 \in Similarities /\ v2 \in Gammas /\ v3 \in BOOLEAN
    /\ v4 \subseteq C!Events

LEMMA WindowParts ==
    ASSUME Windowed
    PROVE  /\ IsFiniteSet(C!Events) /\ C!Events \subseteq Int /\ v1 \in [Pairs(C!Events) -> Int]
           /\ IsFiniteSet(v4) /\ v4 \subseteq Int
<1>1. C!Events = UNION DOMAIN v1
  BY DEF C!Events
<1>2. IsFiniteSet(C!Events) /\ C!Events \subseteq Int /\ v1 \in [Pairs(C!Events) -> Int]
  BY <1>1, ClusterAssumption DEF Windowed
<1>3. IsFiniteSet(v4)
  BY <1>2, FS_Subset DEF Windowed
<1>. QED
  BY <1>2, <1>3 DEF Windowed

LEMMA PercentileNatural ==
    ASSUME Windowed
    PROVE  C!Percentile \in Nat
<1> DEFINE pos == C!Positive
           t == Cardinality(pos)
           last == 2 * t - 1
           n == last \div 4
           up(e) == {d \in pos : v1[d] <= v1[e]}
           high(b) == {e \in pos : 2 * Cardinality(up(e)) > b}
           value(b) == {v1[e] : e \in high(b)}
<1>1. IsFiniteSet(pos) /\ \A e \in pos : v1[e] \in Int /\ v1[e] > 0
  <2>1. pos \subseteq Pairs(C!Events) /\ \A e \in pos : v1[e] \in Int /\ v1[e] > 0
    BY WindowParts DEF C!Positive
  <2>2. IsFiniteSet(Pairs(C!Events))
    BY WindowParts, PairsOf
  <2>. QED
    BY <2>1, <2>2, FS_Subset
<1>2. t \in Nat
  BY <1>1, FS_CardinalityType
<1>3. \A b : C!Entry(b) = Min(value(b))
  BY SameClusters, Zenon DEF C!Entry
<1>4. C!Percentile = IF pos = {} THEN 80
        ELSE 4 * C!Entry(n) + (last % 4) * (C!Entry(IF n < last THEN n + 1 ELSE n) - C!Entry(n))
  BY SameClusters, Zenon DEF C!Percentile
<1>5. CASE pos = {}
  BY <1>4, <1>5
<1>6. CASE pos # {}
  <2>1. t # 0
    BY <1>1, <1>6, FS_EmptySet
  <2>2. ASSUME NEW b \in Int, b <= last
        PROVE  C!Entry(b) \in Int /\ C!Entry(b) > 0
    <3>1. \E e \in pos : \A d \in pos : v1[d] <= v1[e]
      <4> DEFINE f == [e \in pos |-> v1[e]]
                 all == {f[e] : e \in pos}
      <4>1. f \in Surjection(pos, all)
        BY DEF Surjection
      <4>2. all \subseteq Int /\ all # {}
        BY <1>1, <1>6
      <4>3. (\A e \in pos : f[e] = v1[e] /\ f[e] \in all) /\ \A y \in all : \E e \in pos : y = v1[e]
        OBVIOUS
      <4> HIDE DEF f, all, pos
      <4>4. IsFiniteSet(all)
        BY <1>1, <4>1, FS_Surjection
      <4>5. Max(all) \in all /\ \A y \in all : Max(all) >= y
        BY <4>2, <4>4, LeastInteger
      <4>. QED
        BY <4>3, <4>5
    <3>2. PICK e \in pos : \A d \in pos : v1[d] <= v1[e]
      BY <3>1
    <3>3. up(e) = pos
      BY <3>2
    <3>4. e \in high(b)
      BY <1>2, <2>2, <3>3
    <3>5. value(b) # {} /\ value(b) \subseteq {v1[d] : d \in pos}
      BY <3>4
    <3>6. IsFiniteSet({v1[d] : d \in pos})
      <4> DEFINE f == [d \in pos |-> v1[d]]
                 all == {v1[d] : d \in pos}
      <4>1. f \in Surjection(pos, all)
        BY DEF Surjection
      <4> HIDE DEF f, all, pos
      <4>2. IsFiniteSet(all)
        BY <1>1, <4>1, FS_Surjection
      <4>. QED
        BY <4>2 DEF all
    <3>7. \A y \in value(b) : y \in Int /\ y > 0
      BY <1>1, <3>5
    <3> HIDE DEF value
    <3>8. IsFiniteSet(value(b)) /\ value(b) \subseteq Int
      BY <3>5, <3>6, <3>7, FS_Subset
    <3>9. Min(value(b)) \in value(b)
      BY <3>5, <3>8, LeastInteger
    <3>. QED
      BY <1>3, <3>7, <3>9
  <2>3. /\ n \in Int /\ n <= last /\ last % 4 \in 0 .. 3
    BY <1>2, <2>1
  <2> HIDE DEF n, last
  <2>4. last \in Int
    BY <1>2 DEF last
  <2>5. PICK m \in Int : m = (IF n < last THEN n + 1 ELSE n) /\ m <= last
    BY <2>3, <2>4
  <2>6. PICK a \in Int, b \in Int : a = C!Entry(n) /\ b = C!Entry(m) /\ a > 0 /\ b > 0
    BY <2>2, <2>3, <2>5
  <2>7. PICK r \in 0 .. 3 : r = last % 4
    BY <2>3
  <2>8. 4 * a + r * (b - a) \in Nat
    <3>1. r = 0 \/ r = 1 \/ r = 2 \/ r = 3
      BY <2>7
    <3>. QED
      BY <2>6, <3>1
  <2>9. C!Percentile = 4 * a + r * (b - a)
    BY <1>4, <1>6, <2>5, <2>6, <2>7
  <2>. QED
    BY <2>8, <2>9
<1>. QED
  BY <1>5, <1>6

LEMMA GammaNatural ==
    ASSUME Windowed
    PROVE  C!gamma \in Nat
<1>1. v2 \in Nat \cup {-1}
  BY ClusterAssumption DEF Windowed
<1>. QED
  BY <1>1, PercentileNatural DEF C!gamma

\* The value of a group of events, by its pairs.
Links2(X) == Total([e \in Pairs(X) |-> C!gamma - 4 * v1[e]], Pairs(X))

LEMMA WorthLinks ==
    ASSUME Windowed, NEW X, X \subseteq C!Events
    PROVE  /\ IsFiniteSet(X) /\ IsFiniteSet(Pairs(X))
           /\ \A e \in Pairs(X) : v1[e] \in Int
           /\ Links2(X) \in Int /\ C!Worth(X) = -Links2(X)
<1> DEFINE f == [e \in Pairs(X) |-> C!gamma - 4 * v1[e]]
           g == [e \in Pairs(X) |-> 4 * v1[e] - C!gamma]
           c == -1
<1>1. IsFiniteSet(X) /\ IsFiniteSet(Pairs(X)) /\ Pairs(X) \subseteq Pairs(C!Events)
  <2>1. IsFiniteSet(X)
    BY WindowParts, FS_Subset
  <2>2. Pairs(X) = {e \in Pairs(C!Events) : e \subseteq X}
    BY WindowParts, PairsWithin
  <2>. QED
    BY <2>1, <2>2, PairsOf
<1>2. \A e \in Pairs(X) : v1[e] \in Int
  BY <1>1, WindowParts
<1>3. C!Worth(X) = Total(g, Pairs(X))
  <2>1. C!Worth(X) = Total(g, DOMAIN g)
    BY SameClusters, Zenon DEF C!Worth
  <2>. QED
    BY <2>1
<1>4. \A e \in Pairs(X) : f[e] \in Int /\ g[e] = c * f[e]
  BY <1>2, GammaNatural
<1>5. Links2(X) = Total(f, Pairs(X))
  BY Zenon DEF Links2
<1> HIDE DEF f, g
<1>6. c \in Int
  OBVIOUS
<1> HIDE DEF c
<1>7. Total(g, Pairs(X)) = c * Total(f, Pairs(X))
  BY <1>1, <1>4, <1>6, TotalTimes
<1>8. Total(f, Pairs(X)) \in Int
  BY <1>1, <1>4, TotalInteger
<1>. QED
  BY <1>1, <1>2, <1>3, <1>5, <1>7, <1>8 DEF c

Named(x) == {C!idx(v) : v \in x}

LEMMA ClusterModel ==
    ASSUME Windowed
    PROVE  /\ QuboModel(C!model) /\ Variables(C!model) = 0 .. Cardinality(v4) - 1
           /\ \A x \in SUBSET Variables(C!model) :
                 /\ Named(x) \in SUBSET v4
                 /\ energy(C!model, x) = Links2(Named(x))
           /\ \A X \in SUBSET v4 : \E x \in SUBSET Variables(C!model) : Named(x) = X
<1> DEFINE t == Cardinality(v4)
           W == 0 .. t - 1
           lin == [v \in W |-> 0]
           quad == [e \in Pairs(W) |-> C!gamma - 4 * v1[Named(e)]]
           m == C!model
<1>1. m = [n |-> Cardinality(DOMAIN lin), linear |-> lin, quadratic |-> quad, offset |-> 0]
  BY SameClusters, Zenon DEF C!model, C!QUBOModel, Named
<1>2. DOMAIN lin = W
  OBVIOUS
<1>3. t \in Nat /\ IsFiniteSet(W) /\ Cardinality(W) = t /\ W \subseteq Int
  <2>1. t \in Nat
    BY WindowParts, FS_CardinalityType
  <2>2. 0 \in Int /\ t - 1 \in Int
    BY <2>1
  <2>3. IsFiniteSet(0 .. t - 1)
    BY <2>2, FS_Interval
  <2>4. Cardinality(0 .. t - 1) = IF 0 > t - 1 THEN 0 ELSE t - 1 - 0 + 1
    BY <2>2, FS_Interval
  <2>. QED
    BY <2>1, <2>3, <2>4
<1>4. /\ \A v \in W : C!idx(v) \in v4
      /\ \A u, v \in W : C!idx(u) = C!idx(v) => u = v
      /\ \A i \in v4 : \E v \in W : C!idx(v) = i
  BY WindowParts, Ranks
<1>5. \A v \in W : lin[v] = 0
  OBVIOUS
<1>6. \A e : Named(e) = {C!idx(v) : v \in e}
  BY DEF Named
<1>7. \A e \in Pairs(W) : quad[e] = C!gamma - 4 * v1[Named(e)]
  OBVIOUS
<1>8. lin \in [W -> Int] /\ DOMAIN quad = Pairs(W) /\ quad = [e \in Pairs(W) |-> quad[e]]
  OBVIOUS
<1> HIDE DEF lin, quad, m
<1>9. m.n = t /\ m.linear = lin /\ m.quadratic = quad /\ m.offset = 0
  BY <1>1, <1>2, <1>3
<1>10. Variables(m) = W
  BY <1>9 DEF Variables
<1> HIDE DEF W, t
<1>11. \A e : e \in Pairs(W) <=> \E u, v \in W : u # v /\ e = {u, v}
  BY <1>3, PairsOf
<1>12. ASSUME NEW x \in SUBSET W
       PROVE  Named(x) \in SUBSET v4 /\ Named(x) \subseteq C!Events
  BY <1>4, <1>6 DEF Windowed
<1>13. ASSUME NEW e \in Pairs(W)
       PROVE  Named(e) \in Pairs(v4) /\ Named(e) \in Pairs(C!Events)
  <2>1. PICK u \in W, v \in W : u # v /\ e = {u, v}
    BY <1>11
  <2>2. Named(e) = {C!idx(u), C!idx(v)} /\ C!idx(u) # C!idx(v) /\ C!idx(u) \in v4 /\ C!idx(v) \in v4
    BY <1>4, <1>6, <2>1
  <2>3. \A d : d \in Pairs(v4) <=> \E a, b \in v4 : a # b /\ d = {a, b}
    BY WindowParts, PairsOf
  <2>4. \A d : d \in Pairs(C!Events) <=> \E a, b \in C!Events : a # b /\ d = {a, b}
    BY WindowParts, PairsOf
  <2>5. C!idx(u) \in C!Events /\ C!idx(v) \in C!Events
    BY <2>2 DEF Windowed
  <2>. QED
    BY <2>2, <2>3, <2>4, <2>5
<1>14. \A e \in Pairs(W) : quad[e] \in Int
  <2>1. ASSUME NEW e \in Pairs(W) PROVE quad[e] \in Int
    <3>1. v1[Named(e)] \in Int
      BY <1>13, WindowParts
    <3>. QED
      BY <1>7, <3>1, GammaNatural
  <2>. QED
    BY <2>1
<1>15. QuboModel(m)
  BY <1>3, <1>8, <1>9, <1>10, <1>14 DEF QuboModel
<1>16. ASSUME NEW x \in SUBSET W
       PROVE  energy(m, x) = Links2(Named(x))
  <2> DEFINE X == Named(x)
             f == [e \in Pairs(X) |-> C!gamma - 4 * v1[e]]
             name == [e \in Pairs(x) |-> Named(e)]
  <2>1. IsFiniteSet(x) /\ IsFiniteSet(Pairs(x)) /\ Pairs(x) \subseteq Pairs(W)
    <3>1. IsFiniteSet(x)
      BY <1>3, FS_Subset
    <3>2. Pairs(x) = {e \in Pairs(W) : e \subseteq x}
      BY <1>3, PairsWithin
    <3>. QED
      BY <3>1, <3>2, PairsOf
  <2>2. IsFiniteSet(X)
    BY <1>12, WindowParts, FS_Subset
  <2>3. /\ \A e : e \in Pairs(x) <=> \E u, v \in x : u # v /\ e = {u, v}
        /\ \A e : e \in Pairs(X) <=> \E a, b \in X : a # b /\ e = {a, b}
    BY <2>1, <2>2, PairsOf
  <2>4. \A u, v : Named({u, v}) = {C!idx(u), C!idx(v)}
    BY <1>6
  <2>5. \A a : a \in X <=> \E u \in x : a = C!idx(u)
    BY <1>6
  <2> HIDE DEF X
  <2>6. \A e \in Pairs(x) : Named(e) \in Pairs(X)
    <3>1. ASSUME NEW e \in Pairs(x) PROVE Named(e) \in Pairs(X)
      <4>1. PICK u \in x, v \in x : u # v /\ e = {u, v}
        BY <2>3
      <4>2. Named(e) = {C!idx(u), C!idx(v)} /\ C!idx(u) # C!idx(v)
        BY <1>4, <2>4, <4>1
      <4>3. C!idx(u) \in X /\ C!idx(v) \in X
        BY <2>5, <4>1
      <4>. QED
        BY <2>3, <4>2, <4>3
    <3>. QED
      BY <3>1
  <2>7. \A d \in Pairs(X) : \E e \in Pairs(x) : d = Named(e)
    <3>1. ASSUME NEW d \in Pairs(X) PROVE \E e \in Pairs(x) : d = Named(e)
      <4>1. PICK a \in X, b \in X : a # b /\ d = {a, b}
        BY <2>3
      <4>2. PICK u \in x, v \in x : a = C!idx(u) /\ b = C!idx(v)
        BY <2>5, <4>1
      <4>3. {u, v} \in Pairs(x) /\ d = Named({u, v})
        BY <2>3, <2>4, <4>1, <4>2
      <4>. QED
        BY <4>3
    <3>. QED
      BY <3>1
  <2>8. Pairs(X) = {name[e] : e \in Pairs(x)}
    <3>1. \A e \in Pairs(x) : name[e] = Named(e)
      OBVIOUS
    <3> HIDE DEF name
    <3>. QED
      BY <2>6, <2>7, <3>1
  <2>9. \A e, d \in Pairs(x) : name[e] = name[d] => e = d
    <3>1. ASSUME NEW e \in Pairs(x), NEW d \in Pairs(x), Named(e) = Named(d)
          PROVE  \A v \in e : v \in d
      <4>1. TAKE v \in e
      <4>2. v \in x /\ e \subseteq W /\ d \subseteq W
        BY <2>3
      <4>3. C!idx(v) \in Named(d)
        BY <1>6, <3>1
      <4>4. PICK u \in d : C!idx(v) = C!idx(u)
        BY <1>6, <4>3
      <4>. QED
        BY <1>4, <4>2, <4>4
    <3>2. ASSUME NEW e \in Pairs(x), NEW d \in Pairs(x), Named(e) = Named(d)
          PROVE  e = d
      <4>1. (\A v \in e : v \in d) /\ (\A v \in d : v \in e)
        BY <3>1, <3>2
      <4>. QED
        BY <4>1
    <3>. QED
      BY <3>2
  <2>10. \A e \in Pairs(x) : quad[e] \in Int /\ f[name[e]] = quad[e]
    BY <1>7, <1>14, <2>1, <2>6
  <2> HIDE DEF f, name
  <2>11. Total(f, Pairs(X)) = Total(quad, Pairs(x))
    BY <2>1, <2>8, <2>9, <2>10, TotalImage
  <2>12. Total(lin, x) = 0
    BY <1>5, <2>1, TotalZero
  <2>13. Total(quad, Pairs(x)) \in Int
    BY <2>1, <2>10, TotalInteger
  <2>14. energy(m, x) = Total(lin, x) + Total(quad, Pairs(x)) + 0
    BY <1>9 DEF energy, Total
  <2>15. Links2(X) = Total(f, Pairs(X))
    BY Zenon DEF Links2, f
  <2>. QED
    BY <2>11, <2>12, <2>13, <2>14, <2>15 DEF X
<1>17. ASSUME NEW X \in SUBSET v4
       PROVE  \E x \in SUBSET W : Named(x) = X
  <2> DEFINE x == {v \in W : C!idx(v) \in X}
  <2>1. x \in SUBSET W /\ \A i \in X : \E v \in x : C!idx(v) = i
    BY <1>4
  <2>2. Named(x) = X
    BY <1>6, <2>1
  <2>. QED
    BY <2>1, <2>2
<1>. QED
  BY <1>10, <1>12, <1>15, <1>16, <1>17 DEF m, W, t

\* What a group's worth says of its weight, and of its size.
LEMMA WorthWeight ==
    ASSUME Windowed, NEW X, X \subseteq C!Events
    PROVE  /\ C!Worth(X) \in Int
           /\ C!Internal(X) <= 0 => C!Worth(X) <= 0
           /\ Cardinality(X) < 2 => C!Worth(X) <= 0
<1> DEFINE D == Pairs(X)
           f == [e \in D |-> C!gamma - 4 * v1[e]]
           four == [e \in D |-> (-4) * v1[e]]
           all == [e \in D |-> C!gamma]
           c == -4
<1>1. /\ IsFiniteSet(X) /\ IsFiniteSet(D) /\ \A e \in D : v1[e] \in Int
      /\ Links2(X) \in Int /\ C!Worth(X) = -Links2(X)
  BY WorthLinks
<1>2. C!gamma \in Nat
  BY GammaNatural
<1>3. Links2(X) = Total(f, D)
  BY Zenon DEF Links2
<1>4. C!Internal(X) = Total(v1, D)
  BY SameClusters, Zenon DEF C!Internal
<1>5. /\ \A e \in D : all[e] \in Nat /\ all[e] \in Int
      /\ \A e \in D : four[e] = c * v1[e] /\ four[e] \in Int
      /\ \A e \in D : f[e] = four[e] + all[e]
  BY <1>1, <1>2
<1>6. Cardinality(X) < 2 => D = {}
  <2>1. SUFFICES ASSUME Cardinality(X) < 2, D # {} PROVE FALSE
    OBVIOUS
  <2>2. PICK e \in D : TRUE
    BY <2>1
  <2>3. e \in SUBSET X /\ Cardinality(e) = 2
    BY <2>2, Zenon DEF Pairs, kSubset
  <2>4. Cardinality(e) <= Cardinality(X) /\ Cardinality(X) \in Nat
    BY <1>1, <2>3, FS_Subset, FS_CardinalityType
  <2>. QED
    BY <2>1, <2>3, <2>4
<1> HIDE DEF f, four, all, D
<1>7. Total(all, D) \in Nat
  BY <1>1, <1>5, TotalNatural
<1>8. c \in Int /\ c = -4
  OBVIOUS
<1> HIDE DEF c
<1>9. Total(four, D) = c * Total(v1, D)
  BY <1>1, <1>5, <1>8, TotalTimes
<1>10. Total(f, D) = Total(four, D) + Total(all, D)
  BY <1>1, <1>5, TotalPlus
<1>11. Total(v1, D) \in Int
  BY <1>1, TotalInteger
<1>12. PICK a \in Int, b \in Nat : a = Total(v1, D) /\ b = Total(all, D)
  BY <1>7, <1>11
<1>13. Links2(X) = (-4) * a + b
  BY <1>3, <1>8, <1>9, <1>10, <1>12
<1>14. C!Internal(X) <= 0 => C!Worth(X) <= 0
  BY <1>1, <1>4, <1>12, <1>13
<1>15. D = {} => Links2(X) = 0
  BY <1>3, TotalEmpty
<1>. QED
  BY <1>1, <1>6, <1>14, <1>15

\* What an exact solver picks: a group worth more than nothing, or no group is.
LEMMA ExactPick ==
    ASSUME Windowed, v3, NEW picked \in C!Picks
    PROVE  /\ picked # {} => C!Worth(picked) > 0
           /\ C!Worth(picked) <= 0 => \A X \in SUBSET v4 : C!Worth(X) <= 0
<1> DEFINE m == C!model
           x == brute_force(m)
<1>1. picked = Named(x)
  <2>1. C!Picks = {Named(z) : z \in {x}}
    BY SameClusters, Zenon DEF C!Picks, Named
  <2>. QED
    BY <2>1
<1>2. /\ QuboModel(m) /\ x \in SUBSET Variables(m) /\ {} \in SUBSET Variables(m)
      /\ \A y \in SUBSET Variables(m) : energy(m, x) <= energy(m, y)
      /\ energy(m, x) = energy(m, {}) => x = {}
  <2>1. QuboModel(m)
    BY ClusterModel
  <2>. QED
    BY <2>1, BruteOptimal, BruteLeast, BruteFirst
<1>3. \A z \in SUBSET Variables(m) : Named(z) \in SUBSET v4 /\ energy(m, z) = Links2(Named(z))
  BY ClusterModel
<1>4. \A X \in SUBSET v4 : \E z \in SUBSET Variables(m) : Named(z) = X
  BY ClusterModel
<1>5. \A X \in SUBSET v4 : Links2(X) \in Int /\ C!Worth(X) = -Links2(X)
  <2>1. TAKE X \in SUBSET v4
  <2>2. X \subseteq C!Events
    BY DEF Windowed
  <2>. QED
    BY <2>2, WorthLinks
<1>6. Named({}) = {} /\ Links2({}) = 0
  <2>1. Pairs({}) = {}
    BY FS_EmptySet, PairsOf
  <2>2. Links2({}) = 0
    BY <2>1, TotalEmpty DEF Links2
  <2>. QED
    BY <2>2 DEF Named
<1> HIDE DEF m, x
<1>7. \A X \in SUBSET v4 : Links2(picked) <= Links2(X)
  <2>1. TAKE X \in SUBSET v4
  <2>2. PICK z \in SUBSET Variables(m) : Named(z) = X
    BY <1>4
  <2>3. energy(m, x) <= energy(m, z)
    BY <1>2
  <2>4. energy(m, x) = Links2(picked) /\ energy(m, z) = Links2(X)
    BY <1>1, <1>2, <1>3, <2>2
  <2>. QED
    BY <2>3, <2>4
<1>8. picked \in SUBSET v4 /\ {} \in SUBSET v4
  BY <1>1, <1>2, <1>3
<1>9. Links2(picked) <= 0
  BY <1>6, <1>7, <1>8
<1>10. picked # {} => Links2(picked) # 0
  <2>1. energy(m, x) = Links2(picked) /\ energy(m, {}) = 0
    BY <1>1, <1>2, <1>3, <1>6
  <2>. QED
    BY <1>1, <1>2, <1>6, <2>1
<1>. QED
  BY <1>5, <1>7, <1>8, <1>9, <1>10

LEMMA PickWithin ==
    ASSUME Windowed, NEW picked \in C!Picks
    PROVE  picked \in SUBSET v4
<1>1. C!Picks = {Named(z) : z \in IF v3 THEN {brute_force(C!model)}
                                       ELSE SUBSET Variables(C!model)}
  BY SameClusters, Zenon DEF C!Picks, Named
<1>2. QuboModel(C!model) /\ \A z \in SUBSET Variables(C!model) : Named(z) \in SUBSET v4
  BY ClusterModel
<1>3. brute_force(C!model) \in SUBSET Variables(C!model)
  BY <1>2, BruteOptimal
<1>. QED
  BY <1>1, <1>2, <1>3

\* The groups made so far and the events left over divide the window.
Divided ==
    /\ (UNION v5) \cup v4 = C!Events
    /\ \A c \in v5 : c \subseteq C!Events /\ Cardinality(c) >= 2 /\ c \cap v4 = {}
    /\ \A c, d \in v5 : c = d \/ c \cap d = {}
    /\ IsFiniteSet(v5) /\ Cardinality(v5) = v6 /\ v6 \in Nat /\ v6 <= MaxClusters

Dense == v3 => \A c \in v5 : C!Worth(c) > 0

Exhausted ==
    v7 = "done" /\ v3 /\ v6 < MaxClusters => \A X \in SUBSET v4 : C!Worth(X) <= 0

ClusterInv == Windowed /\ Divided /\ Dense /\ Exhausted

LEMMA ClusterInit ==
    ASSUME C!Init
    PROVE  ClusterInv
<1>. USE DEF C!Init
<1>1. Windowed
  BY DEF Windowed
<1>2. Divided
  <2>1. IsFiniteSet(v5) /\ Cardinality(v5) = v6
    BY FS_EmptySet
  <2>2. MaxClusters \in Nat
    BY ClusterAssumption
  <2>3. v4 = C!Events /\ v5 = {} /\ v6 = 0
    OBVIOUS
  <2>4. (UNION v5) \cup v4 = C!Events
    <3>1. UNION v5 = {}
      BY <2>3
    <3>. QED
      BY <2>3, <3>1
  <2>5. v6 \in Nat /\ v6 <= MaxClusters
    BY <2>2, <2>3
  <2>. QED
    BY <2>1, <2>3, <2>4, <2>5 DEF Divided
<1>3. Dense /\ Exhausted
  BY DEF Dense, Exhausted
<1>. QED
  BY <1>1, <1>2, <1>3 DEF ClusterInv

LEMMA SameWindow ==
    ASSUME v1' = v1, v2' = v2
    PROVE  C!Events' = C!Events /\ \A X : C!Worth(X)' = C!Worth(X)
<1>1. C!Events' = C!Events
  BY DEF C!Events
<1>2. C!Positive' = C!Positive
  BY DEF C!Positive
<1>3. \A b : C!Entry(b)' = C!Entry(b)
  BY <1>2, Zenon DEF C!Entry
<1>4. C!Percentile' = C!Percentile
  BY <1>2, <1>3, Zenon DEF C!Percentile
<1>5. C!gamma' = C!gamma
  BY <1>4, Zenon DEF C!gamma
<1>6. \A X : C!Worth(X)' = C!Worth(X)
  BY <1>5, Zenon DEF C!Worth
<1>. QED
  BY <1>1, <1>6

LEMMA AcceptStep ==
    ASSUME ClusterInv, NEW picked \in C!Picks, v6 < MaxClusters, v7 = "round",
           Cardinality(picked) >= 2,
           v5' = v5 \cup {picked}, v4' = C!Without(picked), v6' = v6 + 1, v7' = v7,
           v1' = v1, v2' = v2, v3' = v3
    PROVE  ClusterInv'
<1>1. picked \in SUBSET v4 /\ picked \in SUBSET C!Events
  BY PickWithin DEF ClusterInv, Windowed
<1>2. C!Events' = C!Events /\ \A X : C!Worth(X)' = C!Worth(X)
  BY SameWindow
<1>3. v4' = v4 \ picked
  BY DEF C!Without
<1>4. Windowed'
  BY <1>2, <1>3 DEF ClusterInv, Windowed
<1>5. picked # {}
  BY FS_EmptySet
<1>6. \A c \in v5 : c \cap picked = {} /\ c # picked
  BY <1>1, <1>5 DEF ClusterInv, Divided
<1>7. Divided'
  <2>1. (UNION v5') \cup v4' = C!Events'
    <3>1. (UNION v5) \cup v4 = C!Events
      BY DEF ClusterInv, Divided
    <3>2. UNION (v5 \cup {picked}) = (UNION v5) \cup picked
      OBVIOUS
    <3>. QED
      BY <1>1, <1>2, <1>3, <3>1, <3>2
  <2>2. \A c \in v5' : c \subseteq C!Events' /\ Cardinality(c) >= 2 /\ c \cap v4' = {}
    BY <1>1, <1>2, <1>3 DEF ClusterInv, Divided
  <2>3. \A c, d \in v5' : c = d \/ c \cap d = {}
    BY <1>6 DEF ClusterInv, Divided
  <2>4. IsFiniteSet(v5') /\ Cardinality(v5') = v6'
    <3>1. IsFiniteSet(v5) /\ Cardinality(v5) = v6 /\ picked \notin v5
      BY <1>6 DEF ClusterInv, Divided
    <3>. QED
      BY <3>1, FS_AddElement
  <2>5. v6' \in Nat /\ v6' <= MaxClusters
    BY ClusterAssumption DEF ClusterInv, Divided
  <2>. QED
    BY <2>1, <2>2, <2>3, <2>4, <2>5 DEF Divided
<1>8. Dense'
  <2>1. v3 => C!Worth(picked) > 0
    BY <1>5, ExactPick DEF ClusterInv
  <2>. QED
    BY <1>2, <2>1 DEF ClusterInv, Dense
<1>9. Exhausted'
  BY DEF Exhausted
<1>. QED
  BY <1>4, <1>7, <1>8, <1>9 DEF ClusterInv

LEMMA SettledStep ==
    ASSUME ClusterInv, UNCHANGED <<v1, v2, v3, v4, v5, v6>>,
           v7' = "done" /\ v3 /\ v6 < MaxClusters => \A X \in SUBSET v4 : C!Worth(X) <= 0
    PROVE  ClusterInv'
<1>1. C!Events' = C!Events /\ \A X : C!Worth(X)' = C!Worth(X)
  BY SameWindow
<1>2. Windowed'
  BY <1>1 DEF ClusterInv, Windowed
<1>3. Divided'
  BY <1>1 DEF ClusterInv, Divided
<1>4. Dense'
  BY <1>1 DEF ClusterInv, Dense
<1>5. Exhausted'
  BY <1>1 DEF ClusterInv, Exhausted
<1>. QED
  BY <1>2, <1>3, <1>4, <1>5 DEF ClusterInv

LEMMA DeclineStep ==
    ASSUME ClusterInv, NEW picked \in C!Picks,
           Cardinality(picked) < 2 \/ C!Internal(picked) <= 0, v7' = "done",
           UNCHANGED <<v1, v2, v3, v4, v5, v6>>
    PROVE  ClusterInv'
<1>1. Windowed /\ picked \in SUBSET C!Events
  BY PickWithin DEF ClusterInv, Windowed
<1>2. C!Worth(picked) <= 0
  BY <1>1, WorthWeight
<1>3. v3 => \A X \in SUBSET v4 : C!Worth(X) <= 0
  BY <1>1, <1>2, ExactPick
<1>. QED
  BY <1>3, SettledStep

LEMMA StopStep ==
    ASSUME ClusterInv, C!Stop
    PROVE  ClusterInv'
<1>1. /\ UNCHANGED <<v1, v2, v3, v4, v5, v6>>
      /\ v6 = MaxClusters \/ Cardinality(v4) < 2
  BY SameClusters, Zenon DEF C!Stop
<1>2. ASSUME v6 < MaxClusters, NEW X \in SUBSET v4
      PROVE  C!Worth(X) <= 0
  <2>1. Cardinality(v4) < 2
    BY <1>1, <1>2, ClusterAssumption DEF ClusterInv, Divided
  <2>2. IsFiniteSet(v4) /\ Windowed
    BY WindowParts DEF ClusterInv
  <2>3. Cardinality(X) < 2
    <3>1. IsFiniteSet(X) /\ Cardinality(X) <= Cardinality(v4)
      BY <2>2, FS_Subset
    <3>. QED
      BY <2>1, <2>2, <3>1, FS_CardinalityType
  <2>4. X \subseteq C!Events
    BY <2>2 DEF Windowed
  <2>. QED
    BY <2>2, <2>3, <2>4, WorthWeight
<1>. QED
  BY <1>1, <1>2, SettledStep

LEMMA ClusterStep ==
    ASSUME ClusterInv, C!Next \/ UNCHANGED C!vars
    PROVE  ClusterInv'
<1>1. CASE C!Round
  <2>1. PICK picked \in C!Picks :
          \/ /\ Cardinality(picked) >= 2
             /\ v5' = v5 \cup {picked} /\ v4' = C!Without(picked) /\ v6' = v6 + 1
             /\ v7' = v7
          \/ /\ Cardinality(picked) < 2 \/ C!Internal(picked) <= 0
             /\ v7' = "done" /\ UNCHANGED <<v4, v5, v6>>
    BY <1>1, SameClusters, Zenon DEF C!Round
  <2>2. v7 = "round" /\ v6 < MaxClusters /\ UNCHANGED <<v1, v2, v3>>
    BY <1>1 DEF C!Round
  <2>. QED
    BY <2>1, <2>2, AcceptStep, DeclineStep
<1>2. CASE C!Stop
  BY <1>2, StopStep
<1>3. CASE UNCHANGED C!vars
  <2>1. UNCHANGED <<v1, v2, v3, v4, v5, v6>> /\ v7' = v7
    BY <1>3 DEF C!vars
  <2>2. v7' = "done" /\ v3 /\ v6 < MaxClusters => \A X \in SUBSET v4 : C!Worth(X) <= 0
    BY <2>1 DEF ClusterInv, Exhausted
  <2>. QED
    BY <2>1, <2>2, SettledStep
<1>. QED
  BY <1>1, <1>2, <1>3 DEF C!Next

LEMMA ClusterSound ==
    ASSUME ClusterInv
    PROVE  C!ClustersSound
<1>1. C!ClustersSound <=>
        (v7 = "done" =>
            /\ (UNION v5) \cup v4 = C!Events
            /\ \A c \in v5 : Cardinality(c) >= 2 /\ c \cap v4 = {}
            /\ \A c, d \in v5 : c = d \/ c \cap d = {}
            /\ Cardinality(v5) = v6
            /\ v3 => \A c \in v5 : C!Worth(c) > 0
            /\ v3 /\ v6 < MaxClusters => \A X \in SUBSET v4 : C!Worth(X) <= 0)
  BY SameClusters, Zenon DEF C!ClustersSound
<1>. QED
  BY <1>1 DEF ClusterInv, Divided, Dense, Exhausted

(***************************************************************************)
(* Whatever the window, gamma and the number of clusters, the clusters and *)
(* the singletons of a finished run divide the events; with a solver that  *)
(* enumerates, every cluster is denser than gamma and, unless the clusters *)
(* ran out, no group of singletons is: correlate_qubo                      *)
(* (services/quantum/correlation_qubo.py).                                 *)
(***************************************************************************)
THEOREM ClustersSoundAlways == MCSpec => []ClustersSound
<1> DEFINE IInv == part = "clusters" => ClusterInv
<1>1. MCInit => IInv
  BY ClusterInit DEF MCInit
<1>2. IInv /\ [MCNext]_mcvars => IInv'
  BY PartStep, ClusterStep
<1>3. IInv => ClustersSound
  BY ClusterSound DEF ClustersSound
<1>. QED
  BY <1>1, <1>2, <1>3, PTL DEF MCSpec
=============================================================================
