-------------------------- MODULE OperationsProofs --------------------------
(***************************************************************************)
(* Proofs about Login, ApiKeys and Triage, and what they, UsersProofs and  *)
(* ModelRegistryProofs say of MCOperations: for any number of requests,    *)
(* people, keys, scopes and models, and any positive limit of wrong        *)
(* passwords.                                                              *)
(***************************************************************************)
EXTENDS MCOperations, Integers, Sequences, TLAPS

-----------------------------------------------------------------------------
(* Login. *)

\* The steps of one request.
Step(r) ==
    \/ \E password \in BOOLEAN, code \in Secrets : Attempts(r, password, code)
    \/ CountsFailure(r) \/ Succeeds(r) \/ EndsUnwritten(r)
    \/ \E op \in {"enroll", "verify", "disable"}, code \in Secrets : TotpReads(r, op, code)
    \/ TotpCommits(r)

LEMMA StepCases ==
    ASSUME [Next]_vars
    PROVE  (\E r \in Requests : Step(r)) \/ LockRunsOut \/ UNCHANGED vars
BY DEF Next, Step

InFlight == {"wrong", "refused", "success", "totp"}

-----------------------------------------------------------------------------
(* The inductive invariant. *)

\* Everything that counts stays below the limit.
Counting ==
    /\ row.fails < MaxAttempts /\ streak <= row.fails
    /\ \A r \in Requests : seen[r].fails < MaxAttempts

\* A request behind which nobody has committed has read the row as it is, but
\* for a lock that has run out since.
Current ==
    \A r \in Requests : pc[r] \in InFlight /\ ~moved[r] =>
        /\ seen[r].fails = row.fails
        /\ seen[r].lock = row.lock \/ (seen[r].lock = "live" /\ row.lock = "over")
        /\ seen[r].secret = row.secret /\ seen[r].mfa = row.mfa

\* What was decided from the row that was read.
Decided ==
    \A r \in Requests :
        /\ pc[r] = "success" => seen[r].lock # "live"
        /\ pc[r] = "totp" /\ call[r].op = "enroll" => ~seen[r].mfa
        /\ pc[r] = "totp" /\ call[r].op = "verify" => call[r].code = seen[r].secret

Inv == TypeOK /\ Counting /\ Current /\ Decided /\ MfaConfirmed

LEMMA InitInv ==
    ASSUME MaxAttempts \in Nat \ {0}, Init
    PROVE  Inv
<1>1. row \in Row /\ row.fails < MaxAttempts /\ ~row.mfa /\ row.fails \in Nat
  <2>1. row.fails \in 0 .. MaxAttempts - 1 /\ row.lock \in Locks /\ row.active \in BOOLEAN
        /\ row.secret \in Secrets /\ row.mfa = FALSE
    BY DEF Init, Locks, Secrets
  <2>2. row = [fails |-> row.fails, lock |-> row.lock, active |-> row.active,
               secret |-> row.secret, mfa |-> row.mfa]
    BY DEF Init
  <2>3. row.fails \in 0 .. MaxAttempts /\ row.fails < MaxAttempts /\ row.fails \in Nat
    BY <2>1
  <2>4. row \in Row
    BY <2>1, <2>2, <2>3, Zenon DEF Row
  <2>. QED
    BY <2>1, <2>3, <2>4
<1>2. Fresh \in Row /\ Fresh.fails = 0 /\ NoCall \in Call
  BY DEF Row, Fresh, Locks, Secrets, NoCall, Call
<1>3. /\ pc = [r \in Requests |-> "idle"] /\ call = [r \in Requests |-> NoCall]
      /\ seen = [r \in Requests |-> Fresh] /\ moved = [r \in Requests |-> FALSE]
      /\ streak = 0 /\ confirmed = {} /\ crossed = FALSE
  BY DEF Init
<1>4. TypeOK
  BY <1>1, <1>2, <1>3 DEF TypeOK
<1>5. Counting
  BY <1>1, <1>2, <1>3 DEF Counting
<1>6. Current /\ Decided /\ MfaConfirmed
  BY <1>1, <1>3 DEF Current, Decided, MfaConfirmed, InFlight
<1>. QED
  BY <1>4, <1>5, <1>6 DEF Inv

-----------------------------------------------------------------------------
(* What the steps have in common. *)

\* A commit puts every request that has read behind, and nobody else's reading
\* changes.
LEMMA CommitMoves ==
    ASSUME TypeOK, Decided, NEW r \in Requests, Commits(r)
    PROVE  /\ pc'[r] = "done" /\ seen'[r] = Fresh
           /\ \A q \in Requests \ {r} :
                 pc'[q] = pc[q] /\ call'[q] = call[q] /\ seen'[q] = seen[q]
           /\ Current' /\ Decided'
<1>1. /\ pc'[r] = "done" /\ seen'[r] = Fresh
      /\ \A q \in Requests \ {r} :
            pc'[q] = pc[q] /\ call'[q] = call[q] /\ seen'[q] = seen[q]
  BY DEF Commits, Ends, Goto, TypeOK
<1>2. \A q \in Requests \ {r} : pc'[q] \in InFlight => moved'[q]
  BY <1>1 DEF Commits, InFlight
<1>3. Current'
  BY <1>1, <1>2 DEF Current, InFlight
<1>4. Decided'
  BY <1>1 DEF Decided
<1>. QED
  BY <1>1, <1>3, <1>4

LEMMA CommitTypes ==
    ASSUME MaxAttempts \in Nat \ {0}, TypeOK, Counting, NEW r \in Requests, Commits(r)
    PROVE  /\ pc' \in [Requests -> InFlight \cup {"idle", "done"}]
           /\ call' \in [Requests -> Call] /\ seen' \in [Requests -> Row]
           /\ moved' \in [Requests -> BOOLEAN]
           /\ \A q \in Requests : seen'[q].fails < MaxAttempts
<1>1. Fresh \in Row /\ NoCall \in Call /\ Fresh.fails = 0
  BY DEF Fresh, Row, Locks, Secrets, NoCall, Call
<1>2. pc' \in [Requests -> InFlight \cup {"idle", "done"}]
  BY DEF Commits, Ends, Goto, TypeOK, InFlight
<1>3. call' \in [Requests -> Call] /\ seen' \in [Requests -> Row]
  BY <1>1 DEF Commits, Ends, TypeOK
<1>4. moved' \in [Requests -> BOOLEAN]
  <2>1. \A q \in Requests : moved[q] \in BOOLEAN
    BY DEF TypeOK
  <2>2. \A q \in Requests :
           (q # r /\ (moved[q] \/ pc[q] \notin {"idle", "done"})) \in BOOLEAN
    OBVIOUS
  <2>. QED
    BY <2>2, Zenon DEF Commits
<1>5. \A q \in Requests : seen'[q].fails < MaxAttempts
  BY <1>1 DEF Commits, Ends, TypeOK, Counting
<1>. QED
  BY <1>2, <1>3, <1>4, <1>5

\* A read that goes on: the request has read the row as it is.
LEMMA ReadSteps ==
    ASSUME Inv, NEW r \in Requests, NEW c \in Call, NEW label \in InFlight,
           Reads(r, c), Goto(r, label),
           UNCHANGED <<row, moved, streak, confirmed, crossed>>,
           label = "success" => row.lock # "live",
           label = "totp" /\ c.op = "enroll" => ~row.mfa,
           label = "totp" /\ c.op = "verify" => c.code = row.secret
    PROVE  Inv'
<1>1. /\ pc'[r] = label /\ call'[r] = c /\ seen'[r] = row
      /\ \A q \in Requests \ {r} :
            pc'[q] = pc[q] /\ call'[q] = call[q] /\ seen'[q] = seen[q]
  BY DEF Reads, Goto, Inv, TypeOK
<1>2. TypeOK'
  BY DEF Inv, TypeOK, Reads, Goto, InFlight
<1>3. Counting'
  BY <1>1 DEF Inv, Counting
<1>4. Current'
  BY <1>1 DEF Inv, Current
<1>5. Decided'
  BY <1>1 DEF Inv, Decided
<1>6. MfaConfirmed'
  BY DEF Inv, MfaConfirmed
<1>. QED
  BY <1>2, <1>3, <1>4, <1>5, <1>6 DEF Inv

-----------------------------------------------------------------------------
(* The steps. *)

LEMMA AttemptStep ==
    ASSUME Inv, NEW r \in Requests, NEW password \in BOOLEAN, NEW code \in Secrets,
           Attempts(r, password, code)
    PROVE  Inv'
<1> DEFINE c == [op |-> "login", password |-> password, code |-> code]
<1>1. c \in Call /\ c.op = "login"
  BY DEF Call
<1>2. /\ Decides(password, code) \in {"wrong", "refused", "success"}
      /\ Decides(password, code) = "success" => row.lock # "live"
  BY DEF Decides
<1>3. Reads(r, c) /\ Goto(r, Decides(password, code))
      /\ UNCHANGED <<row, moved, streak, confirmed, crossed>>
  BY DEF Attempts
<1>. QED
  BY <1>1, <1>2, <1>3, ReadSteps DEF InFlight

LEMMA TotpReadStep ==
    ASSUME Inv, NEW r \in Requests, NEW op \in {"enroll", "verify", "disable"},
           NEW code \in Secrets, TotpReads(r, op, code)
    PROVE  Inv'
<1> DEFINE c == [op |-> op, password |-> FALSE, code |-> code]
<1>1. c \in Call /\ c.op = op /\ c.code = code
  BY DEF Call
<1>2. /\ op = "enroll" => ~row.mfa
      /\ op = "verify" => code = row.secret
  BY DEF TotpReads, Accepts, Verifies
<1>3. Reads(r, c) /\ Goto(r, "totp")
      /\ UNCHANGED <<row, moved, streak, confirmed, crossed>>
  BY DEF TotpReads
<1>. QED
  BY <1>1, <1>2, <1>3, ReadSteps DEF InFlight

\* One more wrong password: behind an unmoved reading it lengthens the streak
\* and the count alike.
LEMMA FailureStep ==
    ASSUME MaxAttempts \in Nat \ {0}, Inv, NEW r \in Requests, CountsFailure(r)
    PROVE  Inv'
<1> DEFINE n == seen[r].fails + 1
<1>1. seen[r] \in Row /\ row \in Row /\ streak \in Nat /\ n \in Nat /\ row.fails \in Nat
  BY DEF Inv, TypeOK, Row
<1>2. Commits(r) /\ UNCHANGED <<confirmed, crossed>>
  BY DEF CountsFailure
<1>3. row' \in Row /\ row'.fails \in Nat /\ row'.fails < MaxAttempts /\ streak' \in Nat
      /\ streak' <= row'.fails /\ row'.mfa = row.mfa /\ row'.secret = row.secret
  <2>1. CASE n >= MaxAttempts
    <3>1. /\ row' = [row EXCEPT !.fails = Written(row.fails, seen[r].fails, 0),
                                !.lock = "live"]
          /\ streak' = 0
      BY <2>1 DEF CountsFailure, Reaches
    <3> DEFINE f == Written(row.fails, seen[r].fails, 0)
    <3>2. f \in Nat /\ f < MaxAttempts
      BY <1>1 DEF Written, Inv, Counting
    <3>3. row' = [row EXCEPT !.fails = f, !.lock = "live"] /\ f \in 0 .. MaxAttempts
      BY <3>1, <3>2
    <3> HIDE DEF f
    <3>4. row' \in Row /\ row'.fails = f /\ row'.mfa = row.mfa /\ row'.secret = row.secret
      BY <1>1, <3>3 DEF Row, Locks
    <3>. QED
      BY <3>1, <3>2, <3>4
  <2>2. CASE ~(n >= MaxAttempts)
    <3>1. /\ row' = [row EXCEPT !.fails = n]
          /\ streak' = IF moved[r] THEN 1 ELSE streak + 1
      BY <2>2 DEF CountsFailure, Reaches
    <3>2. ~moved[r] => seen[r].fails = row.fails
      BY DEF CountsFailure, Inv, Current, InFlight
    <3>3. n < MaxAttempts /\ n >= 1
      BY <1>1, <2>2 DEF Row
    <3>4. streak' \in Nat /\ streak' <= n
      BY <1>1, <3>1, <3>2, <3>3 DEF Inv, Counting
    <3>. QED
      BY <1>1, <3>1, <3>3, <3>4 DEF Row
  <2>. QED
    BY <2>1, <2>2
<1>4. TypeOK'
  BY <1>2, <1>3, CommitTypes DEF Inv, TypeOK, InFlight
<1>5. Counting'
  BY <1>2, <1>3, CommitTypes DEF Inv, Counting
<1>6. Current' /\ Decided'
  BY <1>2, CommitMoves DEF Inv
<1>7. MfaConfirmed'
  BY <1>2, <1>3 DEF Inv, MfaConfirmed
<1>. QED
  BY <1>4, <1>5, <1>6, <1>7 DEF Inv

LEMMA SuccessStep ==
    ASSUME MaxAttempts \in Nat \ {0}, Inv, NEW r \in Requests, Succeeds(r)
    PROVE  Inv'
<1>1. seen[r] \in Row /\ row \in Row /\ row.fails \in Nat
  BY DEF Inv, TypeOK, Row
<1>2. Commits(r) /\ UNCHANGED <<confirmed, crossed>> /\ streak' = 0
  BY DEF Succeeds
<1>3. row' \in Row /\ row'.fails \in Nat /\ row'.fails < MaxAttempts
      /\ row'.mfa = row.mfa /\ row'.secret = row.secret
  <2> DEFINE f == Written(row.fails, seen[r].fails, 0)
             l == Written(row.lock, seen[r].lock, "none")
  <2>1. f \in Nat /\ f < MaxAttempts /\ l \in Locks
    BY <1>1 DEF Written, Inv, Counting, Row, Locks
  <2>2. row' = [row EXCEPT !.fails = f, !.lock = l] /\ f \in 0 .. MaxAttempts
    BY <2>1 DEF Succeeds
  <2> HIDE DEF f, l
  <2>. QED
    BY <1>1, <2>1, <2>2 DEF Row
<1>4. TypeOK'
  BY <1>2, <1>3, CommitTypes DEF Inv, TypeOK, InFlight
<1>5. Counting'
  BY <1>2, <1>3, CommitTypes DEF Inv, Counting
<1>6. Current' /\ Decided'
  BY <1>2, CommitMoves DEF Inv
<1>7. MfaConfirmed'
  BY <1>2, <1>3 DEF Inv, MfaConfirmed
<1>. QED
  BY <1>4, <1>5, <1>6, <1>7 DEF Inv

LEMMA UnwrittenStep ==
    ASSUME MaxAttempts \in Nat \ {0}, Inv, NEW r \in Requests, EndsUnwritten(r)
    PROVE  Inv'
<1>1. Fresh \in Row /\ NoCall \in Call /\ Fresh.fails = 0
  BY DEF Fresh, Row, Locks, Secrets, NoCall, Call
<1>2. /\ pc'[r] = "done" /\ seen'[r] = Fresh
      /\ \A q \in Requests \ {r} :
            pc'[q] = pc[q] /\ call'[q] = call[q] /\ seen'[q] = seen[q] /\ moved'[q] = moved[q]
      /\ UNCHANGED <<row, streak, confirmed, crossed>>
  BY DEF EndsUnwritten, Ends, Goto, Inv, TypeOK
<1>3. TypeOK'
  BY <1>1 DEF EndsUnwritten, Ends, Goto, Inv, TypeOK
<1>4. Counting'
  BY <1>1, <1>2 DEF Inv, Counting
<1>5. Current' /\ Decided'
  BY <1>2 DEF Inv, Current, Decided, InFlight
<1>6. MfaConfirmed'
  BY <1>2 DEF Inv, MfaConfirmed
<1>. QED
  BY <1>3, <1>4, <1>5, <1>6 DEF Inv

\* A change of the second factor that nobody crossed was decided from the row.
LEMMA TotpStep ==
    ASSUME MaxAttempts \in Nat \ {0}, Inv, NEW r \in Requests, TotpCommits(r)
    PROVE  Inv'
<1>1. seen[r] \in Row /\ row \in Row /\ row.fails \in Nat /\ call[r] \in Call
      /\ moved[r] \in BOOLEAN /\ crossed \in BOOLEAN
  BY DEF Inv, TypeOK, Row
<1>2. Commits(r) /\ UNCHANGED streak /\ crossed' = (crossed \/ moved[r]) /\ pc[r] = "totp"
  BY DEF TotpCommits
<1>3. row' \in Row /\ row'.fails = row.fails
  BY <1>1 DEF TotpCommits, Written, Row, Secrets
<1>4. confirmed' \subseteq Secrets /\ crossed' \in BOOLEAN
  BY <1>1, <1>2 DEF TotpCommits, Inv, TypeOK, Call
<1>5. TypeOK'
  BY <1>2, <1>3, <1>4, CommitTypes DEF Inv, TypeOK, InFlight
<1>6. Counting'
  BY <1>2, <1>3, CommitTypes DEF Inv, Counting
<1>7. Current' /\ Decided'
  BY <1>2, CommitMoves DEF Inv
<1>8. MfaConfirmed'
  <2>1. SUFFICES ASSUME row'.mfa, ~crossed, ~moved[r]
                 PROVE  row'.secret \in confirmed'
    BY <1>2 DEF MfaConfirmed
  <2>2. seen[r].secret = row.secret /\ seen[r].mfa = row.mfa
    BY <1>2, <2>1 DEF Inv, Current, InFlight
  <2>3. CASE call[r].op = "enroll"
    <3>1. ~row.mfa /\ row'.mfa = row.mfa
      BY <1>1, <1>2, <2>2, <2>3 DEF TotpCommits, Inv, Decided, Row
    <3>. QED
      BY <2>1, <3>1
  <2>4. CASE call[r].op = "verify"
    <3>1. call[r].code = row.secret /\ row'.secret = row.secret
      BY <1>1, <1>2, <2>2, <2>4 DEF TotpCommits, Inv, Decided, Row
    <3>2. confirmed' = confirmed \cup {call[r].code}
      BY <2>4 DEF TotpCommits
    <3>. QED
      BY <3>1, <3>2
  <2>5. CASE call[r].op \notin {"enroll", "verify"}
    <3>1. ~row'.mfa
      BY <1>1, <2>5 DEF TotpCommits, Row
    <3>. QED
      BY <2>1, <3>1
  <2>. QED
    BY <2>3, <2>4, <2>5
<1>. QED
  BY <1>5, <1>6, <1>7, <1>8 DEF Inv

LEMMA LockStep ==
    ASSUME Inv, LockRunsOut
    PROVE  Inv'
<1>1. row \in Row /\ row' = [row EXCEPT !.lock = "over"] /\ row.lock = "live"
      /\ UNCHANGED <<pc, call, seen, moved, streak, confirmed, crossed>>
  BY DEF LockRunsOut, Inv, TypeOK
<1>2. row' \in Row /\ row'.fails = row.fails /\ row'.secret = row.secret
      /\ row'.mfa = row.mfa /\ row'.lock = "over"
  BY <1>1 DEF Row, Locks
<1>3. TypeOK' /\ Counting' /\ Decided' /\ MfaConfirmed'
  BY <1>1, <1>2 DEF Inv, TypeOK, Counting, Decided, MfaConfirmed
<1>4. Current'
  BY <1>1, <1>2 DEF Inv, Current
<1>. QED
  BY <1>3, <1>4 DEF Inv

LEMMA InvStep ==
    ASSUME MaxAttempts \in Nat \ {0}, Inv, [Next]_vars
    PROVE  Inv'
<1>1. CASE UNCHANGED vars
  BY <1>1 DEF vars, Inv, TypeOK, Counting, Current, Decided, MfaConfirmed
<1>2. ASSUME NEW r \in Requests, Step(r)
      PROVE  Inv'
  BY <1>2, AttemptStep, FailureStep, SuccessStep, UnwrittenStep, TotpReadStep, TotpStep
     DEF Step
<1>. QED
  BY <1>1, <1>2, LockStep, StepCases

-----------------------------------------------------------------------------

\* The variables keep their types; the count of failures stays in its range.
THEOREM TypeCorrect ==
    ASSUME MaxAttempts \in Nat \ {0}
    PROVE  Spec => []TypeOK
<1>1. Inv => TypeOK
  BY DEF Inv
<1>. QED
  BY <1>1, InitInv, InvStep, PTL DEF Spec

\* Wrong passwords that are each read after the one before was recorded lock
\* the account before they are MaxAttempts, whatever else commits in between.
THEOREM SerialFailuresLockAlways ==
    ASSUME MaxAttempts \in Nat \ {0}
    PROVE  Spec => []SerialFailuresLock
<1>1. Inv => SerialFailuresLock
  BY DEF Inv, TypeOK, Counting, Row, SerialFailuresLock
<1>. QED
  BY <1>1, InitInv, InvStep, PTL DEF Spec

\* A second factor that is on was confirmed, unless a TOTP request wrote from a
\* row that had changed under it.
THEOREM MfaConfirmedAlways ==
    ASSUME MaxAttempts \in Nat \ {0}
    PROVE  Spec => []MfaConfirmed
<1>1. Inv => MfaConfirmed
  BY DEF Inv
<1>. QED
  BY <1>1, InitInv, InvStep, PTL DEF Spec

\* A lock in force ends with its time, or by a success that was decided before
\* it was set.
THEOREM LockSurvivesAlways ==
    ASSUME MaxAttempts \in Nat \ {0}
    PROVE  Spec => LockSurvives
<1>1. Inv /\ [Next]_vars => [LockEnds]_vars
  <2>1. ASSUME Inv, NEW r \in Requests, Succeeds(r)
        PROVE  LockEnds
    <3>1. SUFFICES ASSUME row.lock = "live", row'.lock # "live"
                   PROVE  seen[r].lock = "over" /\ moved[r]
      BY <2>1 DEF LockEnds, Succeeds
    <3>2. row \in Row /\ seen[r] \in Row /\ seen[r].lock # "live"
      BY <2>1 DEF Inv, TypeOK, Decided, Succeeds
    <3>3. row'.lock = Written(row.lock, seen[r].lock, "none")
      BY <2>1, <3>2 DEF Succeeds, Row
    <3>4. seen[r].lock # "none"
      BY <3>1, <3>3 DEF Written
    <3>5. moved[r]
      BY <2>1, <3>1, <3>2 DEF Inv, Current, InFlight, Succeeds
    <3>. QED
      BY <3>2, <3>4, <3>5 DEF Row, Locks
  <2>2. ASSUME Inv, NEW r \in Requests, CountsFailure(r)
        PROVE  LockEnds
    BY <2>2 DEF CountsFailure, LockEnds, Inv, TypeOK, Row
  <2>3. ASSUME Inv, NEW r \in Requests, TotpCommits(r)
        PROVE  LockEnds
    BY <2>3 DEF TotpCommits, LockEnds, Inv, TypeOK, Row
  <2>4. ASSUME Inv, LockRunsOut
        PROVE  LockEnds
    BY <2>4 DEF LockRunsOut, LockEnds, Inv, TypeOK, Row
  <2>5. ASSUME NEW r \in Requests, Step(r),
               ~Succeeds(r), ~CountsFailure(r), ~TotpCommits(r)
        PROVE  UNCHANGED row
    BY <2>5 DEF Step, Attempts, EndsUnwritten, TotpReads
  <2>6. UNCHANGED row => LockEnds
    BY DEF LockEnds
  <2>. QED
    BY <2>1, <2>2, <2>3, <2>4, <2>5, <2>6, StepCases
<1>. QED
  BY <1>1, InitInv, InvStep, PTL DEF Spec, LockSurvives

-----------------------------------------------------------------------------
(* ApiKeys. *)

LEMMA KeysInit ==
    ASSUME K!Init
    PROVE  K!Inv
<1>1. K!NoKey \in K!Row
  BY DEF K!NoKey, K!Row
<1>2. K!TypeOK
  BY <1>1 DEF K!Init, K!TypeOK
<1>. QED
  BY <1>2 DEF K!Init, K!Inv, K!RevokedInRow, K!InTime, K!RevocationHolds

\* A read is late if the key has ended; then it is not accepted.
LEMMA KeysRead ==
    ASSUME K!Inv, NEW r \in Few, NEW k \in Keys, NEW op,
           K!Reads(r, op, k), NEW label, K!Goto(r, label),
           label \in {"done", "revoke", "use"},
           label = "use" => ~K!Ended(k), UNCHANGED <<v1, v6>>,
           label = "revoke" => K!Exists(k),
           v5' = v5 \/ (v5' = v5 \cup {k} /\ K!Exists(k) /\ v1[k].revoked)
    PROVE  K!Inv'
<1>1. /\ v2[r] = "idle" /\ r \notin v6
      /\ v2' = [v2 EXCEPT ![r] = label]
      /\ v3' = [v3 EXCEPT ![r] = [op |-> op, key |-> k, late |-> K!Ended(k)]]
  BY DEF K!Reads, K!Goto, K!Inv, K!InTime
<1>2. /\ v3'[r].key = k /\ v3'[r].late = K!Ended(k) /\ v2'[r] = label
      /\ \A q \in Few \ {r} : v3'[q] = v3[q] /\ v2'[q] = v2[q]
  BY <1>1 DEF K!Inv, K!TypeOK
<1>3. K!TypeOK' /\ K!RevokedInRow'
  BY <1>1 DEF K!Inv, K!TypeOK, K!RevokedInRow, K!Exists
<1>4. K!InTime' /\ K!RevocationHolds'
  BY <1>1, <1>2 DEF K!Inv, K!InTime, K!RevocationHolds, K!TypeOK, K!Exists
<1>. QED
  BY <1>3, <1>4 DEF K!Inv

\* A commit or the clock changes one row: it stays revoked if it was.
LEMMA KeysWrite ==
    ASSUME K!Inv, NEW k \in Keys, NEW new \in K!Row, v1' = [v1 EXCEPT ![k] = new],
           v1[k].revoked => new.revoked, K!Exists(k) => new.scope # "none"
    PROVE  /\ v1' \in [Keys -> K!Row]
           /\ \A l \in Keys : K!Exists(l) => K!Exists(l)'
           /\ \A l \in Keys : v1[l].revoked => v1'[l].revoked
BY DEF K!Inv, K!TypeOK, K!Exists

LEMMA KeysStep ==
    ASSUME K!Inv, [K!Next]_(K!vars)
    PROVE  K!Inv'
<1>1. ASSUME NEW k \in Keys, NEW scope \in Scopes, K!Create(k, scope)
      PROVE  K!Inv'
  <2>1. /\ v1' = [v1 EXCEPT ![k] = [K!NoKey EXCEPT !.scope = scope]]
        /\ [K!NoKey EXCEPT !.scope = scope] \in K!Row
        /\ ~K!Exists(k)
    BY <1>1 DEF K!Create, K!NoKey, K!Row
  <2>2. k \notin v5 /\ \A r \in Few : v2[r] = "revoke" => v3[r].key # k
    BY <2>1 DEF K!Inv, K!RevokedInRow, K!InTime
  <2>. QED
    BY <1>1, <2>1, <2>2
       DEF K!Create, K!Inv, K!TypeOK, K!RevokedInRow, K!InTime, K!RevocationHolds, K!Exists
<1>2. ASSUME NEW k \in Keys, K!Expire(k)
      PROVE  K!Inv'
  <2>1. v1[k] \in K!Row
    BY DEF K!Inv, K!TypeOK
  <2>2. /\ [v1[k] EXCEPT !.expired = TRUE] \in K!Row
        /\ [v1[k] EXCEPT !.expired = TRUE].revoked = v1[k].revoked
        /\ [v1[k] EXCEPT !.expired = TRUE].scope = v1[k].scope
        /\ v1' = [v1 EXCEPT ![k] = [v1[k] EXCEPT !.expired = TRUE]]
    BY <1>2, <2>1 DEF K!Expire, K!Row
  <2>3. /\ v1' \in [Keys -> K!Row]
        /\ \A l \in Keys : K!Exists(l) => K!Exists(l)'
        /\ \A l \in Keys : v1[l].revoked => v1'[l].revoked
    BY <2>2, KeysWrite DEF K!Exists
  <2>. QED
    BY <1>2, <2>3
       DEF K!Expire, K!Inv, K!TypeOK, K!RevokedInRow, K!InTime, K!RevocationHolds
<1>3. ASSUME NEW r \in Few, NEW k \in Keys, K!RevokeReads(r, k)
      PROVE  K!Inv'
  <2>1. UNCHANGED <<v1, v6>> /\ K!Reads(r, "revoke", k) /\ K!Exists(k)
    BY <1>3 DEF K!RevokeReads
  <2>2. CASE v1[k].revoked
    BY <1>3, <2>1, <2>2, KeysRead DEF K!RevokeReads
  <2>3. CASE ~v1[k].revoked
    BY <1>3, <2>1, <2>3, KeysRead DEF K!RevokeReads
  <2>. QED
    BY <2>2, <2>3
<1>4. ASSUME NEW r \in Few, K!RevokeCommits(r)
      PROVE  K!Inv'
  <2> DEFINE k == v3[r].key
             new == [v1[k] EXCEPT !.revoked = TRUE]
  <2>1. k \in Keys /\ K!Exists(k) /\ v1[k] \in K!Row
    BY <1>4 DEF K!RevokeCommits, K!Inv, K!InTime, K!TypeOK
  <2>2. new \in K!Row /\ new.revoked /\ new.scope = v1[k].scope
    BY <2>1 DEF K!Row
  <2>3. v1' = [v1 EXCEPT ![k] = new] /\ v5' = v5 \cup {k}
    BY <1>4 DEF K!RevokeCommits
  <2> HIDE DEF k, new
  <2>4. /\ v1' \in [Keys -> K!Row]
        /\ \A l \in Keys : K!Exists(l) => K!Exists(l)'
        /\ \A l \in Keys : v1[l].revoked => v1'[l].revoked
    BY <2>1, <2>2, <2>3, KeysWrite DEF K!Exists
  <2>5. v1'[k].revoked
    BY <2>1, <2>2, <2>3 DEF K!Inv, K!TypeOK
  <2>6. K!TypeOK' /\ K!RevokedInRow'
    BY <1>4, <2>1, <2>3, <2>4, <2>5
       DEF K!RevokeCommits, K!Goto, K!Inv, K!TypeOK, K!RevokedInRow
  <2>7. K!InTime' /\ K!RevocationHolds'
    BY <1>4, <2>4 DEF K!RevokeCommits, K!Goto, K!Inv, K!TypeOK, K!InTime, K!RevocationHolds
  <2>. QED
    BY <2>6, <2>7 DEF K!Inv
<1>5. ASSUME NEW r \in Few, NEW k \in Keys, NEW secret, NEW scope, K!UseReads(r, k, secret, scope)
      PROVE  K!Inv'
  <2>1. UNCHANGED <<v1, v5, v6>> /\ K!Reads(r, "use", k)
    BY <1>5 DEF K!UseReads
  <2>2. CASE K!Accepted(k, secret, scope)
    <3>1. ~K!Ended(k)
      BY <2>2 DEF K!Accepted, K!Valid, K!Ended, K!Inv, K!RevokedInRow
    <3>. QED
      BY <1>5, <2>1, <2>2, <3>1, KeysRead DEF K!UseReads
  <2>3. CASE ~K!Accepted(k, secret, scope)
    BY <1>5, <2>1, <2>3, KeysRead DEF K!UseReads
  <2>. QED
    BY <2>2, <2>3
<1>6. ASSUME NEW r \in Few, K!UseCommits(r)
      PROVE  K!Inv'
  BY <1>6 DEF K!UseCommits, K!WritesLastUse, K!Goto, K!Inv, K!TypeOK, K!RevokedInRow,
     K!InTime, K!RevocationHolds, K!Exists
<1>7. CASE UNCHANGED K!vars
  BY <1>7 DEF K!vars, K!Inv, K!TypeOK, K!RevokedInRow, K!InTime, K!RevocationHolds, K!Exists
<1>. QED
  BY <1>1, <1>2, <1>3, <1>4, <1>5, <1>6, <1>7 DEF K!Next

-----------------------------------------------------------------------------
(* Triage. *)

LEMMA TriageInit ==
    ASSUME T!Init
    PROVE  T!Inv
<1>1. T!Fresh \in T!Row
  BY DEF T!Fresh, T!Row, T!Statuses
<1>2. [status |-> "keep", note |-> FALSE, actor |-> NoOne]
        \in [status : T!Statuses \cup {"keep"}, note : BOOLEAN, actor : People \cup {NoOne}]
  OBVIOUS
<1>3. T!TypeOK
  BY <1>1, <1>2 DEF T!Init, T!TypeOK
<1>4. T!Answered = {} /\ v1.status = "open"
  BY DEF T!Init, T!Answered, T!Fresh
<1>. QED
  BY <1>3, <1>4 DEF T!Init, T!Inv, T!Unmoved, T!KnowsNotes, T!SetterAnswered, T!NotesComplete,
     T!TriagedBySetter

LEMMA TriageRead ==
    ASSUME T!Inv, NEW r \in Few, NEW c \in T!Call, T!Reads(r, c)
    PROVE  T!Inv'
<1>1. /\ v2[r] = "idle" /\ T!Exists /\ UNCHANGED <<v1, v5, v6, v7>>
      /\ v3' = [v3 EXCEPT ![r] = c] /\ v4' = [v4 EXCEPT ![r] = v1]
      /\ v2' = [v2 EXCEPT ![r] = "commit"]
  BY DEF T!Reads
<1>2. T!TypeOK'
  BY <1>1 DEF T!Inv, T!TypeOK, T!Call
<1>3. /\ T!Answered' = T!Answered /\ r \notin T!Answered
      /\ \A q \in T!Answered : v3'[q] = v3[q]
  BY <1>1 DEF T!Inv, T!TypeOK, T!Answered
<1>4. T!Unmoved' /\ T!SetterAnswered' /\ T!NotesComplete' /\ T!TriagedBySetter'
  <2>1. T!Unmoved'
    BY <1>1 DEF T!Inv, T!TypeOK, T!Unmoved
  <2>2. T!SetterAnswered' /\ T!NotesComplete'
    BY <1>1, <1>3 DEF T!Inv, T!SetterAnswered, T!NotesComplete
  <2>3. T!TriagedBySetter'
    BY <1>1, <1>3 DEF T!Inv, T!SetterAnswered, T!TriagedBySetter
  <2>. QED
    BY <2>1, <2>2, <2>3
<1>5. T!KnowsNotes'
  <2> SUFFICES ASSUME NEW p \in Few, NEW q \in T!Answered, v2'[p] = "commit", v3[q].note
               PROVE  \/ \E i \in DOMAIN v4'[p].notes : v4'[p].notes[i] = q
                      \/ q \in v6[p]
                      \/ \E s \in T!Answered : v3[s].note /\ q \in v6[s]
    BY <1>1, <1>3 DEF T!KnowsNotes
  <2>1. CASE p = r
    <3>1. v4'[p] = v1
      BY <1>1, <2>1 DEF T!Inv, T!TypeOK
    <3>. QED
      BY <1>1, <3>1 DEF T!Inv, T!NotesComplete
  <2>2. CASE p # r
    <3>1. v4'[p] = v4[p] /\ v2[p] = "commit"
      BY <1>1, <2>2 DEF T!Inv, T!TypeOK
    <3>. QED
      BY <1>1, <3>1 DEF T!Inv, T!KnowsNotes
  <2>. QED
    BY <2>1, <2>2
<1>. QED
  BY <1>2, <1>4, <1>5 DEF T!Inv

\* A patch that commits has written its own line, and everybody still on the
\* way has been overtaken by it.
LEMMA TriageCommit ==
    ASSUME T!Inv, NEW r \in Few, T!Commits(r)
    PROVE  T!Inv'
<1>1. /\ v2[r] = "commit" /\ T!Exists /\ v1' = T!Patched(r)
      /\ v7' = IF T!ChangesStatus(r) THEN r ELSE v7
      /\ v6' = [q \in Few |-> IF q # r /\ v2[q] = "commit" THEN v6[q] \cup {r} ELSE v6[q]]
      /\ v2' = [v2 EXCEPT ![r] = "answered"]
      /\ UNCHANGED <<v3, v4>>
  BY DEF T!Commits
<1>2. /\ v1 \in T!Row /\ v4[r] \in T!Row /\ v6 \in [Few -> SUBSET Few]
      /\ v3[r] \in [status : T!Statuses \cup {"keep"}, note : BOOLEAN, actor : People \cup {NoOne}]
  BY DEF T!Inv, T!TypeOK
<1>3. /\ T!Answered' = T!Answered \cup {r} /\ r \notin T!Answered
      /\ \A q \in Few : v2'[q] = "commit" => q # r /\ v2[q] = "commit" /\ v6'[q] = v6[q] \cup {r}
      /\ \A q \in T!Answered \cup {r} : v6'[q] = v6[q]
      /\ \A q \in Few : v6[q] \subseteq v6'[q]
  BY <1>1, <1>2 DEF T!Inv, T!TypeOK, T!Answered
<1>4. /\ v1'.status = IF T!ChangesStatus(r) THEN v3[r].status ELSE v1.status
      /\ v1'.triaged_by = IF T!Signs(r)
                          THEN T!Written(v1.triaged_by, v4[r].triaged_by, v3[r].actor)
                          ELSE v1.triaged_by
      /\ v1'.notes = IF v3[r].note THEN Append(v4[r].notes, r) ELSE v1.notes
      /\ v1' \in T!Row
  <2>1. /\ v3[r].status \in T!Statuses \cup {"keep"} /\ v3[r].actor \in People \cup {NoOne}
        /\ v1.status \in T!Statuses \cup {"deleted"} /\ v1.triaged_by \in People \cup {NoOne}
        /\ v1.notes \in Seq(Few) /\ v4[r].notes \in Seq(Few)
    BY <1>2 DEF T!Row
  <2>2. Append(v4[r].notes, r) \in Seq(Few)
    BY <2>1
  <2>3. T!ChangesStatus(r) => v3[r].status \in T!Statuses
    BY <2>1 DEF T!ChangesStatus
  <2>. QED
    BY <1>1, <2>1, <2>2, <2>3 DEF T!Patched, T!Extended, T!Written, T!Row
<1>5. T!TypeOK'
  BY <1>1, <1>4 DEF T!Inv, T!TypeOK
<1>6. T!Unmoved'
  BY <1>1, <1>3 DEF T!Inv, T!Unmoved
<1>7. T!SetterAnswered'
  BY <1>1, <1>3, <1>4 DEF T!Inv, T!SetterAnswered, T!Signs
<1>8. T!TriagedBySetter'
  <2> SUFFICES ASSUME v1'.status # "open"
               PROVE  v1'.triaged_by = v3[v7'].actor \/ v6'[v7'] # {}
    BY <1>1 DEF T!TriagedBySetter
  <2>1. CASE T!ChangesStatus(r)
    <3>1. T!Signs(r) /\ v7' = r /\ v6'[r] = v6[r]
      BY <1>1, <1>3, <1>4, <2>1 DEF T!Signs
    <3>2. v6[r] = {} => v4[r] = v1
      BY <1>1 DEF T!Inv, T!Unmoved
    <3>. QED
      BY <1>4, <3>1, <3>2 DEF T!Written
  <2>2. CASE ~T!ChangesStatus(r)
    <3>1. v1.status # "open" /\ v1'.triaged_by = v1.triaged_by /\ v7' = v7
      BY <1>1, <1>4, <2>2 DEF T!Signs
    <3>2. v7 \in T!Answered /\ (v1.triaged_by = v3[v7].actor \/ v6[v7] # {})
      BY <1>1, <3>1 DEF T!Inv, T!SetterAnswered, T!TriagedBySetter
    <3>. QED
      BY <1>3, <3>1, <3>2
  <2>. QED
    BY <2>1, <2>2
\* A note in the text, in the notes a patch has read, or lost to one that took
\* no notice of it.
<1>9. ASSUME NEW q \in T!Answered \cup {r}, v3[q].note
      PROVE  \/ \E i \in DOMAIN v1'.notes : v1'.notes[i] = q
             \/ \E s \in T!Answered \cup {r} : v3[s].note /\ q \in v6'[s]
  <2>1. CASE v3[r].note
    <3>1. v4[r].notes \in Seq(Few) /\ v1'.notes = Append(v4[r].notes, r)
      BY <1>2, <1>4, <2>1 DEF T!Row
    <3>2. /\ v1'.notes[Len(v4[r].notes) + 1] = r /\ Len(v4[r].notes) + 1 \in DOMAIN v1'.notes
          /\ \A i \in DOMAIN v4[r].notes : i \in DOMAIN v1'.notes /\ v1'.notes[i] = v4[r].notes[i]
      BY <3>1
    <3>3. CASE q = r
      BY <3>2, <3>3
    <3>4. CASE q # r
      <4>1. \/ \E i \in DOMAIN v4[r].notes : v4[r].notes[i] = q
            \/ q \in v6[r]
            \/ \E s \in T!Answered : v3[s].note /\ q \in v6[s]
        BY <1>1, <1>9, <3>4 DEF T!Inv, T!KnowsNotes
      <4>. QED
        BY <1>3, <2>1, <3>2, <4>1
    <3>. QED
      BY <3>3, <3>4
  <2>2. CASE ~v3[r].note
    <3>1. q \in T!Answered /\ v1'.notes = v1.notes
      BY <1>4, <1>9, <2>2
    <3>2. \/ \E i \in DOMAIN v1.notes : v1.notes[i] = q
          \/ \E s \in T!Answered : v3[s].note /\ q \in v6[s]
      BY <1>1, <1>9, <3>1 DEF T!Inv, T!NotesComplete
    <3>. QED
      BY <1>3, <3>1, <3>2
  <2>. QED
    BY <2>1, <2>2
<1>10. T!NotesComplete'
  <2>1. UNCHANGED v3
    BY <1>1
  <2> SUFFICES ASSUME NEW q \in T!Answered \cup {r}, v3[q].note
               PROVE  \/ \E i \in DOMAIN v1'.notes : v1'.notes[i] = q
                      \/ \E s \in T!Answered \cup {r} : v3[s].note /\ q \in v6'[s]
    BY <1>3, <2>1 DEF T!NotesComplete
  <2>. QED
    BY <1>9
<1>11. T!KnowsNotes'
  <2>0. UNCHANGED <<v3, v4>> /\ T!Answered' = T!Answered \cup {r}
    BY <1>1, <1>3
  <2> SUFFICES ASSUME NEW p \in Few, NEW q \in T!Answered \cup {r}, v2'[p] = "commit", v3[q].note
               PROVE  \/ \E i \in DOMAIN v4[p].notes : v4[p].notes[i] = q
                      \/ q \in v6'[p]
                      \/ \E s \in T!Answered \cup {r} : v3[s].note /\ q \in v6'[s]
    BY <2>0 DEF T!KnowsNotes
  <2>1. v2[p] = "commit" /\ v6'[p] = v6[p] \cup {r}
    BY <1>3
  <2>2. CASE q = r
    BY <2>1, <2>2
  <2>3. CASE q # r
    <3>1. \/ \E i \in DOMAIN v4[p].notes : v4[p].notes[i] = q
          \/ q \in v6[p]
          \/ \E s \in T!Answered : v3[s].note /\ q \in v6[s]
      BY <1>1, <2>1, <2>3 DEF T!Inv, T!KnowsNotes
    <3>. QED
      BY <1>3, <2>1, <3>1
  <2>. QED
    BY <2>2, <2>3
<1>. QED
  BY <1>5, <1>6, <1>7, <1>8, <1>10, <1>11 DEF T!Inv

LEMMA TriageStep ==
    ASSUME T!Inv, [T!Next]_(T!vars)
    PROVE  T!Inv'
<1>1. ASSUME NEW r \in Few, T!Fails(r)
      PROVE  T!Inv'
  <2>1. ~T!Exists /\ ~T!Exists' /\ v2' = [v2 EXCEPT ![r] = "failed"]
        /\ UNCHANGED <<v1, v3, v4, v6>>
    BY <1>1 DEF T!Fails, T!Exists
  <2>. QED
    BY <2>1 DEF T!Inv, T!TypeOK
<1>2. CASE T!Purge
  <2>1. v1' \in T!Row /\ v1'.status = "deleted"
    <3>1. v1' = [status |-> "deleted", triaged_by |-> NoOne, notes |-> <<>>]
      BY <1>2 DEF T!Purge, T!Fresh
    <3>2. <<>> \in Seq(Few)
      OBVIOUS
    <3>. QED
      BY <3>1, <3>2, Zenon DEF T!Row
  <2>. QED
    BY <1>2, <2>1 DEF T!Purge, T!Inv, T!TypeOK, T!Exists
<1>3. CASE UNCHANGED T!vars
  BY <1>3, SMTT(30) DEF T!vars, T!Inv, T!TypeOK, T!Exists, T!Unmoved, T!KnowsNotes, T!SetterAnswered,
     T!NotesComplete, T!TriagedBySetter, T!Answered
<1>. QED
  BY <1>1, <1>2, <1>3, TriageRead, TriageCommit DEF T!Next

-----------------------------------------------------------------------------
(* The components side by side: what each theorem says of a behaviour of   *)
(* MCOperations.  A step of one of them leaves the others alone.           *)

UP == INSTANCE UsersProofs WITH Users <- People, Requests <- Few,
        row <- v1, pc <- v2, call <- v3, seen <- v4,
        used <- v5, counted <- v6, removals <- v7, during <- v8
MP == INSTANCE ModelRegistryProofs WITH Workers <- People, NoModel <- NoOne, Requests <- Few,
        rows <- v1, pc <- v2, call <- v3, cache <- v4,
        active <- v5, files <- v6, old <- v7, swept <- v8, scored <- v9

\* The instances of a component and of its proofs say the same.
LEMMA UsersAreUsers ==
    /\ U!Init <=> UP!Init
    /\ [U!Next]_(U!vars) <=> [UP!Next]_(UP!vars)
    /\ U!AdminRemains <=> UP!AdminRemains
BY Zenon DEF U!Goto, U!Begin, U!Target, U!Demotes, U!Deactivates, U!NewRole, U!Guarded,
   U!Refused, U!Ends, U!Reads, U!ReadsAddress, U!Others, U!Counts, U!Flushed, U!Committed,
   U!Commits, U!Exists, U!Admins, U!NoRow, U!NoBody, U!Roles, U!Flags, U!Row, U!InFlight,
   U!Next, U!vars, U!Init, U!AdminRemains, U!Overlapped,
   UP!Goto, UP!Begin, UP!Target, UP!Demotes, UP!Deactivates, UP!NewRole, UP!Guarded,
   UP!Refused, UP!Ends, UP!Reads, UP!ReadsAddress, UP!Others, UP!Counts, UP!Flushed,
   UP!Committed, UP!Commits, UP!Exists, UP!Admins, UP!NoRow, UP!NoBody, UP!Roles, UP!Flags,
   UP!Row, UP!InFlight, UP!Next, UP!vars, UP!Init, UP!AdminRemains, UP!Overlapped

LEMMA ModelsAreModels ==
    /\ M!Init <=> MP!Init
    /\ [M!Next]_(M!vars) <=> [MP!Next]_(MP!vars)
    /\ M!OneActive <=> MP!OneActive
    /\ M!ScoresWithActive <=> MP!ScoresWithActive
BY Zenon DEF M!Cardinality, M!vars, M!Init, M!Goto, M!Begin, M!Locked, M!Ends,
   M!GoesToRefresh, M!GoesTo, M!New, M!Train, M!Saves, M!Inserts, M!Evaluates, M!Checks,
   M!Sweeps, M!ActivateSweeps, M!ActivateCommits, M!DeactivateSweeps, M!DeactivateCommits,
   M!Unlinks, M!Deletes, M!Invalidates, M!Fails, M!Hits, M!Loadable, M!Score, M!Next,
   M!NoCall, M!OneActive, M!ScoresWithActive,
   MP!Cardinality, MP!vars, MP!Init, MP!Goto, MP!Begin, MP!Locked, MP!Ends,
   MP!GoesToRefresh, MP!GoesTo, MP!New, MP!Train, MP!Saves, MP!Inserts, MP!Evaluates,
   MP!Checks, MP!Sweeps, MP!ActivateSweeps, MP!ActivateCommits, MP!DeactivateSweeps,
   MP!DeactivateCommits, MP!Unlinks, MP!Deletes, MP!Invalidates, MP!Fails, MP!Hits,
   MP!Loadable, MP!Score, MP!Next, MP!NoCall, MP!OneActive, MP!ScoresWithActive

LEMMA PartStep ==
    ASSUME [MCNext]_mcvars
    PROVE  /\ UNCHANGED part
           /\ part = "users" => [U!Next]_(U!vars)
           /\ part = "keys" => [K!Next]_(K!vars)
           /\ part = "models" => [M!Next]_(M!vars)
           /\ part = "triage" => [T!Next]_(T!vars)
BY DEF MCNext, mcvars, shared, U!vars, K!vars, M!vars, T!vars

\* The bodies of MCOperations are such as the schema accepts.
LEMMA PayloadsAccepted == Payloads \subseteq UP!Body
BY DEF Payloads, UP!Body, UP!Roles, UP!Flags

\* An active administrator is left of any number of people, unless two removals
\* overlapped (services/users.py).
THEOREM AdminAlwaysRemains == MCSpec => []AdminRemains
<1> DEFINE I == part = "users" => UP!Inv
<1>1. MCInit => I
  BY UsersAreUsers, UP!InitInv DEF MCInit
<1>2. I /\ [MCNext]_mcvars => I'
  BY PartStep, PayloadsAccepted, UsersAreUsers, UP!InvStep
<1>3. I => AdminRemains
  BY UsersAreUsers DEF AdminRemains, UP!Inv
<1>. QED
  BY <1>1, <1>2, <1>3, PTL DEF MCSpec

\* No request is admitted by a key that was revoked, with an answer, or had
\* expired before the request came, for any number of keys, scopes and requests
\* (services/api_keys.py): a use that has read the row earlier commits late, but
\* it does not write the row.
THEOREM RevocationAlwaysHolds == MCSpec => []RevocationHolds
<1> DEFINE I == part = "keys" => K!Inv
<1>1. MCInit => I
  BY KeysInit DEF MCInit
<1>2. I /\ [MCNext]_mcvars => I'
  BY PartStep, KeysStep
<1>3. I => RevocationHolds
  BY DEF RevocationHolds, K!Inv
<1>. QED
  BY <1>1, <1>2, <1>3, PTL DEF MCSpec

\* At most one model is active, for any number of models, workers and requests
\* (services/ml/registry.py).
THEOREM OneActiveModel ==
    ASSUME NoOne \notin Models
    PROVE  MCSpec => []OneActive
<1> DEFINE I == part = "models" => MP!Inv
<1>1. MCInit => I
  BY ModelsAreModels, MP!InitInv DEF MCInit
<1>2. I /\ [MCNext]_mcvars => I'
  BY PartStep, ModelsAreModels, MP!InvStep
<1>3. I => OneActive
  BY ModelsAreModels DEF OneActive, MP!Inv
<1>. QED
  BY <1>1, <1>2, <1>3, PTL DEF MCSpec

\* A request scores with the model that is active when it asks, on any worker
\* (services/ml/registry.py).
THEOREM ScoresAreActive ==
    ASSUME NoOne \notin Models
    PROVE  MCSpec => ScoredWasActive
<1> DEFINE I == part = "models" => MP!Inv
<1>1. MCInit => I
  BY ModelsAreModels, MP!InitInv DEF MCInit
<1>2. I /\ [MCNext]_mcvars => I'
  BY PartStep, ModelsAreModels, MP!InvStep
<1>3. I /\ [MCNext]_mcvars => [part = "models" => M!ScoresWithActive]_mcvars
  <2>1. ASSUME I, MCNext, part = "models" PROVE M!ScoresWithActive
    <3>1. [MP!Next]_(MP!vars) /\ MP!TypeOK
      BY <2>1, PartStep, ModelsAreModels DEF MP!Inv
    <3>2. MP!ScoresWithActive \/ UNCHANGED MP!vars
      BY <3>1, MP!ScoreStep
    <3>3. UNCHANGED MP!vars => MP!ScoresWithActive
      BY DEF MP!vars, MP!ScoresWithActive
    <3>. QED
      BY <3>2, <3>3, ModelsAreModels
  <2>. QED
    BY <2>1
<1>. QED
  BY <1>1, <1>2, <1>3, PTL DEF MCSpec, ScoredWasActive

\* What analysts did to an alert is on record, for any number of analysts and
\* requests (api/v1/threats.py): a patch that was overtaken may cost a line or a
\* name, and nothing else does.
THEOREM TriageAlwaysKept == MCSpec => []TriageKept
<1> DEFINE I == part = "triage" => T!Inv
<1>1. MCInit => I
  BY TriageInit DEF MCInit
<1>2. I /\ [MCNext]_mcvars => I'
  BY PartStep, TriageStep
<1>3. I => TriageKept
  BY DEF TriageKept, T!TriageKept, T!Inv
<1>. QED
  BY <1>1, <1>2, <1>3, PTL DEF MCSpec
=============================================================================
