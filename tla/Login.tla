------------------------------- MODULE Login -------------------------------
(***************************************************************************)
(* Password, lockout and second factor of one account: authenticate of     *)
(* services/auth.py and the TOTP routes of api/v1/auth.py.                 *)
(*                                                                         *)
(* Every request reads the row once and commits once, and writes the       *)
(* columns whose new value differs from the value it read.  The commit of  *)
(* an attempt is the one of its audit record; losing the race for the      *)
(* record's number fails it with nothing written (AuditChain models why).  *)
(*                                                                         *)
(* A TOTP secret stands for the enrolment that made it, a code for the     *)
(* secret it was computed from.  Time matters only through the lock, which *)
(* may run out at any moment.                                              *)
(***************************************************************************)
EXTENDS Naturals

CONSTANTS Requests,
          MaxAttempts,  \* settings.login_max_attempts
          NoSecret      \* no TOTP secret, and a code that belongs to none

VARIABLES
    row,      \* [fails, lock, active, secret, mfa] of the account
    pc,       \* request -> where it stands
    call,     \* request -> [op, password, code]
    seen,     \* request -> the row as it read it
    moved,    \* request -> whether another one wrote since it read
    streak,   \* wrong passwords in a row, each read after the one before
    confirmed,\* codes that a verify request was answered "TOTP enabled" for
    crossed   \* a change of the second factor was computed from a stale row

vars == <<row, pc, call, seen, moved, streak, confirmed, crossed>>

Locks == {"none", "live", "over"}
Secrets == Requests \cup {NoSecret}
Row == [fails : 0 .. MaxAttempts, lock : Locks, active : BOOLEAN,
        secret : Secrets, mfa : BOOLEAN]
Fresh == [fails |-> 0, lock |-> "none", active |-> TRUE, secret |-> NoSecret, mfa |-> FALSE]
Call == [op : {"login", "enroll", "verify", "disable"}, password : BOOLEAN, code : Secrets]
NoCall == [op |-> "login", password |-> FALSE, code |-> NoSecret]

TypeOK ==
    /\ row \in Row
    /\ pc \in [Requests -> {"idle", "wrong", "refused", "success", "totp", "done"}]
    /\ call \in [Requests -> Call]
    /\ seen \in [Requests -> Row]
    /\ moved \in [Requests -> BOOLEAN]
    /\ streak \in Nat
    /\ confirmed \subseteq Secrets
    /\ crossed \in BOOLEAN

Init ==
    /\ row \in [fails : 0 .. MaxAttempts - 1, lock : {"none", "over"}, active : BOOLEAN,
                secret : {NoSecret}, mfa : {FALSE}]
    /\ pc = [r \in Requests |-> "idle"]
    /\ call = [r \in Requests |-> NoCall]
    /\ seen = [r \in Requests |-> Fresh]
    /\ moved = [r \in Requests |-> FALSE]
    /\ streak = 0
    /\ confirmed = {}
    /\ crossed = FALSE

-----------------------------------------------------------------------------
(* Requests. *)

Goto(r, label) == pc' = [pc EXCEPT ![r] = label]

Reads(r, c) ==
    /\ pc[r] = "idle"
    /\ call' = [call EXCEPT ![r] = c]
    /\ seen' = [seen EXCEPT ![r] = row]

\* Nobody has a code of a secret that has not been answered yet.
Known(code) == code # NoSecret => pc[code] = "done"

\* verify_totp against the secret that was read.
Verifies(secret, code) == secret # NoSecret /\ code = secret

FactorFails(password, code) == row.mfa /\ ~Verifies(row.secret, code)

\* Mutant: the lock is looked at after the password.
DecidesPasswordFirst(password, code) ==
    CASE ~password -> "wrong"
      [] password /\ (~row.active \/ FactorFails(password, code)) -> "refused"
      [] OTHER -> "success"

\* What authenticate makes of the row and of what was presented.
Decides(password, code) ==
    CASE row.lock = "live" -> "refused"
      [] row.lock # "live" /\ ~password -> "wrong"
      [] row.lock # "live" /\ password /\ (~row.active \/ FactorFails(password, code)) ->
            "refused"
      [] OTHER -> "success"

Attempts(r, password, code) ==
    /\ Known(code)
    /\ Reads(r, [op |-> "login", password |-> password, code |-> code])
    /\ Goto(r, Decides(password, code))
    /\ UNCHANGED <<row, moved, streak, confirmed, crossed>>

\* A column is written when its new value differs from the one that was read.
Written(now, old, new) == IF new = old THEN now ELSE new

\* r is answered, and what it had read is gone with its session.
Ends(r) ==
    /\ Goto(r, "done")
    /\ call' = [call EXCEPT ![r] = NoCall]
    /\ seen' = [seen EXCEPT ![r] = Fresh]

\* r ends with a commit: from here on every other that has read is behind.
Commits(r) ==
    /\ Ends(r)
    /\ moved' = [q \in Requests |-> q # r /\ (moved[q] \/ pc[q] \notin {"idle", "done"})]

\* Mutant: the account is locked by the attempt after the last one allowed.
ReachesLater(n) == n > MaxAttempts

Reaches(n) == n >= MaxAttempts

\* One more wrong password, or the lock.
CountsFailure(r) ==
    LET n == seen[r].fails + 1 IN
    /\ pc[r] = "wrong"
    /\ row' = IF Reaches(n)
              THEN [row EXCEPT !.fails = Written(@, seen[r].fails, 0), !.lock = "live"]
              ELSE [row EXCEPT !.fails = n]
    /\ streak' = IF Reaches(n) THEN 0 ELSE IF moved[r] THEN 1 ELSE streak + 1
    /\ Commits(r)
    /\ UNCHANGED <<confirmed, crossed>>

Succeeds(r) ==
    /\ pc[r] = "success"
    /\ row' = [row EXCEPT !.fails = Written(@, seen[r].fails, 0),
                          !.lock = Written(@, seen[r].lock, "none")]
    /\ streak' = 0
    /\ Commits(r)
    /\ UNCHANGED <<confirmed, crossed>>

\* A refusal is recorded without a change of the account, and an attempt whose
\* record loses the race for its number changes nothing either.
EndsUnwritten(r) ==
    /\ pc[r] \in {"wrong", "refused", "success"}
    /\ Ends(r)
    /\ moved' = [moved EXCEPT ![r] = FALSE]
    /\ UNCHANGED <<row, streak, confirmed, crossed>>

\* Mutant: a second factor is confirmed by any code.
AcceptsAnyCode(op, code) ==
    CASE op = "enroll" -> ~row.mfa
      [] op = "verify" -> row.secret # NoSecret
      [] op = "disable" -> row.mfa /\ Verifies(row.secret, code)

\* When a TOTP route goes on to write.
Accepts(op, code) ==
    CASE op = "enroll" -> ~row.mfa
      [] op = "verify" -> Verifies(row.secret, code)
      [] op = "disable" -> row.mfa /\ Verifies(row.secret, code)

\* (A request that is refused here leaves no trace.)
TotpReads(r, op, code) ==
    /\ row.active /\ Known(code)
    /\ Reads(r, [op |-> op, password |-> FALSE, code |-> code])
    /\ Accepts(op, code)
    /\ Goto(r, "totp")
    /\ UNCHANGED <<row, moved, streak, confirmed, crossed>>

TotpCommits(r) ==
    LET op == call[r].op IN
    /\ pc[r] = "totp"
    /\ row' = CASE op = "enroll" -> [row EXCEPT !.secret = r]
                [] op = "verify" -> [row EXCEPT !.mfa = Written(@, seen[r].mfa, TRUE)]
                [] OTHER -> [row EXCEPT !.mfa = FALSE, !.secret = NoSecret]
    /\ confirmed' = IF op = "verify" THEN confirmed \cup {call[r].code} ELSE confirmed
    /\ crossed' = (crossed \/ moved[r])
    /\ Commits(r)
    /\ UNCHANGED streak

\* locked_until has passed.
LockRunsOut ==
    /\ row.lock = "live"
    /\ row' = [row EXCEPT !.lock = "over"]
    /\ UNCHANGED <<pc, call, seen, moved, streak, confirmed, crossed>>

Next ==
    \/ \E r \in Requests :
          \/ \E password \in BOOLEAN, code \in Secrets : Attempts(r, password, code)
          \/ CountsFailure(r) \/ Succeeds(r) \/ EndsUnwritten(r)
          \/ \E op \in {"enroll", "verify", "disable"}, code \in Secrets :
                TotpReads(r, op, code)
          \/ TotpCommits(r)
    \/ LockRunsOut

Spec == Init /\ [][Next]_vars

-----------------------------------------------------------------------------
(***************************************************************************)
(* MaxAttempts wrong passwords in a row lock the account: while it is not  *)
(* locked, the streak of wrong passwords that were each read after the one *)
(* before was recorded stays below the limit.  Attempts that overlap may   *)
(* cost each other their counts, which ends a streak.                      *)
(***************************************************************************)
SerialFailuresLock == streak < MaxAttempts

(***************************************************************************)
(* A lock in force goes only with its time: the one other way out is the   *)
(* success of an attempt that read the row when an older lock had run out, *)
(* and that clears the newer one set since.                                *)
(***************************************************************************)
LockEnds ==
    row.lock = "live" /\ row'.lock # "live" =>
        \/ row'.lock = "over"
        \/ \E r \in Requests : pc[r] = "success" /\ seen[r].lock = "over" /\ moved[r]

LockSurvives == [][LockEnds]_vars

(***************************************************************************)
(* A second factor that is on asks for a secret its owner has answered     *)
(* for, unless a TOTP request wrote from a row that had changed under it:  *)
(* that can leave it on with a newer secret, or with none at all.          *)
(***************************************************************************)
MfaConfirmed == row.mfa /\ ~crossed => row.secret \in confirmed
=============================================================================
