--------------------------- MODULE RefreshTokens ---------------------------
(***************************************************************************)
(* The refresh tokens of one account: services/auth.py over the            *)
(* refresh_tokens table, with the administrator's operations of            *)
(* services/users.py that revoke them.                                     *)
(*                                                                         *)
(* A request runs in a session of its own, on any worker.  Each SELECT of  *)
(* it sees what is committed at that moment (READ COMMITTED), each commit  *)
(* is one step, and nothing is locked between them: a commit writes what   *)
(* the request computed from its earlier reads.  Losing a process in the   *)
(* middle of a request is the request never taking its next step.          *)
(*                                                                         *)
(* A token stands for the row of its hash, a family_id for the first token *)
(* of the login that made it.  Times matter only through expiry, which may *)
(* come at any moment.                                                     *)
(***************************************************************************)
EXTENDS Naturals, FiniteSets

CONSTANTS
    Tokens,     \* refresh tokens (their number bounds the model)
    Requests,   \* requests (each runs once)
    None        \* no token

ASSUME NoneAssumption == None \notin Tokens

VARIABLES
    issued,     \* tokens inserted so far
    origin,     \* token -> family, the token it was exchanged for, its request
    replaced_by,\* token -> the token its row says it was exchanged for
    revoked,    \* tokens whose revoked_at is set
    expired,    \* tokens whose expires_at has passed
    account,    \* the user row: active, inactive or deleted with its tokens
    op,         \* request -> what it is
    pc,         \* request -> where it stands
    arg,        \* request -> the token it presents
    seen,       \* request -> the rows its SELECT ... revoked_at IS NULL returned
    reply,      \* request -> its answer, given once pc is "done"
    past        \* request -> the requests that had ended when it began

store == <<issued, origin, replaced_by, revoked, expired, account>>
vars == <<store, op, pc, arg, seen, reply, past>>

Origin == [family : Tokens \cup {None}, parent : Tokens \cup {None},
           by : Requests \cup {None}]

-----------------------------------------------------------------------------
(* The table. *)

Exists == account # "deleted"

\* Mutant: is_active looks at the expiry alone.
IsUnexpired(t) == Exists /\ t \in issued \ expired

\* Neither revoked nor expired.
IsActive(t) == Exists /\ t \in issued \ (revoked \cup expired)

\* What SELECT ... revoked_at IS NULL returns, expired or not.
Unrevoked == IF Exists THEN issued \ revoked ELSE {}

FamilyOf(t) == {u \in issued : origin[u].family = origin[t].family}

\* A row for the new token n, of the family of p or of a family of its own.
Insert(n, p, r) ==
    /\ n \notin issued
    /\ issued' = issued \cup {n}
    /\ origin' = [origin EXCEPT ![n] =
                    [family |-> IF p = None THEN n ELSE origin[p].family,
                     parent |-> p, by |-> r]]

Init ==
    /\ issued = {} /\ revoked = {} /\ expired = {}
    /\ origin = [t \in Tokens |-> [family |-> None, parent |-> None, by |-> None]]
    /\ replaced_by = [t \in Tokens |-> None]
    /\ account = "active"
    /\ op = [r \in Requests |-> "none"]
    /\ pc = [r \in Requests |-> "idle"]
    /\ arg = [r \in Requests |-> None]
    /\ seen = [r \in Requests |-> {}]
    /\ reply = [r \in Requests |-> "none"]
    /\ past = [r \in Requests |-> {}]

-----------------------------------------------------------------------------
(* Requests. *)

Begin(r, o, t) ==
    /\ pc[r] = "idle"
    /\ op' = [op EXCEPT ![r] = o]
    /\ arg' = [arg EXCEPT ![r] = t]
    /\ past' = [past EXCEPT ![r] = {q \in Requests : pc[q] = "done"}]

Goto(r, label) == pc' = [pc EXCEPT ![r] = label]

Answer(r, a) == reply' = [reply EXCEPT ![r] = a]

\* Mutant: a token past its expiry is still rotated.
RefreshReadsExpired(r, t) ==
    /\ t \in issued
    /\ Begin(r, "refresh", t)
    /\ \/ ~Exists /\ Goto(r, "done") /\ Answer(r, "invalid")
       \/ Exists /\ t \in revoked /\ Goto(r, "burn") /\ Answer(r, "reuse")
       \/ Exists /\ t \notin revoked /\ Goto(r, "load_user") /\ UNCHANGED reply
    /\ UNCHANGED <<store, seen>>

\* rotate_refresh looks the token up: unknown, no longer valid, or in order.
RefreshReads(r, t) ==
    /\ t \in issued
    /\ Begin(r, "refresh", t)
    /\ \/ ~Exists /\ Goto(r, "done") /\ Answer(r, "invalid")
       \/ Exists /\ ~IsActive(t) /\ Goto(r, "burn") /\ Answer(r, "reuse")
       \/ Exists /\ IsActive(t) /\ Goto(r, "load_user") /\ UNCHANGED reply
    /\ UNCHANGED <<store, seen>>

\* The account is read after the token: an inactive one burns the family.
LoadsUser(r) ==
    /\ pc[r] = "load_user"
    /\ \/ account = "active" /\ Goto(r, "rotate") /\ UNCHANGED reply
       \/ account # "active" /\ Goto(r, "burn") /\ Answer(r, "disabled")
    /\ UNCHANGED <<store, op, arg, seen, past>>

\* The one commit of a rotation: the presented token revoked, its successor in.
RotateCommits(r, n) ==
    /\ pc[r] = "rotate" /\ Exists
    /\ Insert(n, arg[r], r)
    /\ revoked' = revoked \cup {arg[r]}
    /\ replaced_by' = [replaced_by EXCEPT ![arg[r]] = n]
    /\ Goto(r, "done") /\ Answer(r, "ok")
    /\ UNCHANGED <<expired, account, op, arg, seen, past>>

\* Mutant: only the replayed token is burned.
BurnReadsOne(r) ==
    /\ pc[r] = "burn"
    /\ seen' = [seen EXCEPT ![r] = {arg[r]} \cap Unrevoked]
    /\ Goto(r, "burning")
    /\ UNCHANGED <<store, op, arg, reply, past>>

\* _revoke_family: read the family's live rows, then write them.
BurnReads(r) ==
    /\ pc[r] = "burn"
    /\ seen' = [seen EXCEPT ![r] = FamilyOf(arg[r]) \cap Unrevoked]
    /\ Goto(r, "burning")
    /\ UNCHANGED <<store, op, arg, reply, past>>

BurnCommits(r) ==
    /\ pc[r] = "burning" /\ (Exists \/ seen[r] = {})
    /\ revoked' = revoked \cup seen[r]
    /\ Goto(r, "done")
    /\ UNCHANGED <<issued, origin, replaced_by, expired, account>>
    /\ UNCHANGED <<op, arg, seen, reply, past>>

\* revoke_refresh: the presented token alone, if it is there and not revoked.
LogoutReads(r, t) ==
    /\ t \in issued
    /\ Begin(r, "logout", t)
    /\ \/ t \in Unrevoked /\ Goto(r, "logout") /\ UNCHANGED reply
       \/ t \notin Unrevoked /\ Goto(r, "done") /\ Answer(r, "ok")
    /\ UNCHANGED <<store, seen>>

LogoutCommits(r) ==
    /\ pc[r] = "logout" /\ Exists
    /\ revoked' = revoked \cup {arg[r]}
    /\ Goto(r, "done") /\ Answer(r, "ok")
    /\ UNCHANGED <<issued, origin, replaced_by, expired, account>>
    /\ UNCHANGED <<op, arg, seen, past>>

\* authenticate accepts an active account; issue_token_pair inserts later.
LoginReads(r) ==
    /\ account = "active"
    /\ Begin(r, "login", None)
    /\ Goto(r, "issue")
    /\ UNCHANGED <<store, seen, reply>>

LoginIssues(r, n) ==
    /\ pc[r] = "issue" /\ Exists
    /\ Insert(n, None, r)
    /\ Goto(r, "done") /\ Answer(r, "ok")
    /\ UNCHANGED <<replaced_by, revoked, expired, account, op, arg, seen, past>>

\* Mutant: a new password leaves the sessions alone.
ChangeSparesSessions(r, o) ==
    /\ Exists
    /\ o = "deactivate" => account = "active"
    /\ Begin(r, o, None)
    /\ seen' = [seen EXCEPT ![r] = IF o = "password" THEN {} ELSE Unrevoked]
    /\ Goto(r, "change")
    /\ UNCHANGED <<store, reply>>

\* update_user (a new password, a deactivation) and delete_user read every
\* live row of the account in revoke_all_user_tokens ...
ChangeReads(r, o) ==
    /\ Exists
    /\ o = "deactivate" => account = "active"
    /\ Begin(r, o, None)
    /\ seen' = [seen EXCEPT ![r] = Unrevoked]
    /\ Goto(r, "change")
    /\ UNCHANGED <<store, reply>>

\* ... and revoke what they read, in one commit with what they changed.
ChangeCommits(r) ==
    /\ pc[r] = "change" /\ (Exists \/ (op[r] = "delete" /\ seen[r] = {}))
    /\ revoked' = revoked \cup seen[r]
    /\ account' = IF op[r] = "deactivate" THEN "inactive" ELSE account
    /\ \/ op[r] = "delete" /\ Goto(r, "delete") /\ UNCHANGED reply
       \/ op[r] # "delete" /\ Goto(r, "done") /\ Answer(r, "ok")
    /\ UNCHANGED <<issued, origin, replaced_by, expired, op, arg, seen, past>>

\* The second commit of delete_user takes the tokens along (ON DELETE CASCADE).
DeleteCommits(r) ==
    /\ pc[r] = "delete"
    /\ account' = "deleted"
    /\ Goto(r, "done") /\ Answer(r, "ok")
    /\ UNCHANGED <<issued, origin, replaced_by, revoked, expired>>
    /\ UNCHANGED <<op, arg, seen, past>>

\* update_user with is_active = true: no token is touched.
Reactivates(r) ==
    /\ account = "inactive"
    /\ Begin(r, "reactivate", None)
    /\ account' = "active"
    /\ Goto(r, "done") /\ Answer(r, "ok")
    /\ UNCHANGED <<issued, origin, replaced_by, revoked, expired, seen>>

\* The rows a commit wants to write are gone with the account: StaleDataError
\* or a foreign key refuses it, and the request is answered 500.
CommitFails(r) ==
    /\ ~Exists
    /\ \/ pc[r] \in {"rotate", "logout", "issue"}
       \/ pc[r] = "burning" /\ seen[r] # {}
       \/ pc[r] = "change" /\ (op[r] # "delete" \/ seen[r] # {})
    /\ Goto(r, "done") /\ Answer(r, "error")
    /\ UNCHANGED <<store, op, arg, seen, past>>

Expire(t) ==
    /\ t \in issued \ expired
    /\ expired' = expired \cup {t}
    /\ UNCHANGED <<issued, origin, replaced_by, revoked, account>>
    /\ UNCHANGED <<op, pc, arg, seen, reply, past>>

Arrival(r) ==
    \/ \E t \in Tokens : RefreshReads(r, t) \/ LogoutReads(r, t)
    \/ LoginReads(r)
    \/ \E o \in {"password", "deactivate", "delete"} : ChangeReads(r, o)
    \/ Reactivates(r)

Work(r) ==
    \/ LoadsUser(r) \/ BurnReads(r) \/ BurnCommits(r) \/ LogoutCommits(r)
    \/ \E n \in Tokens : RotateCommits(r, n) \/ LoginIssues(r, n)
    \/ ChangeCommits(r) \/ DeleteCommits(r) \/ CommitFails(r)

Next == (\E r \in Requests : Arrival(r) \/ Work(r)) \/ (\E t \in Tokens : Expire(t))

Spec == Init /\ [][Next]_vars

-----------------------------------------------------------------------------
(* Properties. *)

Ops == {"none", "refresh", "logout", "login", "password", "deactivate", "delete",
        "reactivate"}
Labels == {"idle", "load_user", "rotate", "burn", "burning", "logout", "issue",
           "change", "delete", "done"}
Replies == {"none", "ok", "invalid", "reuse", "disabled", "error"}

TypeOK ==
    /\ issued \subseteq Tokens /\ revoked \subseteq issued /\ expired \subseteq issued
    /\ origin \in [Tokens -> Origin]
    /\ replaced_by \in [Tokens -> Tokens \cup {None}]
    /\ account \in {"active", "inactive", "deleted"}
    /\ op \in [Requests -> Ops]
    /\ pc \in [Requests -> Labels]
    /\ arg \in [Requests -> issued \cup {None}]
    /\ seen \in [Requests -> SUBSET issued]
    /\ reply \in [Requests -> Replies]
    /\ past \in [Requests -> SUBSET Requests]

Done(r, a) == pc[r] = "done" /\ reply[r] = a

Overlap(q, r) == q \notin past[r] /\ r \notin past[q]

\* A token that was exchanged is never active again, however the exchanges and
\* the revocations of its family interleave.
OnlyLeavesLive ==
    \A t \in issued : LET p == origin[t].parent IN
        p # None => /\ p \in revoked
                    /\ origin[p].family = origin[t].family

\* refresh_token.py:4 "Tokens rotate on every use": clients that wait for their
\* answers never get two successors of one token.  Only requests that were in
\* flight together can.
SingleUse ==
    \A t, u \in issued :
        t # u /\ origin[t].parent = origin[u].parent /\ origin[t].parent # None
            => Overlap(origin[t].by, origin[u].by)

\* Once a replayed token was refused, its family is dead, unless a rotation of
\* the family was in flight together with the refusal.
ReplayEndsFamily ==
    \A r \in Requests : Done(r, "reuse") =>
        \/ \A t \in FamilyOf(arg[r]) : ~IsActive(t)
        \/ \E t \in FamilyOf(arg[r]) : Overlap(origin[t].by, r)

\* SECURITY.md:30 "a replayed refresh token revokes the whole family": when a
\* token is refused that had been exchanged before the request began, nothing
\* of its family is left.
ReplayRevokesFamily ==
    \A r \in Requests :
        /\ Done(r, "reuse")
        /\ \E t \in issued : origin[t].parent = arg[r] /\ origin[t].by \in past[r]
        => \A t \in FamilyOf(arg[r]) : ~IsActive(t)

\* A new password or a deactivation ends every session that existed when the
\* administrator's request began, whatever was in flight meanwhile.
ChangeEndsSessions ==
    \A r \in Requests :
        op[r] \in {"password", "deactivate"} /\ Done(r, "ok") =>
            \A t \in issued : IsActive(t) => origin[t].by \notin past[r]

\* A family without an active token and without a rotation on its way stays so.
Dead(f) ==
    /\ \A t \in issued : origin[t].family = f => ~IsActive(t)
    /\ \A r \in Requests :
         pc[r] \in {"load_user", "rotate"} => origin[arg[r]].family # f

DeadStaysDead ==
    [][\A f \in issued : Dead(f) => Dead(f)']_vars

-----------------------------------------------------------------------------
(* The inductive strengthening of the properties above. *)

Rotating == {"load_user", "rotate"}

\* A request works on a token that was issued.
ArgsIssued ==
    \A r \in Requests :
        pc[r] \in Rotating \cup {"burn", "burning", "logout"} => arg[r] \in issued

\* Only ended requests are past, and only they have issued tokens.
PastEnded == \A r \in Requests : past[r] \subseteq {q \in Requests : pc[q] = "done"}

MakersEnded ==
    \A t \in issued : origin[t].by \in Requests /\ pc[origin[t].by] = "done"

\* A family is named after its first token.
FamiliesIssued == \A t \in issued : origin[t].family \in issued

Inv ==
    /\ TypeOK
    /\ ArgsIssued
    /\ OnlyLeavesLive
    /\ PastEnded
    /\ MakersEnded
    /\ FamiliesIssued

\* A token on its way to be rotated had no successor when the request began.
NoEarlierSuccessor ==
    \A r \in Requests : pc[r] \in Rotating =>
        \A t \in issued : origin[t].parent = arg[r] => origin[t].by \notin past[r]

\* What an administrator's request has read covers the sessions before it.
ChangeCovers ==
    \A r \in Requests :
        op[r] \in {"password", "deactivate"} /\ pc[r] = "change" =>
            \A t \in issued : IsActive(t) => t \in seen[r] \/ origin[t].by \notin past[r]

\* What a refusal has read covers its family, and whatever may still lengthen
\* the family afterwards was in flight with it.
Raced(r) == \E t \in FamilyOf(arg[r]) : Overlap(origin[t].by, r)

ReplayCovers ==
    \A r \in Requests : reply[r] = "reuse" =>
        /\ pc[r] \in {"burn", "burning", "done"} /\ arg[r] \in issued
        /\ pc[r] = "burning" =>
              \A t \in FamilyOf(arg[r]) :
                  IsActive(t) => t \in seen[r] \/ Overlap(origin[t].by, r)
        /\ pc[r] = "done" /\ ~Raced(r) =>
              \A q \in Requests :
                  pc[q] \in Rotating /\ origin[arg[q]].family = origin[arg[r]].family
                      => Overlap(q, r)
=============================================================================
