------------------------------ MODULE ApiKeys ------------------------------
(***************************************************************************)
(* The API keys of machine submitters: services/api_keys.py, its routes    *)
(* and the require_api_key guard of api/deps.py.                           *)
(*                                                                         *)
(* A request reads the row of a key once and commits the columns it        *)
(* changed.  Keys are never deleted; the deletion of their creator clears  *)
(* created_by and leaves them valid.  A credential is the prefix of a key  *)
(* with its own secret, or with another one.                               *)
(***************************************************************************)
CONSTANTS Keys, Requests, Scopes

VARIABLES
    row,     \* key -> [scope, revoked, expired]; scope "none" before its creation
    pc,      \* request -> where it stands
    call,    \* request -> [op, key, late]: late if the key had ended before it began
    seen,    \* request -> the row as it read it
    revoked, \* keys whose revocation has been answered
    admitted \* requests a key was accepted for

vars == <<row, pc, call, seen, revoked, admitted>>

Row == [scope : Scopes \cup {"none"}, revoked : BOOLEAN, expired : BOOLEAN]
NoKey == [scope |-> "none", revoked |-> FALSE, expired |-> FALSE]
Call == [op : {"revoke", "use", "none"}, key : Keys, late : BOOLEAN]

Init ==
    /\ row = [k \in Keys |-> NoKey]
    /\ pc = [r \in Requests |-> "idle"]
    /\ call \in [Requests -> [op : {"none"}, key : {CHOOSE k \in Keys : TRUE}, late : {FALSE}]]
    /\ seen = [r \in Requests |-> NoKey]
    /\ revoked = {}
    /\ admitted = {}

Exists(k) == row[k].scope # "none"

Goto(r, label) == pc' = [pc EXCEPT ![r] = label]

\* The key had been revoked, with an answer, or had expired when the call came.
Ended(k) == k \in revoked \/ row[k].expired

Reads(r, op, k) ==
    /\ pc[r] = "idle"
    /\ call' = [call EXCEPT ![r] = [op |-> op, key |-> k, late |-> Ended(k)]]
    /\ seen' = [seen EXCEPT ![r] = row[k]]

\* create_api_key: the prefix and the hash are new, the scopes as asked for.
Create(k, scope) ==
    /\ ~Exists(k)
    /\ row' = [row EXCEPT ![k] = [NoKey EXCEPT !.scope = scope]]
    /\ UNCHANGED <<pc, call, seen, revoked, admitted>>

\* revoke_api_key of a key that is revoked already answers and writes nothing.
RevokeReads(r, k) ==
    /\ Exists(k)
    /\ Reads(r, "revoke", k)
    /\ Goto(r, IF row[k].revoked THEN "done" ELSE "revoke")
    /\ revoked' = IF row[k].revoked THEN revoked \cup {k} ELSE revoked
    /\ UNCHANGED <<row, admitted>>

RevokeCommits(r) ==
    LET k == call[r].key IN
    /\ pc[r] = "revoke"
    /\ row' = [row EXCEPT ![k].revoked = TRUE]
    /\ revoked' = revoked \cup {k}
    /\ Goto(r, "done")
    /\ UNCHANGED <<call, seen, admitted>>

\* is_valid.
Valid(k) == ~row[k].revoked /\ ~row[k].expired

\* verify_api_key: the prefix finds the row, then secret, validity and scope.
Accepted(k, secret, scope) ==
    /\ Exists(k) /\ secret = "own"
    /\ Valid(k)
    /\ row[k].scope = scope

UseReads(r, k, secret, scope) ==
    /\ Reads(r, "use", k)
    /\ Goto(r, IF Accepted(k, secret, scope) THEN "use" ELSE "done")
    /\ UNCHANGED <<row, revoked, admitted>>

\* Mutant: the use writes back the row it read.
WritesRow(r) == row' = [row EXCEPT ![call[r].key] = seen[r]]

\* The flush of a use writes last_used_at, which nothing reads, and no more.
WritesLastUse(r) == UNCHANGED row

UseCommits(r) ==
    /\ pc[r] = "use"
    /\ WritesLastUse(r)
    /\ admitted' = admitted \cup {r}
    /\ Goto(r, "done")
    /\ UNCHANGED <<call, seen, revoked>>

\* expires_at has passed.
Expire(k) ==
    /\ Exists(k) /\ ~row[k].expired
    /\ row' = [row EXCEPT ![k].expired = TRUE]
    /\ UNCHANGED <<pc, call, seen, revoked, admitted>>

Next ==
    \/ \E k \in Keys : Expire(k) \/ \E scope \in Scopes : Create(k, scope)
    \/ \E r \in Requests :
          \/ \E k \in Keys : RevokeReads(r, k)
          \/ RevokeCommits(r)
          \/ \E k \in Keys, secret \in {"own", "other"}, scope \in Scopes :
                UseReads(r, k, secret, scope)
          \/ UseCommits(r)

Spec == Init /\ [][Next]_vars

-----------------------------------------------------------------------------
(***************************************************************************)
(* A revocation that was answered holds: whatever requests were under way, *)
(* none that comes after it, or after the key has expired, is admitted.    *)
(***************************************************************************)
RevocationHolds == \A r \in admitted : ~call[r].late

-----------------------------------------------------------------------------
(* The inductive strengthening of the invariant above. *)

TypeOK ==
    /\ row \in [Keys -> Row]
    /\ pc \in [Requests -> {"idle", "revoke", "use", "done"}]
    /\ DOMAIN call = Requests
    /\ revoked \subseteq Keys /\ admitted \subseteq Requests

\* An answer to a revocation means that the row says so, for ever: no commit
\* of a request that has read the row before takes it back.
RevokedInRow == \A k \in revoked : Exists(k) /\ row[k].revoked

\* A use that has passed the check came before the end of its key, however long
\* it takes to commit.
InTime ==
    \A r \in Requests :
        /\ pc[r] = "use" => ~call[r].late
        /\ pc[r] = "revoke" => call[r].key \in Keys /\ Exists(call[r].key)
        /\ r \in admitted => pc[r] = "done"

Inv == TypeOK /\ RevokedInRow /\ InTime /\ RevocationHolds
=============================================================================
