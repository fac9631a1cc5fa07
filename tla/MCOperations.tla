---------------------------- MODULE MCOperations ----------------------------
(***************************************************************************)
(* Small instances of the components that answer requests over rows of     *)
(* their own: sign-in, accounts, API keys, models and triage.  They share  *)
(* no state, so a behaviour is one of one component: part says which.      *)
(* Login has the variables of its module, the others share v1 to v9.       *)
(***************************************************************************)
EXTENDS Login, TLC

CONSTANTS Few,   \* the requests of a component other than Login
          People, Models, NoOne, Keys, Scopes

VARIABLES part, v1, v2, v3, v4, v5, v6, v7, v8, v9

shared == <<v1, v2, v3, v4, v5, v6, v7, v8, v9>>
mcvars == <<part, shared, vars>>

Unused == "unused"

\* Bodies of PATCH /users: each way to lose or gain an administrator.
Payloads ==
    {[role |-> "viewer", active |-> "keep"], [role |-> "admin", active |-> "keep"],
     [role |-> "keep", active |-> "no"], [role |-> "admin", active |-> "no"],
     [role |-> "keep", active |-> "yes"]}

U == INSTANCE Users WITH Users <- People, Requests <- Few,
        row <- v1, pc <- v2, call <- v3, seen <- v4,
        used <- v5, counted <- v6, removals <- v7, during <- v8
K == INSTANCE ApiKeys WITH Requests <- Few,
        row <- v1, pc <- v2, call <- v3, seen <- v4,
        revoked <- v5, admitted <- v6
M == INSTANCE ModelRegistry WITH Workers <- People, NoModel <- NoOne, Requests <- Few,
        rows <- v1, pc <- v2, call <- v3, cache <- v4,
        active <- v5, files <- v6, old <- v7, swept <- v8, scored <- v9
T == INSTANCE Triage WITH Analysts <- People, Requests <- Few,
        row <- v1, pc <- v2, call <- v3, seen <- v4,
        bodies <- v5, overlap <- v6, setter <- v7

MCInit ==
    /\ \/ /\ part = "login"
          /\ v1 = Unused /\ v2 = Unused /\ v3 = Unused /\ v4 = Unused
       \/ part = "users" /\ U!Init
       \/ part = "keys" /\ K!Init
       \/ part = "models" /\ M!Init
       \/ part = "triage" /\ T!Init
    /\ part = "login" => v5 = Unused /\ v6 = Unused
    /\ part \in {"login", "keys"} => v7 = Unused
    /\ part \in {"login", "keys", "triage"} => v8 = Unused
    /\ part # "models" => v9 = Unused
    /\ Init
    /\ part # "login" => row = Fresh

MCNext ==
    \/ part = "login" /\ Next /\ UNCHANGED <<part, shared>>
    \/ part = "users" /\ U!Next /\ UNCHANGED <<part, vars, v9>>
    \/ part = "keys" /\ K!Next /\ UNCHANGED <<part, vars, v7, v8, v9>>
    \/ part = "models" /\ M!Next /\ UNCHANGED <<part, vars>>
    \/ part = "triage" /\ T!Next /\ UNCHANGED <<part, vars, v8, v9>>

MCSpec == MCInit /\ [][MCNext]_mcvars

Symmetry == Permutations(Few) \cup Permutations(People) \cup Permutations(Models)

-----------------------------------------------------------------------------
\* Some administrator is left: Users (services/users.py).
AdminRemains == part = "users" => U!AdminRemains

\* No key is accepted after its revocation: ApiKeys (services/api_keys.py).
RevocationHolds == part = "keys" => K!RevocationHolds

\* At most one model is active: ModelRegistry (services/ml/registry.py).
OneActive == part = "models" => M!OneActive

\* Requests score with the active model: ModelRegistry (services/ml/registry.py).
ScoredWasActive == [][part = "models" => M!ScoresWithActive]_mcvars

\* Notes and names survive a triage: Triage (api/v1/threats.py).
TriageKept == part = "triage" => T!TriageKept
=============================================================================
