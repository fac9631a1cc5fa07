------------------------------- MODULE Users -------------------------------
(***************************************************************************)
(* The administration of the user accounts: services/users.py behind the   *)
(* routes of api/v1/users.py and the guards of api/deps.py.                *)
(*                                                                         *)
(* A request reads the acting account, then its target, then counts the    *)
(* other administrators, then commits; each SELECT sees what is committed  *)
(* at that moment and nothing is locked.  The session's identity map hands *)
(* out the acting row unchanged when it is read again as the target, and a *)
(* flush writes the columns whose value differs from the value read.       *)
(*                                                                         *)
(* Full names and passwords are left out; the refresh tokens that a change *)
(* revokes are in RefreshTokens.  A user id stands for its e-mail address. *)
(***************************************************************************)
EXTENDS FiniteSets

CONSTANTS Users, Requests,
          Payloads  \* bodies of PATCH: [role, active], each a value or "keep"

VARIABLES
    row,     \* user -> its row: [role, active], or NoRow
    used,    \* users that have had a row (ids are never given out twice)
    pc,      \* request -> where it stands
    call,    \* request -> [op, by, on, body]
    seen,    \* request -> the row of its target as it read it
    counted, \* request -> the other active administrators its guard counted
    removals,\* requests whose commit took an active administrator away
    during   \* request -> the removals committed between its read and its end

vars == <<row, used, pc, call, seen, counted, removals, during>>

Roles == {"admin", "viewer"}
Flags == {"yes", "no"}
Row == [role : Roles, active : Flags]
NoRow == [role |-> "none", active |-> "no"]
Body == [role : Roles \cup {"keep"}, active : Flags \cup {"keep"}]
NoBody == [role |-> "keep", active |-> "keep"]
Call == [op : {"update", "delete", "create"}, by : Users, on : Users, body : Body]
InFlight == {"auth", "count", "commit"}

Exists(u) == row[u] # NoRow
Admins == {u \in Users : row[u] = [role |-> "admin", active |-> "yes"]}

TypeOK ==
    /\ row \in [Users -> Row \cup {NoRow}]
    /\ used \subseteq Users
    /\ pc \in [Requests -> InFlight \cup {"idle", "done"}]
    /\ DOMAIN call = Requests
    /\ \A r \in Requests : pc[r] # "idle" => call[r] \in Call
    /\ seen \in [Requests -> Row \cup {NoRow}]
    /\ counted \in [Requests -> SUBSET Users]
    /\ removals \subseteq Requests
    /\ during \in [Requests -> SUBSET Requests]

Init ==
    /\ row \in [Users -> {[role |-> "admin", active |-> "yes"],
                          [role |-> "viewer", active |-> "yes"], NoRow}]
    /\ Admins # {}
    /\ used = {u \in Users : Exists(u)}
    /\ pc = [r \in Requests |-> "idle"]
    /\ call = [r \in Requests |-> NoBody]
    /\ seen = [r \in Requests |-> NoRow]
    /\ counted = [r \in Requests |-> {}]
    /\ removals = {}
    /\ during = [r \in Requests |-> {}]

-----------------------------------------------------------------------------

Goto(r, label) == pc' = [pc EXCEPT ![r] = label]

\* get_current_user and require_role: the caller is an active administrator.
Begin(r, op, by, on, body) ==
    /\ pc[r] = "idle" /\ by \in Admins
    /\ call' = [call EXCEPT ![r] = [op |-> op, by |-> by, on |-> on, body |-> body]]
    /\ seen' = [seen EXCEPT ![r] = IF by = on THEN row[on] ELSE NoRow]
    /\ Goto(r, "auth")
    /\ UNCHANGED <<row, used, counted, removals, during>>

\* What the request works on: for its own account, what authentication read.
Target(r) == IF call[r].by = call[r].on THEN seen[r] ELSE row[call[r].on]

Demotes(old, body) == body.role # "keep" /\ old.role = "admin" /\ body.role # "admin"
Deactivates(old, body) == old.active = "yes" /\ body.active = "no"
NewRole(old, body) == IF body.role = "keep" THEN old.role ELSE body.role

\* Mutant: a demotion is not guarded.
GuardsDepartures(op, old, body) ==
    \/ op = "delete" /\ old.role = "admin"
    \/ op = "update" /\ Deactivates(old, body) /\ NewRole(old, body) = "admin"

\* When _guard_last_admin counts instead of returning at once.
Guarded(op, old, body) ==
    \/ op = "delete" /\ old.role = "admin"
    \/ op = "update" /\ \/ Demotes(old, body)
                        \/ Deactivates(old, body) /\ NewRole(old, body) = "admin"

\* Nobody deletes or deactivates the account the request came from.
Refused(c, old) ==
    /\ c.by = c.on
    /\ c.op = "delete" \/ (c.op = "update" /\ Deactivates(old, c.body))

\* The request is answered: what it had read is gone with its session.
Ends(r) ==
    /\ Goto(r, "done")
    /\ seen' = [seen EXCEPT ![r] = NoRow]
    /\ counted' = [counted EXCEPT ![r] = {}]

\* get_user, and what is decided from its row alone.  The refusal of a change
\* to oneself that is a demotion as well comes after the count: see Counts.
Reads(r) ==
    LET c == call[r]  old == Target(r)
        refusedFirst == Refused(c, old) /\ ~(c.op = "update" /\ Guarded(c.op, old, c.body))
    IN
    /\ pc[r] = "auth" /\ c.op # "create"
    /\ \/ (~Exists(c.on) \/ refusedFirst) /\ Ends(r)
       \/ /\ Exists(c.on) /\ ~refusedFirst
          /\ seen' = [seen EXCEPT ![r] = old]
          /\ Goto(r, IF Guarded(c.op, old, c.body) THEN "count" ELSE "commit")
          /\ UNCHANGED counted
    /\ UNCHANGED <<row, used, call, removals, during>>

\* create_user looks for the address first.
ReadsAddress(r) ==
    /\ pc[r] = "auth" /\ call[r].op = "create"
    /\ \/ Exists(call[r].on) /\ Ends(r)
       \/ ~Exists(call[r].on) /\ Goto(r, "commit") /\ UNCHANGED <<seen, counted>>
    /\ UNCHANGED <<row, used, call, removals, during>>

Others(r) == Admins \ {call[r].on}

\* _guard_last_admin: none left but the target means a conflict.
Counts(r) ==
    /\ pc[r] = "count"
    /\ \/ (Others(r) = {} \/ Refused(call[r], seen[r])) /\ Ends(r)
       \/ /\ Others(r) # {} /\ ~Refused(call[r], seen[r])
          /\ counted' = [counted EXCEPT ![r] = Others(r)]
          /\ Goto(r, "commit") /\ UNCHANGED seen
    /\ UNCHANGED <<row, used, call, removals, during>>

\* The columns a flush writes: those that differ from what was read.
Flushed(now, old, body) ==
    [role |-> IF body.role \in {"keep", old.role} THEN now.role ELSE body.role,
     active |-> IF body.active \in {"keep", old.active} THEN now.active ELSE body.active]

\* The row after the commit of r; an update of a deleted row is an error that
\* writes nothing, a deletion of one goes through.
Committed(r) ==
    LET c == call[r] IN
    CASE c.op = "delete" -> NoRow
      [] c.op = "create" ->
            IF Exists(c.on) THEN row[c.on] ELSE [role |-> c.body.role, active |-> "yes"]
      [] OTHER -> IF Exists(c.on) THEN Flushed(row[c.on], seen[r], c.body) ELSE NoRow

Commits(r) ==
    LET u == call[r].on IN
    /\ pc[r] = "commit"
    /\ call[r].op = "create" => (Exists(u) \/ u \notin used)
    /\ row' = [row EXCEPT ![u] = Committed(r)]
    /\ used' = used \cup {u}
    /\ IF u \in Admins /\ u \notin Admins'
       THEN /\ removals' = removals \cup {r}
            /\ during' = [q \in Requests |->
                 IF pc[q] \in InFlight /\ q # r THEN during[q] \cup {r} ELSE during[q]]
       ELSE UNCHANGED <<removals, during>>
    /\ Ends(r)
    /\ UNCHANGED call

Next ==
    \E r \in Requests :
        \/ \E by, on \in Users :
              \/ \E body \in Payloads : Begin(r, "update", by, on, body)
              \/ Begin(r, "delete", by, on, NoBody)
              \/ \E role \in Roles :
                    Begin(r, "create", by, on, [role |-> role, active |-> "keep"])
        \/ Reads(r) \/ ReadsAddress(r) \/ Counts(r) \/ Commits(r)

Spec == Init /\ [][Next]_vars

-----------------------------------------------------------------------------
(***************************************************************************)
(* "Refuse the change if it would leave zero active admins" holds unless   *)
(* the last two left in requests that overlapped: one of them committed    *)
(* between the read and the commit of the other, whose count, or whose     *)
(* reading that its target is no administrator, was stale by then.         *)
(***************************************************************************)
Overlapped == \E r, q \in removals : q \in during[r] /\ call[q].on # call[r].on

AdminRemains == Admins # {} \/ Overlapped
=============================================================================
