------------------------------ MODULE AuditLog ------------------------------
(***************************************************************************)
(* What the audit log promises its readers: a sequence that only grows at  *)
(* its end, in which nobody appears twice, where a change recorded after   *)
(* the fact was durable before its row, and where a login attempt's change *)
(* and its row are one step.  Rows may be missing (recording is best       *)
(* effort); none is ever wrong.                                            *)
(***************************************************************************)
EXTENDS Sequences

CONSTANT Tasks

VARIABLES
    logins,     \* the tasks that are login attempts
    written,    \* who is in the log, oldest first
    durable     \* whose state change is committed

Init ==
    /\ logins \subseteq Tasks
    /\ written = <<>>
    /\ durable = {}

IsWritten(t) == \E i \in DOMAIN written : written[i] = t

\* The change of a request, before anything is recorded about it.
Change(t) ==
    /\ t \notin logins \cup durable /\ ~IsWritten(t)
    /\ durable' = durable \cup {t}
    /\ UNCHANGED <<logins, written>>

Record(t) ==
    /\ t \notin logins /\ ~IsWritten(t)
    /\ written' = Append(written, t)
    /\ UNCHANGED <<logins, durable>>

RecordLogin(t) ==
    /\ t \in logins \ durable /\ ~IsWritten(t)
    /\ written' = Append(written, t)
    /\ durable' = durable \cup {t}
    /\ UNCHANGED logins

Next == \E t \in Tasks : Change(t) \/ Record(t) \/ RecordLogin(t)

Spec == Init /\ [][Next]_<<logins, written, durable>>
=============================================================================
