------------------------------- MODULE Triage -------------------------------
(***************************************************************************)
(* The triage of one alert: patch_alert of api/v1/threats.py, and the      *)
(* retention purge of workers/scheduler.py that deletes the alert with its *)
(* event.                                                                  *)
(*                                                                         *)
(* A request reads the row and commits the columns whose new value differs *)
(* from the value it read.  A text of notes is the sequence of the         *)
(* requests that wrote its lines.  assigned_to is left out: nothing is     *)
(* computed from it.                                                       *)
(***************************************************************************)
EXTENDS Sequences

CONSTANTS Requests, Analysts, NoOne

VARIABLES
    row,     \* [status, triaged_by, notes], or status "deleted"
    bodies,  \* requests with a row of their own in alert_notes
    pc,      \* request -> where it stands
    call,    \* request -> [status, note, actor]
    seen,    \* request -> the row as it read it
    overlap, \* request -> the requests that committed between its read and its end
    setter   \* the request whose commit wrote the status last

vars == <<row, bodies, pc, call, seen, overlap, setter>>

Statuses == {"open", "triaged", "closed"}
Fresh == [status |-> "open", triaged_by |-> NoOne, notes |-> <<>>]
Row == [status : Statuses \cup {"deleted"}, triaged_by : Analysts \cup {NoOne},
        notes : Seq(Requests)]
Call == [status : Statuses \cup {"keep"}, note : BOOLEAN, actor : Analysts]

Init ==
    /\ row = Fresh
    /\ bodies = {}
    /\ pc = [r \in Requests |-> "idle"]
    /\ call = [r \in Requests |-> [status |-> "keep", note |-> FALSE, actor |-> NoOne]]
    /\ seen = [r \in Requests |-> Fresh]
    /\ overlap = [r \in Requests |-> {}]
    /\ setter = NoOne

-----------------------------------------------------------------------------

Exists == row.status # "deleted"

Reads(r, c) ==
    /\ pc[r] = "idle" /\ Exists
    /\ call' = [call EXCEPT ![r] = c]
    /\ seen' = [seen EXCEPT ![r] = row]
    /\ pc' = [pc EXCEPT ![r] = "commit"]
    /\ UNCHANGED <<row, bodies, overlap, setter>>

Written(now, old, new) == IF new = old THEN now ELSE new

ChangesStatus(r) == call[r].status \notin {"keep", seen[r].status}

\* The whole text, with a line more.
Extended(r) == Append(seen[r].notes, r)

\* Mutant: whoever triaged an alert first stays named.
SignsOnce(r) == ChangesStatus(r) /\ seen[r].triaged_by = NoOne

\* A status other than open is signed.
Signs(r) == ChangesStatus(r) /\ call[r].status # "open"

Patched(r) ==
    [status |-> IF ChangesStatus(r) THEN call[r].status ELSE row.status,
     triaged_by |-> IF Signs(r)
                    THEN Written(row.triaged_by, seen[r].triaged_by, call[r].actor)
                    ELSE row.triaged_by,
     notes |-> IF call[r].note THEN Extended(r) ELSE row.notes]

Commits(r) ==
    /\ pc[r] = "commit" /\ Exists
    /\ row' = Patched(r)
    /\ bodies' = IF call[r].note THEN bodies \cup {r} ELSE bodies
    /\ setter' = IF ChangesStatus(r) THEN r ELSE setter
    /\ overlap' = [q \in Requests |-> IF q # r /\ pc[q] = "commit"
                                      THEN overlap[q] \cup {r} ELSE overlap[q]]
    /\ pc' = [pc EXCEPT ![r] = "answered"]
    /\ UNCHANGED <<call, seen>>

\* The row is gone: the flush fails and nothing is written.
Fails(r) ==
    /\ pc[r] = "commit" /\ ~Exists
    /\ pc' = [pc EXCEPT ![r] = "failed"]
    /\ UNCHANGED <<row, bodies, call, seen, overlap, setter>>

\* retention_purge_job: the event goes, with its alert and the alert's notes.
Purge ==
    /\ Exists
    /\ row' = [Fresh EXCEPT !.status = "deleted"]
    /\ bodies' = {}
    /\ UNCHANGED <<pc, call, seen, overlap, setter>>

Next ==
    \/ \E r \in Requests : (\E c \in Call : Reads(r, c)) \/ Commits(r) \/ Fails(r)
    \/ Purge

Spec == Init /\ [][Next]_vars

-----------------------------------------------------------------------------
Answered == {r \in Requests : pc[r] = "answered"}

\* The line of every note that was answered is in the text, unless a patch with
\* a note that committed across it wrote the text it had read before.
NotesComplete ==
    \A r \in Answered : call[r].note =>
        \/ \E i \in DOMAIN row.notes : row.notes[i] = r
        \/ \E q \in Answered : call[q].note /\ r \in overlap[q]

\* An alert that is not open names the analyst who gave it its status, unless
\* that patch had read the row before another one wrote it: a name equal to the
\* one it read is not written again.
TriagedBySetter ==
    row.status # "open" => row.triaged_by = call[setter].actor \/ overlap[setter] # {}

(***************************************************************************)
(* What analysts did to an alert is on record: their notes in its text,    *)
(* and the one who triaged it by name; patches that overlap may cost each  *)
(* other a line or the name, and nothing else may.                         *)
(***************************************************************************)
TriageKept == Exists => NotesComplete /\ TriagedBySetter

-----------------------------------------------------------------------------
(* The inductive strengthening of the invariant above. *)

TypeOK ==
    /\ row \in Row
    /\ pc \in [Requests -> {"idle", "commit", "answered", "failed"}]
    /\ call \in [Requests -> [status : Statuses \cup {"keep"}, note : BOOLEAN,
                              actor : Analysts \cup {NoOne}]]
    /\ seen \in [Requests -> Row]
    /\ overlap \in [Requests -> SUBSET Requests]

\* A patch that nobody committed across has read the row as it is.
Unmoved == \A r \in Requests : pc[r] = "commit" /\ overlap[r] = {} => seen[r] = row

\* A patch on its way knows of every note that is not lost yet: it has read its
\* line, or was overtaken by it.
KnowsNotes ==
    \A r \in Requests, q \in Answered : pc[r] = "commit" /\ call[q].note =>
        \/ \E i \in DOMAIN seen[r].notes : seen[r].notes[i] = q
        \/ q \in overlap[r]
        \/ \E p \in Answered : call[p].note /\ q \in overlap[p]

SetterAnswered == row.status # "open" => setter \in Answered

Inv ==
    /\ TypeOK
    /\ Exists => /\ Unmoved /\ KnowsNotes /\ SetterAnswered
                 /\ NotesComplete /\ TriagedBySetter
=============================================================================
