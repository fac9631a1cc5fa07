--------------------------- MODULE ModelRegistry ---------------------------
(***************************************************************************)
(* The registry of anomaly models: services/ml/registry.py, the training   *)
(* of services/ml/service.py, the scoring of services/ml/scorer.py and the *)
(* routes of api/v1/ml.py, over the ml_models table, the artifact files    *)
(* and a cache in every worker.                                            *)
(*                                                                         *)
(* The UPDATE of all rows that opens a switch locks every row it finds     *)
(* until its transaction ends, and waits for a row that another one holds; *)
(* the model takes all those locks in one step.  Any transaction may fail  *)
(* instead (a lock timeout, a lost connection) and is rolled back; what it *)
(* did to the files stays done.                                            *)
(***************************************************************************)
EXTENDS FiniteSets

CONSTANTS Models, Requests, Workers,
          NoModel

VARIABLES
    rows,    \* models with a row
    active,  \* models whose row says is_active
    files,   \* models whose artifact is on disk
    old,     \* models of an earlier feature schema
    cache,   \* worker -> the model it holds in _ACTIVE
    pc,      \* request -> where it stands
    call,    \* request -> [model, was, next]: was is_active when it was read, next
             \* the label after a training
    swept,   \* request -> the rows its UPDATE of all rows wrote and holds
    scored   \* request -> the model it scored with

vars == <<rows, active, files, old, cache, pc, call, swept, scored>>

Labels == {"idle", "save", "insert", "evaluate", "activate", "sweep", "set", "clear",
           "clearing", "unlink", "delete", "refresh", "done"}
Call == [model : Models \cup {NoModel}, was : BOOLEAN, next : {"activate", "done"}]
NoCall == [model |-> NoModel, was |-> FALSE, next |-> "done"]

TypeOK ==
    /\ rows \subseteq Models /\ active \subseteq rows /\ files \subseteq Models
    /\ old \subseteq Models
    /\ cache \in [Workers -> Models \cup {NoModel}]
    /\ pc \in [Requests -> Labels]
    /\ call \in [Requests -> Call]
    /\ swept \in [Requests -> SUBSET Models]
    /\ scored \in [Requests -> Models \cup {NoModel}]

\* Two models at most to begin with, one of them perhaps active.
Init ==
    /\ rows \in {s \in SUBSET Models : Cardinality(s) = 2} /\ files = rows
    /\ active \in {{}} \cup {{m} : m \in rows}
    /\ old \in {{}} \cup {{m} : m \in rows}
    /\ cache \in [Workers -> active \cup {NoModel}]
    /\ pc = [r \in Requests |-> "idle"]
    /\ call = [r \in Requests |-> NoCall]
    /\ swept = [r \in Requests |-> {}]
    /\ scored = [r \in Requests |-> NoModel]

-----------------------------------------------------------------------------

Goto(r, label) == pc' = [pc EXCEPT ![r] = label]

Begin(r, m, label) ==
    /\ pc[r] = "idle"
    /\ call' = [call EXCEPT ![r].model = m]
    /\ Goto(r, label)
    /\ UNCHANGED <<rows, active, files, old, cache, swept, scored>>

\* Rows another transaction holds.
Locked(r) == UNION {swept[q] : q \in Requests \ {r}}

\* The request is answered; its transaction has ended, with its locks.
Ends(r) ==
    /\ Goto(r, "done")
    /\ swept' = [swept EXCEPT ![r] = {}]
    /\ call' = [call EXCEPT ![r] = NoCall]

\* Its transaction ends, and the cache of its worker is still to be dropped.
GoesToRefresh(r) ==
    /\ Goto(r, "refresh")
    /\ swept' = [swept EXCEPT ![r] = {}]
    /\ UNCHANGED call

GoesTo(r, label) == Goto(r, label) /\ UNCHANGED <<call, swept>>

\* Ids are never given out twice: nothing remembers a new one.
New(m) ==
    /\ m \notin rows \cup files
    /\ \A q \in Requests : call[q].model # m /\ scored[q] # m
    /\ \A w \in Workers : cache[w] # m

\* train_and_register: the file first, then the row.
Train(r, m, activate) ==
    /\ pc[r] = "idle" /\ New(m)
    /\ call' = [call EXCEPT ![r].model = m,
                            ![r].next = IF activate THEN "activate" ELSE "done"]
    /\ Goto(r, "save")
    /\ UNCHANGED <<rows, active, files, old, cache, swept, scored>>

Saves(r) ==
    /\ pc[r] = "save"
    /\ files' = files \cup {call[r].model}
    /\ Goto(r, "insert")
    /\ UNCHANGED <<rows, active, old, cache, call, swept, scored>>

Inserts(r) ==
    /\ pc[r] = "insert"
    /\ rows' = rows \cup {call[r].model}
    /\ Goto(r, "evaluate")
    /\ UNCHANGED <<active, files, old, cache, call, swept, scored>>

\* With labels, the artifact is loaded again and the metrics are written to the
\* row; both fail when the model has been deleted since.
Evaluates(r) ==
    LET m == call[r].model IN
    /\ pc[r] = "evaluate"
    /\ IF m \in rows \cap files /\ call[r].next = "activate"
       THEN GoesTo(r, "activate") ELSE Ends(r)
    /\ UNCHANGED <<rows, active, files, old, cache, scored>>

\* activate: the row is there, of the current schema, and so is its artifact.
Checks(r) ==
    LET m == call[r].model IN
    /\ pc[r] = "activate"
    /\ IF m \in (rows \cap files) \ old THEN GoesTo(r, "sweep") ELSE Ends(r)
    /\ UNCHANGED <<rows, active, files, old, cache, scored>>

\* Mutant: UPDATE ... WHERE is_active: it locks the active rows alone.
SweepsActiveRows(r, label) ==
    /\ Locked(r) \cap active = {}
    /\ swept' = [swept EXCEPT ![r] = active]
    /\ Goto(r, label)

\* UPDATE ml_models SET is_active = false.
Sweeps(r, label) ==
    /\ Locked(r) = {}
    /\ swept' = [swept EXCEPT ![r] = rows]
    /\ Goto(r, label)

ActivateSweeps(r) ==
    /\ pc[r] = "sweep"
    /\ Sweeps(r, "set")
    /\ UNCHANGED <<rows, active, files, old, cache, call, scored>>

\* The row is set and the transaction commits; an UPDATE that finds no row fails.
ActivateCommits(r) ==
    LET m == call[r].model IN
    /\ pc[r] = "set"
    /\ \/ m \in rows /\ active' = (active \ swept[r]) \cup {m} /\ GoesToRefresh(r)
       \/ m \notin rows /\ UNCHANGED active /\ Ends(r)
    /\ UNCHANGED <<rows, files, old, cache, scored>>

DeactivateSweeps(r) ==
    /\ pc[r] = "clear"
    /\ Sweeps(r, "clearing")
    /\ UNCHANGED <<rows, active, files, old, cache, call, scored>>

DeactivateCommits(r) ==
    /\ pc[r] = "clearing"
    /\ active' = active \ swept[r]
    /\ GoesToRefresh(r)
    /\ UNCHANGED <<rows, files, old, cache, scored>>

\* delete_model reads the row and unlinks the artifact ...
Unlinks(r) ==
    LET m == call[r].model IN
    /\ pc[r] = "unlink"
    /\ \/ /\ m \in rows
          /\ files' = files \ {m}
          /\ call' = [call EXCEPT ![r].was = m \in active]
          /\ Goto(r, "delete") /\ UNCHANGED swept
       \/ m \notin rows /\ Ends(r) /\ UNCHANGED files
    /\ UNCHANGED <<rows, active, old, cache, scored>>

\* ... and then deletes the row, when nobody holds it.
Deletes(r) ==
    LET m == call[r].model IN
    /\ pc[r] = "delete" /\ m \notin Locked(r)
    /\ rows' = rows \ {m}
    /\ active' = active \ {m}
    /\ IF call[r].was THEN GoesToRefresh(r) ELSE Ends(r)
    /\ UNCHANGED <<files, old, cache, scored>>

\* invalidate_cache, in the worker that served the request, whichever it was.
Invalidates(r, w) ==
    /\ pc[r] = "refresh"
    /\ cache' = [cache EXCEPT ![w] = NoModel]
    /\ Ends(r)
    /\ UNCHANGED <<rows, active, files, old, scored>>

Fails(r) ==
    /\ pc[r] \notin {"idle", "done"}
    /\ Ends(r)
    /\ UNCHANGED <<rows, active, files, old, cache, scored>>

\* Mutant: the cached model is used whatever the table says.
HitsAny(w, m) == cache[w] # NoModel

Hits(w, m) == cache[w] = m

Loadable(m) == m \in files \ old

\* get_active_model with the scoring that follows.  A single active row is
\* expected; the cache is asked for its id, and filled from the file.
Score(r, w) ==
    /\ pc[r] = "idle"
    /\ \/ \E m \in active :
          /\ active = {m}
          /\ \/ Hits(w, m) /\ scored' = [scored EXCEPT ![r] = cache[w]] /\ UNCHANGED cache
             \/ /\ ~Hits(w, m) /\ Loadable(m)
                /\ cache' = [cache EXCEPT ![w] = m]
                /\ scored' = [scored EXCEPT ![r] = m]
             \/ ~Hits(w, m) /\ ~Loadable(m) /\ UNCHANGED <<cache, scored>>
       \/ Cardinality(active) # 1 /\ UNCHANGED <<cache, scored>>
    /\ Goto(r, "done")
    /\ UNCHANGED <<rows, active, files, old, call, swept>>

Next ==
    \E r \in Requests :
        \/ \E m \in Models, activate \in BOOLEAN : Train(r, m, activate)
        \/ \E m \in rows : Begin(r, m, "activate") \/ Begin(r, m, "unlink")
        \/ Begin(r, NoModel, "clear")
        \/ Saves(r) \/ Inserts(r) \/ Evaluates(r) \/ Checks(r)
        \/ ActivateSweeps(r) \/ ActivateCommits(r)
        \/ DeactivateSweeps(r) \/ DeactivateCommits(r)
        \/ Unlinks(r) \/ Deletes(r) \/ Fails(r)
        \/ \E w \in Workers : Invalidates(r, w) \/ Score(r, w)

Spec == Init /\ [][Next]_vars

-----------------------------------------------------------------------------
(***************************************************************************)
(* At most one model is active, however activations, deactivations,        *)
(* trainings and deletions interleave: get_active_model asks for one row   *)
(* and would fail on two, in every request that scores.                    *)
(***************************************************************************)
OneActive == \A m, n \in active : m = n

(***************************************************************************)
(* A request scores with the model that is active when it asks, also on a  *)
(* worker whose cache nobody invalidated after the switch.                 *)
(***************************************************************************)
ScoresWithActive == \A r \in Requests : scored'[r] # scored[r] => scored'[r] \in active

ScoredWasActive == [][ScoresWithActive]_vars
=============================================================================
