----------------------------- MODULE AuditChain -----------------------------
(***************************************************************************)
(* The hash-chained audit log of services/audit: several processes (three  *)
(* gunicorn workers and the scheduler worker) append rows to one           *)
(* audit_logs table.  Each process is one asyncio event loop with its own  *)
(* _WRITE_LOCK and its own connection pool, so within a process the calls  *)
(* of record() interleave at every await, and between processes nothing    *)
(* but the primary key of the table orders them.                           *)
(*                                                                         *)
(* A task is one call of record(), with the request or job around it:      *)
(*   "http"    a mutating request recorded by AuditMiddleware.dispatch,    *)
(*             after its handler committed, in a session of its own;       *)
(*   "login"   a login attempt: _record_attempt calls auth_event in the    *)
(*             session that also carries the attempt and the user row;     *)
(*   "anchor"  create_anchor, from the scheduler job or POST /audit/anchor.*)
(*                                                                         *)
(* A SELECT sees what is committed when it runs (READ COMMITTED), and the  *)
(* commit of record() is one atomic step.  SHA-256 is taken as free of     *)
(* collisions: a digest is the pair of values it was computed from.        *)
(***************************************************************************)
EXTENDS Naturals, FiniteSets

CONSTANTS
    Procs,      \* operating-system processes
    Tasks,      \* calls of record() (the bound of the model: each runs once)
    PoolSize,   \* connections one process may check out at a time
    NoTask      \* "nobody holds the lock"

ASSUME PoolAssumption == PoolSize \in Nat \ {0}
ASSUME NoTaskAssumption == NoTask \notin Tasks

VARIABLES
    kind,       \* task -> which of the three callers it is
    home,       \* task -> the process that runs it
    log,        \* the audit_logs table: primary key seq -> row
    writeLock,  \* process -> the task inside `async with _WRITE_LOCK`
    conn,       \* task -> does its session hold a connection of the pool
    pc,         \* task -> where it stands
    head,       \* task -> what _head() returned inside record()
    anchored,   \* task -> what _head() returned to create_anchor
    effect,     \* task -> the state change of its request
    reply       \* task -> what the caller was answered

vars == <<kind, home, log, writeLock, conn, pc, head, anchored, effect, reply>>

-----------------------------------------------------------------------------
(* The table and its rows. *)

\* "0" * 64: not the digest of any row.
GENESIS_HASH == <<>>

\* sha256(canonical(core) + prev_hash), with core = seq and what happened.
Digest(core, prevHash) == <<core, prevHash>>

RowHash(seq, entry, prevHash) == Digest(<<seq, entry>>, prevHash)

\* The row built by record() from the head it read and the facts it records.
Row(seq, entry, prevHash) ==
    [seq |-> seq, entry |-> entry, prev_hash |-> prevHash,
     row_hash |-> RowHash(seq, entry, prevHash)]

\* The row with the greatest seq, or (0, GENESIS_HASH) for an empty table.
HeadOf(table) ==
    IF DOMAIN table = {}
    THEN [seq |-> 0, hash |-> GENESIS_HASH]
    ELSE LET last == CHOOSE s \in DOMAIN table : \A r \in DOMAIN table : r <= s
         IN  [seq |-> last, hash |-> table[last].row_hash]

NoHead == [seq |-> 0, hash |-> GENESIS_HASH]

Insert(table, row) ==
    [s \in DOMAIN table \cup {row.seq} |-> IF s = row.seq THEN row ELSE table[s]]

\* What a row says: who wrote it and, for an anchor, the head it names (meta).
Entry(t) == [by |-> t, names |-> anchored[t]]

-----------------------------------------------------------------------------
(* verify_chain: recompute the rows from start on, report the first mismatch. *)

\* Mutant: the links are compared, the rows are not recomputed.
VerifyLinks(table, start) ==
    LET rows == {s \in DOMAIN table : s >= start}
        broken == {s \in rows : s - 1 \in rows /\ table[s].prev_hash # table[s - 1].row_hash}
    IN  [checked |-> Cardinality(rows), ok |-> broken = {},
         break_at |-> IF broken = {} THEN 0
                      ELSE CHOOSE s \in broken : \A r \in broken : s <= r]

\* The first row read is linked to the genesis hash, or taken on trust when the
\* check does not start at the beginning.
VerifyChain(table, start) ==
    LET rows == {s \in DOMAIN table : s >= start}
        first == CHOOSE s \in rows : \A r \in rows : s <= r
        before(s) == CHOOSE r \in rows : r < s /\ \A q \in rows : q < s => q <= r
        prev(s) == IF s # first THEN table[before(s)].row_hash
                   ELSE IF start <= 1 THEN GENESIS_HASH
                   ELSE table[s].prev_hash
        broken == {s \in rows : \/ RowHash(table[s].seq, table[s].entry, prev(s))
                                       # table[s].row_hash
                                \/ table[s].prev_hash # prev(s)}
    IN  [checked |-> Cardinality(rows),
         ok |-> broken = {},
         break_at |-> IF broken = {} THEN 0
                      ELSE CHOOSE s \in broken : \A r \in broken : s <= r]

-----------------------------------------------------------------------------
(* Connections and the end of a task. *)

FreeConn(t) ==
    Cardinality({u \in Tasks : home[u] = home[t] /\ conn[u]}) < PoolSize

Holds(t) == writeLock[home[t]] = t

Release(t) == writeLock' = [writeLock EXCEPT ![home[t]] = NoTask]

SetConn(t, b) == conn' = [conn EXCEPT ![t] = b]

Goto(t, label) == pc' = [pc EXCEPT ![t] = label]

Finished == {"done", "dead"}

Init ==
    /\ kind \in [Tasks -> {"http", "login", "anchor"}]
    /\ home \in [Tasks -> Procs]
    /\ log = [s \in {} |-> NoHead]
    /\ writeLock = [p \in Procs |-> NoTask]
    /\ conn = [t \in Tasks |-> FALSE]
    /\ pc = [t \in Tasks |-> "idle"]
    /\ head = [t \in Tasks |-> NoHead]
    /\ anchored = [t \in Tasks |-> NoHead]
    /\ effect = [t \in Tasks |-> "none"]
    /\ reply = [t \in Tasks |-> "none"]

-----------------------------------------------------------------------------
(* The callers of record(). *)

\* A handler commits its change, in a session that is closed again before the
\* middleware runs; the response is on its way but not yet sent.
HandlerCommits(t) ==
    /\ kind[t] = "http" /\ pc[t] = "idle" /\ FreeConn(t)
    /\ effect' = [effect EXCEPT ![t] = "durable"]
    /\ Goto(t, "wait_lock")
    /\ UNCHANGED <<kind, home, log, writeLock, conn, head, anchored, reply>>

\* The handler refuses the request (4xx): nothing changes, the middleware
\* records it all the same.
HandlerRefuses(t) ==
    /\ kind[t] = "http" /\ pc[t] = "idle"
    /\ Goto(t, "wait_lock")
    /\ UNCHANGED <<kind, home, log, writeLock, conn, head, anchored, effect, reply>>

\* The handler answers 5xx, or raises, before or after a commit of its own:
\* dispatch returns without recording anything.
HandlerFails(t) ==
    /\ kind[t] = "http" /\ pc[t] = "idle"
    /\ effect' \in {effect, [effect EXCEPT ![t] = "durable"]}
    /\ reply' = [reply EXCEPT ![t] = "error"]
    /\ Goto(t, "done")
    /\ UNCHANGED <<kind, home, log, writeLock, conn, head, anchored>>

\* Mutant: authenticate commits the attempt before it records it.
LoginCommitsFirst(t) ==
    /\ kind[t] = "login" /\ pc[t] = "idle" /\ FreeConn(t)
    /\ SetConn(t, TRUE)
    /\ effect' = [effect EXCEPT ![t] = "durable"]
    /\ Goto(t, "wait_lock")
    /\ UNCHANGED <<kind, home, log, writeLock, head, anchored, reply>>

\* authenticate reads the user, which checks a connection out, and stages the
\* attempt and the counters in the same session.
LoginReads(t) ==
    /\ kind[t] = "login" /\ pc[t] = "idle" /\ FreeConn(t)
    /\ SetConn(t, TRUE)
    /\ effect' = [effect EXCEPT ![t] = "staged"]
    /\ Goto(t, "wait_lock")
    /\ UNCHANGED <<kind, home, log, writeLock, head, anchored, reply>>

\* Mutant: the anchor names the row it is about to become.
AnchorReadsNext(t) ==
    /\ kind[t] = "anchor" /\ pc[t] = "idle" /\ FreeConn(t)
    /\ SetConn(t, TRUE)
    /\ anchored' = [anchored EXCEPT ![t] = [HeadOf(log) EXCEPT !.seq = @ + 1]]
    /\ Goto(t, "wait_lock")
    /\ UNCHANGED <<kind, home, log, writeLock, head, effect, reply>>

\* create_anchor reads the head it is going to name before it takes the lock.
AnchorReads(t) ==
    /\ kind[t] = "anchor" /\ pc[t] = "idle" /\ FreeConn(t)
    /\ SetConn(t, TRUE)
    /\ anchored' = [anchored EXCEPT ![t] = HeadOf(log)]
    /\ Goto(t, "wait_lock")
    /\ UNCHANGED <<kind, home, log, writeLock, head, effect, reply>>

-----------------------------------------------------------------------------
(* record() *)

\* The lock is one of the process: asyncio.Lock at module level.
AcquireLock(t) ==
    /\ pc[t] = "wait_lock"
    /\ writeLock[home[t]] = NoTask
    /\ writeLock' = [writeLock EXCEPT ![home[t]] = t]
    /\ Goto(t, "read_head")
    /\ UNCHANGED <<kind, home, log, conn, head, anchored, effect, reply>>

\* _head(session): a session that has no connection yet checks one out.
ReadHead(t) ==
    /\ pc[t] = "read_head"
    /\ conn[t] \/ FreeConn(t)
    /\ SetConn(t, TRUE)
    /\ head' = [head EXCEPT ![t] = HeadOf(log)]
    /\ Goto(t, "commit")
    /\ UNCHANGED <<kind, home, log, writeLock, anchored, effect, reply>>

\* Mutant: seq is not a key, the later row replaces the earlier.
CommitRowUnkeyed(t) ==
    /\ pc[t] = "commit"
    /\ log' = Insert(log, Row(head[t].seq + 1, Entry(t), head[t].hash))
    /\ effect' = [effect EXCEPT ![t] = IF @ = "staged" THEN "durable" ELSE @]
    /\ SetConn(t, FALSE)
    /\ Goto(t, "refresh")
    /\ UNCHANGED <<kind, home, writeLock, head, anchored, reply>>

\* session.commit() inserts the row, with whatever else the session carries,
\* and hands the connection back.
CommitRow(t) ==
    /\ pc[t] = "commit"
    /\ head[t].seq + 1 \notin DOMAIN log
    /\ log' = Insert(log, Row(head[t].seq + 1, Entry(t), head[t].hash))
    /\ effect' = [effect EXCEPT ![t] = IF @ = "staged" THEN "durable" ELSE @]
    /\ SetConn(t, FALSE)
    /\ Goto(t, "refresh")
    /\ UNCHANGED <<kind, home, writeLock, head, anchored, reply>>

\* Mutant: the staged attempt outlives the rollback of its audit row.
ConflictKeepsAttempt(t) ==
    /\ pc[t] = "commit"
    /\ head[t].seq + 1 \in DOMAIN log
    /\ effect' = [effect EXCEPT ![t] = IF @ = "staged" THEN "durable" ELSE @]
    /\ SetConn(t, FALSE)
    /\ Release(t)
    /\ Goto(t, "conflict")
    /\ UNCHANGED <<kind, home, log, head, anchored, reply>>

\* Another process inserted that seq first: IntegrityError, the transaction is
\* rolled back with everything staged in it, and record() raises.
CommitConflict(t) ==
    /\ pc[t] = "commit"
    /\ head[t].seq + 1 \in DOMAIN log
    /\ effect' = [effect EXCEPT ![t] = IF @ = "staged" THEN "lost" ELSE @]
    /\ SetConn(t, FALSE)
    /\ Release(t)
    /\ Goto(t, "conflict")
    /\ UNCHANGED <<kind, home, log, head, anchored, reply>>

\* session.refresh(row), still under the lock, checks a connection out again.
RefreshRow(t) ==
    /\ pc[t] = "refresh"
    /\ FreeConn(t)
    /\ SetConn(t, TRUE)
    /\ Release(t)
    /\ Goto(t, "recorded")
    /\ UNCHANGED <<kind, home, log, head, anchored, effect, reply>>

\* Mutant: a pool without a timeout.
PoolWaits(t) == FALSE /\ UNCHANGED vars

\* The pool has nothing to give within its timeout: the statement raises.  A
\* request that has not begun is answered 500, record() raises under the lock.
PoolTimeout(t) ==
    /\ ~FreeConn(t)
    /\ \/ /\ pc[t] = "idle" /\ kind[t] \in {"login", "anchor"}
          /\ reply' = [reply EXCEPT ![t] = "error"]
          /\ Goto(t, "done")
          /\ UNCHANGED writeLock
       \/ /\ ~conn[t] /\ pc[t] \in {"read_head", "refresh"}
          /\ Release(t)
          /\ Goto(t, "raised")
          /\ UNCHANGED reply
    /\ UNCHANGED <<kind, home, log, conn, head, anchored, effect>>

-----------------------------------------------------------------------------
(* After record(): returned, raised, or raised with the session's           *)
(* transaction deactivated by the failed flush ("conflict").                *)

\* dispatch swallows every exception and returns the handler's response.
MiddlewareReturns(t) ==
    /\ kind[t] = "http" /\ pc[t] \in {"recorded", "raised", "conflict"}
    /\ reply' = [reply EXCEPT ![t] = "ok"]
    /\ SetConn(t, FALSE)
    /\ Goto(t, "done")
    /\ UNCHANGED <<kind, home, log, writeLock, head, anchored, effect>>

\* _safe swallows the exception; the session.commit() of authenticate then
\* succeeds, or raises PendingRollbackError when the flush had failed.
LoginReturns(t) ==
    /\ kind[t] = "login" /\ pc[t] \in {"recorded", "raised", "conflict"}
    /\ reply' = [reply EXCEPT ![t] = IF pc[t] = "conflict" THEN "error" ELSE "ok"]
    /\ SetConn(t, FALSE)
    /\ Goto(t, "done")
    /\ UNCHANGED <<kind, home, log, writeLock, head, anchored, effect>>

\* create_anchor lets the exception out: 500, or a job_failed warning.
AnchorReturns(t) ==
    /\ kind[t] = "anchor" /\ pc[t] \in {"recorded", "raised", "conflict"}
    /\ reply' = [reply EXCEPT ![t] = IF pc[t] = "recorded" THEN "ok" ELSE "error"]
    /\ SetConn(t, FALSE)
    /\ Goto(t, "done")
    /\ UNCHANGED <<kind, home, log, writeLock, head, anchored, effect>>

\* A worker dies (gunicorn --timeout, OOM, redeploy) with the tasks it was
\* running; its lock and its pool were memory, its open transactions roll back.
Running(p) == {t \in Tasks : home[t] = p /\ pc[t] \notin Finished \cup {"idle"}}

Crash(p) ==
    /\ Running(p) # {}
    /\ pc' = [t \in Tasks |-> IF t \in Running(p) THEN "dead" ELSE pc[t]]
    /\ conn' = [t \in Tasks |-> conn[t] /\ t \notin Running(p)]
    /\ effect' = [t \in Tasks |-> IF t \in Running(p) /\ effect[t] = "staged"
                                  THEN "lost" ELSE effect[t]]
    /\ writeLock' = [writeLock EXCEPT ![p] = NoTask]
    /\ UNCHANGED <<kind, home, log, head, anchored, reply>>

Terminated ==
    /\ \A t \in Tasks : pc[t] \in Finished
    /\ UNCHANGED vars

Step(t) ==
    \/ HandlerCommits(t) \/ HandlerRefuses(t) \/ HandlerFails(t)
    \/ LoginReads(t) \/ AnchorReads(t)
    \/ AcquireLock(t) \/ ReadHead(t) \/ CommitRow(t) \/ CommitConflict(t)
    \/ RefreshRow(t) \/ PoolTimeout(t)
    \/ MiddlewareReturns(t) \/ LoginReturns(t) \/ AnchorReturns(t)

Next ==
    \/ \E t \in Tasks : Step(t)
    \/ \E p \in Procs : Crash(p)
    \/ Terminated

Spec == Init /\ [][Next]_vars

\* The event loop runs every ready task and the pool's timeout always expires.
\* Nothing obliges a request to arrive, nor a process to crash.
Progress(t) == pc[t] # "idle" /\ Step(t)

FairSpec == Spec /\ \A t \in Tasks : WF_vars(Progress(t))

-----------------------------------------------------------------------------
(* Properties. *)

Labels == {"idle", "wait_lock", "read_head", "commit", "refresh",
           "recorded", "raised", "conflict", "done", "dead"}

TypeOK ==
    /\ kind \in [Tasks -> {"http", "login", "anchor"}]
    /\ home \in [Tasks -> Procs]
    /\ DOMAIN log \subseteq Nat \ {0}
    /\ \A s \in DOMAIN log : log[s].entry.by \in Tasks
    /\ writeLock \in [Procs -> Tasks \cup {NoTask}]
    /\ conn \in [Tasks -> BOOLEAN]
    /\ pc \in [Tasks -> Labels]
    /\ DOMAIN head = Tasks /\ \A t \in Tasks : head[t].seq \in Nat
    /\ DOMAIN anchored = Tasks /\ \A t \in Tasks : anchored[t].seq \in Nat
    /\ effect \in [Tasks -> {"none", "staged", "durable", "lost"}]
    /\ reply \in [Tasks -> {"none", "ok", "error"}]

Recorded(t) == \E s \in DOMAIN log : log[s].entry.by = t

InSection(t) == pc[t] \in {"read_head", "commit", "refresh"}

\* A task is between the two ends of `async with _WRITE_LOCK` exactly when its
\* process's lock says so, whatever raised or crashed on the way out.
LockDiscipline == \A t \in Tasks : InSection(t) <=> Holds(t)

\* verify_chain accepts the table from every start_seq at every moment,
\* however many processes append to it: no interleaving of the code's own
\* writers looks like tampering.
ChainVerifies ==
    \A start \in 0 .. HeadOf(log).seq + 1 : VerifyChain(log, start).ok

\* What a lock of one process buys: the rows committed after a task read the
\* head it is about to extend were all committed by other processes.
StaleOnlyByOthers ==
    \A t \in Tasks : pc[t] = "commit" =>
        \A s \in DOMAIN log : s > head[t].seq => home[log[s].entry.by] # home[t]

\* An anchor names a head that was really in the log before it, although
\* create_anchor reads that head outside the lock.
AnchorsTrue ==
    \A s \in DOMAIN log :
        LET named == log[s].entry.names
        IN  /\ named.seq < s
            /\ \/ named = NoHead
               \/ named.seq \in DOMAIN log /\ log[named.seq].row_hash = named.hash

\* A login attempt's counters and its audit row are committed together or not
\* at all: an attempt that counted is in the log, and the other way round.
LoginAtomic ==
    \A t \in Tasks : kind[t] = "login" => (Recorded(t) <=> effect[t] = "durable")

\* chain.py:80 "callers should not fail on audit errors": a login whose audit
\* row lost the race for its seq is still answered.
LoginSurvivesAuditError ==
    \A t \in Tasks : kind[t] = "login" /\ effect[t] = "lost" => reply[t] # "error"

\* Rows are never updated or deleted: a step keeps every row and adds at most
\* one, right after the newest.
RowsKept ==
    /\ \A s \in DOMAIN log : s \in DOMAIN log' /\ log'[s] = log[s]
    /\ DOMAIN log' \subseteq DOMAIN log \cup {HeadOf(log).seq + 1}

AppendOnly == [][RowsKept]_vars

\* A recorded request's bookkeeping always comes to an end, also when logins
\* hold every connection while they wait for the lock and the lock's holder
\* waits for a connection: the pool's timeout breaks the circle.
TasksFinish ==
    \A t \in Tasks : pc[t] = "wait_lock" ~> pc[t] \in Finished
-----------------------------------------------------------------------------
(* The inductive strengthening of the invariants above.                    *)

\* A head that was read is GENESIS or a row that is still there.
Names(h, table) ==
    \/ h = NoHead
    \/ h.seq \in DOMAIN table /\ h = [seq |-> h.seq, hash |-> table[h.seq].row_hash]

\* Sequence numbers have no gap and every row is built from its predecessor.
Chained(table) ==
    LET n == HeadOf(table).seq
    IN  /\ n \in Nat
        /\ DOMAIN table = 1 .. n
        /\ \A s \in 1 .. n :
             table[s] = Row(s, table[s].entry,
                            IF s = 1 THEN GENESIS_HASH ELSE table[s - 1].row_hash)

ChainShape == Chained(log)

HeadsReal == \A t \in Tasks : Names(head[t], log) /\ Names(anchored[t], log)

NotYetCommitted == {"idle", "wait_lock", "read_head", "commit"}

\* Where a login stands decides the fate of what it staged; until its commit
\* it keeps the connection it read the user with.
LoginStages ==
    \A t \in Tasks :
        /\ pc[t] \in NotYetCommitted => ~Recorded(t)
        /\ pc[t] = "idle" => effect[t] = "none"
        /\ kind[t] # "login" => effect[t] \in {"none", "durable"}
        /\ kind[t] = "login" =>
            /\ pc[t] \in {"wait_lock", "read_head", "commit"} =>
                  effect[t] = "staged" /\ conn[t]
            /\ pc[t] \in {"refresh", "recorded", "raised"} =>
                  effect[t] = "durable" /\ Recorded(t)
            /\ pc[t] = "conflict" => effect[t] = "lost" /\ ~Recorded(t)
            /\ pc[t] \in Finished => (effect[t] = "durable" <=> Recorded(t))
            /\ pc[t] \in Finished => effect[t] # "staged"

-----------------------------------------------------------------------------
\* The code implements the abstract log, read off the table and the effects.
Abstract == INSTANCE AuditLog WITH
    logins <- {t \in Tasks : kind[t] = "login"},
    written <- [s \in DOMAIN log |-> log[s].entry.by],
    durable <- {t \in Tasks : effect[t] = "durable"}

ImplementsAuditLog == Abstract!Spec
=============================================================================
