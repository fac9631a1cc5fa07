-------------------------- MODULE AuditChainProofs --------------------------
(***************************************************************************)
(* Proofs about AuditChain, for any number of processes, calls of record() *)
(* and pooled connections.                                                 *)
(***************************************************************************)
EXTENDS MCAuditChain, SequenceTheorems, TLAPS

\* A step of one task, or the crash of a process, or the end: the shape every
\* proof below splits on.
LEMMA StepCases ==
    ASSUME [Next]_vars
    PROVE  \/ \E t \in Tasks : Step(t)
           \/ \E p \in Procs : Crash(p)
           \/ UNCHANGED vars
BY DEF Next, Terminated

-----------------------------------------------------------------------------
(* Facts about the table. *)

LEMMA HeadOfSegment ==
    ASSUME NEW table, NEW n \in Nat, DOMAIN table = 1 .. n
    PROVE  HeadOf(table) =
             [seq |-> n, hash |-> IF n = 0 THEN GENESIS_HASH ELSE table[n].row_hash]
<1>1. CASE n = 0
  BY <1>1 DEF HeadOf
<1>2. CASE n # 0
  <2>1. n \in DOMAIN table /\ \A r \in DOMAIN table : r <= n
    BY <1>2
  <2>2. \A s \in DOMAIN table : (\A r \in DOMAIN table : r <= s) => s = n
    BY <2>1
  <2>3. (CHOOSE s \in DOMAIN table : \A r \in DOMAIN table : r <= s) = n
    BY <2>1, <2>2
  <2>. QED
    BY <1>2, <2>1, <2>3 DEF HeadOf
<1>. QED
  BY <1>1, <1>2

LEMMA RowFields ==
    ASSUME NEW s, NEW e, NEW h
    PROVE  /\ Row(s, e, h).seq = s
           /\ Row(s, e, h).entry = e
           /\ Row(s, e, h).prev_hash = h
           /\ Row(s, e, h).row_hash = RowHash(s, e, h)
BY DEF Row

\* Inserting after a head that is still in a gapless table lengthens it by one.
LEMMA AppendShape ==
    ASSUME NEW table, NEW e, NEW h,
           Chained(table), Names(h, table), h.seq + 1 \notin DOMAIN table
    PROVE  LET new == Insert(table, Row(h.seq + 1, e, h.hash))
               n == HeadOf(table).seq
           IN  /\ h.seq = n
               /\ HeadOf(new).seq = n + 1
               /\ DOMAIN new = 1 .. (n + 1)
               /\ \A s \in DOMAIN table : new[s] = table[s]
               /\ new[n + 1] = Row(n + 1, e, h.hash)
               /\ Chained(new)
<1> DEFINE n == HeadOf(table).seq
           row == Row(h.seq + 1, e, h.hash)
           new == Insert(table, row)
<1>1. n \in Nat /\ DOMAIN table = 1 .. n
  BY DEF Chained
<1>2. HeadOf(table) =
        [seq |-> n, hash |-> IF n = 0 THEN GENESIS_HASH ELSE table[n].row_hash]
  BY <1>1, HeadOfSegment
<1>3. h.seq = n /\ h.hash = IF n = 0 THEN GENESIS_HASH ELSE table[n].row_hash
  BY <1>1, <1>2 DEF Names, NoHead
<1>4. row.seq = n + 1
  BY <1>3 DEF Row
<1>5. row.seq \notin DOMAIN table
  BY <1>3, <1>4
<1> HIDE DEF row
<1>6. /\ DOMAIN new = DOMAIN table \cup {n + 1}
      /\ new[n + 1] = row
      /\ \A s \in DOMAIN table : new[s] = table[s]
  BY <1>4, <1>5 DEF Insert
<1> HIDE DEF new, n
<1>7. DOMAIN new = 1 .. (n + 1)
  BY <1>1, <1>6
<1>8. HeadOf(new).seq = n + 1
  BY <1>1, <1>7, HeadOfSegment
<1>9. ASSUME NEW s \in 1 .. (n + 1)
      PROVE  new[s] = Row(s, new[s].entry,
                          IF s = 1 THEN GENESIS_HASH ELSE new[s - 1].row_hash)
  <2>1. CASE s = n + 1
    <3>1. h.hash = IF s = 1 THEN GENESIS_HASH ELSE new[s - 1].row_hash
      BY <1>1, <1>3, <1>6, <2>1
    <3>2. new[s] = Row(s, e, h.hash)
      BY <1>3, <1>6, <2>1 DEF row
    <3>3. new[s].entry = e
      BY <3>2 DEF Row
    <3>. QED
      BY <3>1, <3>2, <3>3
  <2>2. CASE s \in 1 .. n
    <3>1. table[s] = Row(s, table[s].entry,
                         IF s = 1 THEN GENESIS_HASH ELSE table[s - 1].row_hash)
      BY <2>2 DEF Chained, n
    <3>2. new[s] = table[s] /\ (s # 1 => new[s - 1] = table[s - 1])
      BY <1>1, <1>6, <2>2
    <3>. QED
      BY <3>1, <3>2
  <2>. QED
    BY <1>1, <2>1, <2>2
<1>10. Chained(new)
  BY <1>1, <1>7, <1>8, <1>9 DEF Chained
<1>. QED
  BY <1>3, <1>6, <1>7, <1>8, <1>10 DEF row, new, n

-----------------------------------------------------------------------------
(* Types. *)

LEMMA TypeStep ==
    ASSUME TypeOK, ChainShape, NEW t \in Tasks, Step(t)
    PROVE  TypeOK'
<1>0. HeadOf(log).seq \in Nat
  BY DEF ChainShape, Chained
<1> USE DEF TypeOK, Labels, Goto, SetConn, Release
<1>1. CASE HandlerCommits(t)
  BY <1>1 DEF HandlerCommits
<1>2. CASE HandlerRefuses(t)
  BY <1>2 DEF HandlerRefuses
<1>3. CASE HandlerFails(t)
  BY <1>3 DEF HandlerFails
<1>4. CASE LoginReads(t)
  BY <1>4 DEF LoginReads
<1>5. CASE AnchorReads(t)
  BY <1>0, <1>5 DEF AnchorReads
<1>6. CASE AcquireLock(t)
  BY <1>6 DEF AcquireLock
<1>7. CASE ReadHead(t)
  BY <1>0, <1>7 DEF ReadHead
<1>8. CASE CommitRow(t)
  BY <1>8 DEF CommitRow, Insert, Row, Entry
<1>9. CASE CommitConflict(t)
  BY <1>9 DEF CommitConflict
<1>10. CASE RefreshRow(t)
  BY <1>10 DEF RefreshRow
<1>11. CASE PoolTimeout(t)
  BY <1>11 DEF PoolTimeout
<1>12. CASE MiddlewareReturns(t)
  BY <1>12 DEF MiddlewareReturns
<1>13. CASE LoginReturns(t)
  BY <1>13 DEF LoginReturns
<1>14. CASE AnchorReturns(t)
  BY <1>14 DEF AnchorReturns
<1>. QED
  BY <1>1, <1>2, <1>3, <1>4, <1>5, <1>6, <1>7, <1>8, <1>9, <1>10, <1>11, <1>12,
     <1>13, <1>14 DEF Step

LEMMA TypeCrash ==
    ASSUME TypeOK, NEW p \in Procs, Crash(p)
    PROVE  TypeOK'
BY DEF TypeOK, Labels, Crash, Running, Finished

-----------------------------------------------------------------------------
(* The table: gapless, linked, and every head that was read still in it.   *)

TableInv == TypeOK /\ ChainShape /\ HeadsReal

\* Only CommitRow touches the table, and what it does to it is an append.
LEMMA CommitAppends ==
    ASSUME TableInv, NEW t \in Tasks, CommitRow(t)
    PROVE  LET n == HeadOf(log).seq
           IN  /\ n \in Nat
               /\ head[t].seq = n
               /\ DOMAIN log = 1 .. n
               /\ DOMAIN log' = 1 .. (n + 1)
               /\ \A s \in DOMAIN log : log'[s] = log[s]
               /\ log'[n + 1] = Row(n + 1, Entry(t), head[t].hash)
               /\ HeadOf(log').seq = n + 1
               /\ Chained(log')
<1>1. Chained(log) /\ Names(head[t], log)
  BY DEF TableInv, ChainShape, HeadsReal
<1>2. HeadOf(log).seq \in Nat /\ DOMAIN log = 1 .. HeadOf(log).seq
  BY <1>1 DEF Chained
<1>3. /\ head[t].seq + 1 \notin DOMAIN log
      /\ log' = Insert(log, Row(head[t].seq + 1, Entry(t), head[t].hash))
  BY DEF CommitRow
<1> DEFINE new == Insert(log, Row(head[t].seq + 1, Entry(t), head[t].hash))
           n == HeadOf(log).seq
<1>4. /\ head[t].seq = n
      /\ HeadOf(new).seq = n + 1
      /\ DOMAIN new = 1 .. (n + 1)
      /\ \A s \in DOMAIN log : new[s] = log[s]
      /\ new[n + 1] = Row(n + 1, Entry(t), head[t].hash)
      /\ Chained(new)
  BY <1>1, <1>3, AppendShape
<1>5. log' = new
  BY <1>3
<1> HIDE DEF new
<1>. QED
  BY <1>2, <1>4, <1>5

LEMMA NamesKept ==
    ASSUME NEW h, NEW old, NEW new, Names(h, old),
           DOMAIN old \subseteq DOMAIN new, \A s \in DOMAIN old : new[s] = old[s]
    PROVE  Names(h, new)
BY DEF Names

LEMMA HeadIsNamed ==
    ASSUME ChainShape
    PROVE  Names(HeadOf(log), log)
<1>1. HeadOf(log).seq \in Nat /\ DOMAIN log = 1 .. HeadOf(log).seq
  BY DEF ChainShape, Chained
<1>2. HeadOf(log) = [seq |-> HeadOf(log).seq,
                     hash |-> IF HeadOf(log).seq = 0 THEN GENESIS_HASH
                              ELSE log[HeadOf(log).seq].row_hash]
  BY <1>1, HeadOfSegment
<1>3. CASE HeadOf(log).seq = 0
  BY <1>2, <1>3 DEF Names, NoHead
<1>4. CASE HeadOf(log).seq # 0
  BY <1>1, <1>2, <1>4 DEF Names
<1>. QED
  BY <1>3, <1>4

\* Every other step leaves the table alone and reads heads from it.
LEMMA QuietStep ==
    ASSUME TypeOK, NEW t \in Tasks, Step(t), ~CommitRow(t)
    PROVE  /\ log' = log
           /\ \A u \in Tasks : head'[u] \in {head[u], HeadOf(log)}
           /\ \A u \in Tasks : anchored'[u] \in {anchored[u], HeadOf(log)}
BY DEF TypeOK, Step, HandlerCommits, HandlerRefuses, HandlerFails, LoginReads,
       AnchorReads, AcquireLock, ReadHead, CommitConflict, RefreshRow, PoolTimeout,
       MiddlewareReturns, LoginReturns, AnchorReturns

LEMMA TableStep == TableInv /\ [Next]_vars => TableInv'
<1> SUFFICES ASSUME TableInv, [Next]_vars PROVE TableInv'
  OBVIOUS
<1> USE DEF TableInv
<1>1. ASSUME NEW t \in Tasks, Step(t) PROVE TableInv'
  <2>1. TypeOK'
    BY <1>1, TypeStep
  <2>2. CASE CommitRow(t)
    <3>1. ChainShape'
      BY <2>2, CommitAppends DEF ChainShape
    <3>2. DOMAIN log \subseteq DOMAIN log' /\ \A s \in DOMAIN log : log'[s] = log[s]
      BY <2>2, CommitAppends
    <3>3. head' = head /\ anchored' = anchored
      BY <2>2 DEF CommitRow
    <3>4. HeadsReal'
      BY <3>2, <3>3, NamesKept DEF HeadsReal
    <3>. QED
      BY <2>1, <3>1, <3>4
  <2>3. CASE ~CommitRow(t)
    <3>1. log' = log
      BY <1>1, <2>3, QuietStep
    <3>2. \A u \in Tasks : /\ head'[u] \in {head[u], HeadOf(log)}
                          /\ anchored'[u] \in {anchored[u], HeadOf(log)}
      BY <1>1, <2>3, QuietStep
    <3>3. HeadsReal'
      BY <3>1, <3>2, HeadIsNamed DEF HeadsReal
    <3>. QED
      BY <2>1, <3>1, <3>3 DEF ChainShape
  <2>. QED
    BY <2>2, <2>3
<1>2. ASSUME NEW p \in Procs, Crash(p) PROVE TableInv'
  BY <1>2, TypeCrash DEF Crash, ChainShape, HeadsReal
<1>3. CASE UNCHANGED vars
  BY <1>3 DEF vars, TypeOK, ChainShape, HeadsReal
<1>. QED
  BY <1>1, <1>2, <1>3, StepCases

LEMMA TableInit == Init => TableInv
<1> SUFFICES ASSUME Init PROVE TableInv
  OBVIOUS
<1>1. DOMAIN log = {}
  BY DEF Init
<1>2. HeadOf(log) = NoHead
  BY <1>1 DEF HeadOf, NoHead
<1>3. ChainShape
  BY <1>1, <1>2 DEF ChainShape, Chained, NoHead
<1>4. TypeOK
  BY <1>1 DEF Init, TypeOK, Labels, NoHead
<1>. QED
  BY <1>3, <1>4 DEF Init, TableInv, HeadsReal, Names

LEMMA TableInvariant == Spec => []TableInv
BY TableInit, TableStep, PTL DEF Spec

\* The variables of the model keep their types in every reachable state.
THEOREM TypeCorrect == Spec => []TypeOK
<1>1. TableInv => TypeOK
  BY DEF TableInv
<1>. QED
  BY <1>1, TableInvariant, PTL

-----------------------------------------------------------------------------
(* The lock of each process. *)

LockInv == TypeOK /\ LockDiscipline

LEMMA LockStep ==
    ASSUME LockInv, NEW t \in Tasks, Step(t)
    PROVE  LockDiscipline'
<1> USE NoTaskAssumption
    DEF LockInv, TypeOK, LockDiscipline, InSection, Holds, Release, Goto, SetConn
<1>1. CASE \/ HandlerCommits(t) \/ HandlerRefuses(t) \/ HandlerFails(t)
           \/ LoginReads(t) \/ AnchorReads(t)
  BY <1>1 DEF HandlerCommits, HandlerRefuses, HandlerFails, LoginReads, AnchorReads
<1>2. CASE AcquireLock(t)
  BY <1>2 DEF AcquireLock
<1>3. CASE ReadHead(t) \/ CommitRow(t)
  BY <1>3 DEF ReadHead, CommitRow
<1>4. CASE CommitConflict(t) \/ RefreshRow(t)
  BY <1>4 DEF CommitConflict, RefreshRow
<1>5. CASE PoolTimeout(t)
  BY <1>5 DEF PoolTimeout
<1>6. CASE MiddlewareReturns(t) \/ LoginReturns(t) \/ AnchorReturns(t)
  BY <1>6 DEF MiddlewareReturns, LoginReturns, AnchorReturns
<1>. QED
  BY <1>1, <1>2, <1>3, <1>4, <1>5, <1>6 DEF Step

LEMMA LockCrash ==
    ASSUME LockInv, NEW p \in Procs, Crash(p)
    PROVE  LockDiscipline'
BY NoTaskAssumption
   DEF LockInv, TypeOK, LockDiscipline, InSection, Holds, Crash, Running, Finished

\* The lock of a process is held exactly by the task inside record()'s
\* critical section: mutual exclusion, and no exit that forgets to release.
THEOREM LockDisciplineHolds == Spec => []LockDiscipline
<1>1. Init => LockDiscipline
  BY NoTaskAssumption DEF Init, LockDiscipline, InSection, Holds
<1>2. TypeOK /\ LockDiscipline /\ [Next]_vars => LockDiscipline'
  <2>1. LockDiscipline /\ UNCHANGED vars => LockDiscipline'
    BY DEF LockDiscipline, InSection, Holds, vars
  <2>. QED
    BY <2>1, StepCases, LockStep, LockCrash DEF LockInv
<1>. QED
  BY <1>1, <1>2, TypeCorrect, PTL DEF Spec

-----------------------------------------------------------------------------
(* Freshness of the head inside one process. *)

LEMMA StaleStep ==
    ASSUME TableInv, LockDiscipline, StaleOnlyByOthers, NEW t \in Tasks, Step(t)
    PROVE  StaleOnlyByOthers'
<1> USE DEF TableInv, TypeOK
<1>1. CASE CommitRow(t)
  <2> DEFINE n == HeadOf(log).seq
  <2>1. /\ n \in Nat /\ DOMAIN log = 1 .. n /\ DOMAIN log' = 1 .. (n + 1)
        /\ \A s \in DOMAIN log : log'[s] = log[s]
        /\ log'[n + 1] = Row(n + 1, Entry(t), head[t].hash)
    BY <1>1, CommitAppends
  <2>2. log'[n + 1].entry.by = t
    BY <2>1 DEF Row, Entry
  <2>3. head' = head /\ home' = home /\ pc' = [pc EXCEPT ![t] = "refresh"]
        /\ pc[t] = "commit"
    BY <1>1 DEF CommitRow, Goto
  <2>4. SUFFICES ASSUME NEW u \in Tasks, pc'[u] = "commit",
                        NEW s \in DOMAIN log', s > head[u].seq
                 PROVE  home[log'[s].entry.by] # home[u]
    BY <2>3 DEF StaleOnlyByOthers
  <2>5. u # t /\ pc[u] = "commit"
    BY <2>3, <2>4
  <2>6. CASE s = n + 1
    <3>1. home[t] # home[u]
      BY <2>3, <2>5 DEF LockDiscipline, InSection, Holds
    <3>. QED
      BY <2>2, <2>6, <3>1
  <2>7. CASE s \in DOMAIN log
    BY <2>1, <2>4, <2>5, <2>7 DEF StaleOnlyByOthers
  <2>. QED
    BY <2>1, <2>6, <2>7
<1>2. CASE ReadHead(t)
  <2>1. /\ log' = log /\ home' = home
        /\ head' = [head EXCEPT ![t] = HeadOf(log)]
        /\ pc' = [pc EXCEPT ![t] = "commit"]
    BY <1>2 DEF ReadHead, Goto
  <2>2. HeadOf(log).seq \in Nat /\ DOMAIN log = 1 .. HeadOf(log).seq
    BY DEF ChainShape, Chained
  <2>. QED
    BY <2>1, <2>2 DEF StaleOnlyByOthers
<1>3. CASE ~CommitRow(t) /\ ~ReadHead(t)
  <2>1. log' = log /\ home' = home /\ head' = head
    BY <1>3 DEF Step, HandlerCommits, HandlerRefuses, HandlerFails, LoginReads,
                AnchorReads, AcquireLock, CommitConflict, RefreshRow, PoolTimeout,
                MiddlewareReturns, LoginReturns, AnchorReturns
  <2>2. \A u \in Tasks : pc'[u] = "commit" => pc[u] = "commit"
    BY <1>3 DEF Step, HandlerCommits, HandlerRefuses, HandlerFails, LoginReads,
                AnchorReads, AcquireLock, CommitConflict, RefreshRow, PoolTimeout,
                MiddlewareReturns, LoginReturns, AnchorReturns, Goto
  <2>. QED
    BY <2>1, <2>2 DEF StaleOnlyByOthers
<1>. QED
  BY <1>1, <1>2, <1>3

\* The rows a committing task has not seen come from other processes: within
\* one process _WRITE_LOCK makes reading the head and appending to it atomic.
THEOREM StaleOnlyByOthersHolds == Spec => []StaleOnlyByOthers
<1>1. Init => StaleOnlyByOthers
  BY DEF Init, StaleOnlyByOthers
<1>2. TableInv /\ LockDiscipline /\ StaleOnlyByOthers /\ [Next]_vars => StaleOnlyByOthers'
  <2>1. ASSUME TypeOK, StaleOnlyByOthers, NEW p \in Procs, Crash(p)
        PROVE  StaleOnlyByOthers'
    BY <2>1 DEF TypeOK, StaleOnlyByOthers, Crash
  <2>2. StaleOnlyByOthers /\ UNCHANGED vars => StaleOnlyByOthers'
    BY DEF StaleOnlyByOthers, vars
  <2>. QED
    BY <2>1, <2>2, StepCases, StaleStep DEF TableInv
<1>. QED
  BY <1>1, <1>2, TableInvariant, LockDisciplineHolds, PTL DEF Spec

-----------------------------------------------------------------------------
(* What verify_chain says of the table, and what its anchors say.          *)

\* A gapless, linked table is accepted from every starting point.
LEMMA ChainedVerifies ==
    ASSUME NEW table, Chained(table), NEW start \in Nat
    PROVE  VerifyChain(table, start).ok
<1> DEFINE n == HeadOf(table).seq
           rows == {s \in DOMAIN table : s >= start}
           first == CHOOSE s \in rows : \A r \in rows : s <= r
           before(s) == CHOOSE r \in rows : r < s /\ \A q \in rows : q < s => q <= r
           prev(s) == IF s # first THEN table[before(s)].row_hash
                      ELSE IF start <= 1 THEN GENESIS_HASH
                      ELSE table[s].prev_hash
<1>1. n \in Nat /\ DOMAIN table = 1 .. n
  BY DEF Chained
<1>2. rows \subseteq 1 .. n /\ \A s \in 1 .. n : s >= start => s \in rows
  BY <1>1
<1> HIDE DEF n
<1>3. ASSUME NEW s \in rows
      PROVE  /\ table[s] = Row(s, table[s].entry, table[s].prev_hash)
             /\ table[s].prev_hash =
                  IF s = 1 THEN GENESIS_HASH ELSE table[s - 1].row_hash
  <2> DEFINE link == IF s = 1 THEN GENESIS_HASH ELSE table[s - 1].row_hash
  <2>1. s \in 1 .. n
    BY <1>2
  <2>2. table[s] = Row(s, table[s].entry, link)
    BY <2>1 DEF Chained, n
  <2> HIDE DEF link
  <2>3. table[s].prev_hash = link
    BY <2>2 DEF Row
  <2>. QED
    BY <2>2, <2>3 DEF link
<1>4. ASSUME NEW s \in rows
      PROVE  prev(s) = table[s].prev_hash
  <2>0. s \in 1 .. n /\ s >= start /\ s \in Nat
    BY <1>1, <1>2
  <2>1. CASE s = first
    <3>1. CASE start > 1
      BY <2>0, <2>1, <3>1
    <3>2. CASE start <= 1
      <4>1. 1 \in rows
        BY <1>1, <1>2, <2>0, <3>2
      <4>2. \A r \in rows : 1 <= r
        BY <1>1, <1>2
      <4>3. ASSUME NEW r \in rows, \A q \in rows : r <= q PROVE r = 1
        <5>1. r \in 1 .. n /\ r <= 1
          BY <1>2, <4>1, <4>3
        <5>. QED
          BY <1>1, <5>1
      <4>4. first = 1
        BY <4>1, <4>2, <4>3
      <4>. QED
        BY <1>3, <2>1, <3>2, <4>4
    <3>. QED
      BY <3>1, <3>2
  <2>2. CASE s # first
    <3>1. s # 1 /\ s - 1 \in rows
      <4>1. SUFFICES ASSUME s = 1 \/ s - 1 \notin rows
                     PROVE  FALSE
        OBVIOUS
      <4>2. \A r \in rows : s <= r
        BY <1>1, <1>2, <2>0, <4>1
      <4>3. ASSUME NEW r \in rows, \A q \in rows : r <= q PROVE r = s
        <5>1. r \in 1 .. n /\ r <= s /\ s <= r
          BY <1>2, <4>2, <4>3
        <5>. QED
          BY <1>1, <2>0, <5>1
      <4>4. first = s
        BY <4>2, <4>3
      <4>. QED
        BY <2>2, <4>4
    <3>2. \A q \in rows : q < s => q <= s - 1
      BY <1>1, <1>2, <2>0
    <3>3. \A r \in rows : r < s /\ (\A q \in rows : q < s => q <= r) => r = s - 1
      BY <1>1, <1>2, <2>0, <3>1
    <3>4. before(s) = s - 1
      BY <2>0, <3>1, <3>2, <3>3
    <3>. QED
      BY <1>3, <2>2, <3>1, <3>4
  <2>. QED
    BY <2>1, <2>2
<1> HIDE DEF rows, first, before, prev
<1>5. ASSUME NEW s \in rows
      PROVE  /\ RowHash(table[s].seq, table[s].entry, prev(s)) = table[s].row_hash
             /\ table[s].prev_hash = prev(s)
  <2>1. /\ table[s].seq = s
        /\ table[s].row_hash = RowHash(s, table[s].entry, table[s].prev_hash)
    BY <1>3, RowFields
  <2>. QED
    BY <1>4, <2>1
<1>6. {s \in rows : \/ RowHash(table[s].seq, table[s].entry, prev(s)) # table[s].row_hash
                    \/ table[s].prev_hash # prev(s)} = {}
  BY <1>5
<1>. QED
  BY <1>6 DEF VerifyChain, rows, first, before, prev

\* However many processes append, verify_chain accepts the table from every
\* start_seq at every moment.
THEOREM ChainVerifiesAlways == Spec => []ChainVerifies
<1>1. TableInv => ChainVerifies
  <2> SUFFICES ASSUME TableInv PROVE ChainVerifies
    OBVIOUS
  <2>1. Chained(log) /\ HeadOf(log).seq \in Nat
    BY DEF TableInv, ChainShape, Chained
  <2>2. \A start \in 0 .. HeadOf(log).seq + 1 : start \in Nat
    BY <2>1
  <2>. QED
    BY <2>1, <2>2, ChainedVerifies DEF ChainVerifies
<1>. QED
  BY <1>1, TableInvariant, PTL

\* No step changes or removes a row, and a new one follows the newest.
THEOREM AppendOnlyHolds == Spec => AppendOnly
<1>1. TableInv /\ [Next]_vars => [RowsKept]_vars
  <2> SUFFICES ASSUME TableInv, [Next]_vars PROVE [RowsKept]_vars
    OBVIOUS
  <2>1. ASSUME log' = log PROVE RowsKept
    BY <2>1 DEF RowsKept
  <2>2. ASSUME NEW t \in Tasks, CommitRow(t) PROVE RowsKept
    <3>1. /\ HeadOf(log).seq \in Nat
          /\ DOMAIN log = 1 .. HeadOf(log).seq
          /\ DOMAIN log' = 1 .. (HeadOf(log).seq + 1)
          /\ \A s \in DOMAIN log : log'[s] = log[s]
      BY <2>2, CommitAppends
    <3>. QED
      BY <3>1 DEF RowsKept
  <2>3. ASSUME NEW t \in Tasks, Step(t), ~CommitRow(t) PROVE log' = log
    BY <2>3, QuietStep DEF TableInv
  <2>4. ASSUME NEW p \in Procs, Crash(p) PROVE log' = log
    BY <2>4 DEF Crash
  <2>. QED
    BY <2>1, <2>2, <2>3, <2>4, StepCases DEF vars
<1>. QED
  BY <1>1, TableInvariant, PTL DEF Spec, AppendOnly

LEMMA AnchorsStep ==
    ASSUME TableInv, AnchorsTrue, NEW t \in Tasks, CommitRow(t)
    PROVE  AnchorsTrue'
<1> DEFINE n == HeadOf(log).seq
<1>1. /\ n \in Nat /\ DOMAIN log = 1 .. n /\ DOMAIN log' = 1 .. (n + 1)
      /\ \A s \in DOMAIN log : log'[s] = log[s]
      /\ log'[n + 1] = Row(n + 1, Entry(t), head[t].hash)
  BY CommitAppends
<1>2. log'[n + 1].entry.names = anchored[t]
  BY <1>1, RowFields DEF Entry
<1>3. Names(anchored[t], log) /\ anchored[t].seq \in Nat
  BY DEF TableInv, HeadsReal, TypeOK
<1> HIDE DEF n
<1>4. SUFFICES ASSUME NEW s \in DOMAIN log'
               PROVE  LET named == log'[s].entry.names
                      IN  /\ named.seq < s
                          /\ \/ named = NoHead
                             \/ /\ named.seq \in DOMAIN log'
                                /\ log'[named.seq].row_hash = named.hash
  BY DEF AnchorsTrue
<1>5. CASE s = n + 1
  <2>1. anchored[t].seq < s
    BY <1>1, <1>3, <1>5 DEF Names, NoHead
  <2>2. \/ anchored[t] = NoHead
        \/ anchored[t].seq \in DOMAIN log /\ log[anchored[t].seq].row_hash = anchored[t].hash
    BY <1>3 DEF Names
  <2>. QED
    BY <1>1, <1>2, <1>5, <2>1, <2>2
<1>6. CASE s \in DOMAIN log
  BY <1>1, <1>6 DEF AnchorsTrue
<1>. QED
  BY <1>1, <1>5, <1>6

\* Every anchor row names GENESIS or an earlier row of the log by its hash.
THEOREM AnchorsTrueAlways == Spec => []AnchorsTrue
<1>1. Init => AnchorsTrue
  BY DEF Init, AnchorsTrue
<1>2. TableInv /\ AnchorsTrue /\ [Next]_vars => AnchorsTrue'
  <2>1. AnchorsTrue /\ log' = log => AnchorsTrue'
    BY DEF AnchorsTrue
  <2>2. ASSUME NEW t \in Tasks, Step(t), ~CommitRow(t), TableInv PROVE log' = log
    BY <2>2, QuietStep DEF TableInv
  <2>3. ASSUME NEW p \in Procs, Crash(p) PROVE log' = log
    BY <2>3 DEF Crash
  <2>. QED
    BY <2>1, <2>2, <2>3, StepCases, AnchorsStep DEF vars
<1>. QED
  BY <1>1, <1>2, TableInvariant, PTL DEF Spec

-----------------------------------------------------------------------------
(* A login attempt and its row.                                            *)

LEMMA RecordedQuiet ==
    ASSUME log' = log, NEW u
    PROVE  Recorded(u)' <=> Recorded(u)
BY DEF Recorded

LEMMA RecordedByCommit ==
    ASSUME TableInv, NEW t \in Tasks, CommitRow(t), NEW u \in Tasks
    PROVE  Recorded(u)' <=> Recorded(u) \/ u = t
<1> DEFINE n == HeadOf(log).seq
<1>1. /\ n \in Nat /\ DOMAIN log = 1 .. n /\ DOMAIN log' = 1 .. (n + 1)
      /\ \A s \in DOMAIN log : log'[s] = log[s]
      /\ log'[n + 1] = Row(n + 1, Entry(t), head[t].hash)
  BY CommitAppends
<1>2. log'[n + 1].entry.by = t
  BY <1>1, RowFields DEF Entry
<1> HIDE DEF n
<1>3. \A s \in DOMAIN log' : s \in DOMAIN log \/ s = n + 1
  BY <1>1
<1>4. n + 1 \in DOMAIN log' /\ DOMAIN log \subseteq DOMAIN log'
  BY <1>1
<1>. QED
  BY <1>1, <1>2, <1>3, <1>4 DEF Recorded

LoginInv == TableInv /\ LoginStages

LEMMA LoginStep ==
    ASSUME LoginInv, NEW t \in Tasks, Step(t)
    PROVE  LoginStages'
<1> USE DEF LoginInv, TableInv, TypeOK, LoginStages, NotYetCommitted, Finished,
            Goto, SetConn
<1>1. CASE \/ HandlerCommits(t) \/ HandlerRefuses(t) \/ HandlerFails(t)
           \/ LoginReads(t) \/ AnchorReads(t)
  <2>1. \A u \in Tasks : Recorded(u)' <=> Recorded(u)
    BY <1>1, RecordedQuiet DEF HandlerCommits, HandlerRefuses, HandlerFails,
                               LoginReads, AnchorReads
  <2>. QED
    BY <1>1, <2>1 DEF HandlerCommits, HandlerRefuses, HandlerFails, LoginReads,
                      AnchorReads
<1>2. CASE AcquireLock(t) \/ ReadHead(t)
  <2>1. \A u \in Tasks : Recorded(u)' <=> Recorded(u)
    BY <1>2, RecordedQuiet DEF AcquireLock, ReadHead
  <2>. QED
    BY <1>2, <2>1 DEF AcquireLock, ReadHead
<1>3. CASE CommitRow(t)
  <2>1. \A u \in Tasks : Recorded(u)' <=> Recorded(u) \/ u = t
    BY <1>3, RecordedByCommit
  <2>. QED
    BY <1>3, <2>1 DEF CommitRow
<1>4. CASE CommitConflict(t) \/ RefreshRow(t)
  <2>1. \A u \in Tasks : Recorded(u)' <=> Recorded(u)
    BY <1>4, RecordedQuiet DEF CommitConflict, RefreshRow
  <2>. QED
    BY <1>4, <2>1 DEF CommitConflict, RefreshRow
<1>5. CASE PoolTimeout(t)
  <2>1. \A u \in Tasks : Recorded(u)' <=> Recorded(u)
    BY <1>5, RecordedQuiet DEF PoolTimeout
  <2>. QED
    BY <1>5, <2>1 DEF PoolTimeout
<1>6. CASE MiddlewareReturns(t) \/ LoginReturns(t) \/ AnchorReturns(t)
  <2>1. \A u \in Tasks : Recorded(u)' <=> Recorded(u)
    BY <1>6, RecordedQuiet DEF MiddlewareReturns, LoginReturns, AnchorReturns
  <2>. QED
    BY <1>6, <2>1 DEF MiddlewareReturns, LoginReturns, AnchorReturns
<1>. QED
  BY <1>1, <1>2, <1>3, <1>4, <1>5, <1>6 DEF Step

LEMMA LoginCrash ==
    ASSUME LoginInv, NEW p \in Procs, Crash(p)
    PROVE  LoginStages'
<1>1. \A u \in Tasks : Recorded(u)' <=> Recorded(u)
  BY RecordedQuiet DEF Crash
<1>2. ASSUME NEW u \in Tasks, u \notin Running(p)
      PROVE  pc'[u] = pc[u] /\ effect'[u] = effect[u] /\ conn'[u] = conn[u]
  <2>1. conn'[u] = (conn[u] /\ TRUE) /\ conn[u] \in BOOLEAN
    BY <1>2 DEF Crash, LoginInv, TableInv, TypeOK
  <2>. QED
    BY <1>2, <2>1 DEF Crash
<1>3. ASSUME NEW u \in Tasks, u \in Running(p)
      PROVE  /\ pc'[u] = "dead"
             /\ effect'[u] = IF effect[u] = "staged" THEN "lost" ELSE effect[u]
             /\ pc[u] \in Labels \ {"idle", "done", "dead"}
  BY <1>3 DEF Crash, Running, Finished, LoginInv, TableInv, TypeOK
<1>4. kind' = kind
  BY DEF Crash
<1>. QED
  BY <1>1, <1>2, <1>3, <1>4
     DEF LoginInv, LoginStages, NotYetCommitted, Finished, Labels

LEMMA LoginInvariant == Spec => []LoginInv
<1>1. Init => LoginInv
  <2>1. Init => LoginStages
    BY DEF Init, LoginStages, Recorded, NotYetCommitted, Finished
  <2>. QED
    BY <2>1, TableInit DEF LoginInv
<1>2. LoginInv /\ [Next]_vars => LoginInv'
  <2>1. LoginStages /\ UNCHANGED vars => LoginStages'
    BY DEF LoginStages, Recorded, vars
  <2>. QED
    BY <2>1, TableStep, StepCases, LoginStep, LoginCrash DEF LoginInv
<1>. QED
  BY <1>1, <1>2, PTL DEF Spec

\* A login attempt's change to the account is durable exactly when its row is
\* in the log, through every conflict, timeout and crash.
THEOREM LoginAtomicAlways == Spec => []LoginAtomic
<1>1. LoginInv => LoginAtomic
  BY DEF LoginInv, TableInv, TypeOK, Labels, LoginStages, NotYetCommitted, Finished,
         LoginAtomic
<1>. QED
  BY <1>1, LoginInvariant, PTL

-----------------------------------------------------------------------------
(* The code implements the abstract log.                                   *)

writtenBy(table) == [s \in DOMAIN table |-> table[s].entry.by]

LEMMA WrittenIsSeq ==
    ASSUME NEW table, NEW n \in Nat, DOMAIN table = 1 .. n,
           \A s \in DOMAIN table : table[s].entry.by \in Tasks
    PROVE  /\ writtenBy(table) \in Seq(Tasks)
           /\ Len(writtenBy(table)) = n
BY DEF writtenBy

LEMMA WrittenAppend ==
    ASSUME TableInv, NEW t \in Tasks, CommitRow(t)
    PROVE  writtenBy(log') = Append(writtenBy(log), t)
<1> DEFINE n == HeadOf(log).seq
<1>1. /\ n \in Nat /\ DOMAIN log = 1 .. n /\ DOMAIN log' = 1 .. (n + 1)
      /\ \A s \in DOMAIN log : log'[s] = log[s]
      /\ log'[n + 1] = Row(n + 1, Entry(t), head[t].hash)
  BY CommitAppends
<1>2. log'[n + 1].entry.by = t
  BY <1>1, RowFields DEF Entry
<1>3. writtenBy(log) \in Seq(Tasks) /\ Len(writtenBy(log)) = n
  BY <1>1, WrittenIsSeq DEF TableInv, TypeOK
<1> HIDE DEF n
<1>4. writtenBy(log') = [s \in 1 .. (n + 1) |-> IF s = n + 1 THEN t ELSE log[s].entry.by]
  BY <1>1, <1>2 DEF writtenBy
<1>5. \A s \in 1 .. n : writtenBy(log)[s] = log[s].entry.by
  BY <1>1 DEF writtenBy
<1>6. \A s \in DOMAIN log' : log'[s].entry.by \in Tasks
  BY <1>1, <1>2 DEF TableInv, TypeOK
<1>7. writtenBy(log') \in Seq(Tasks) /\ Len(writtenBy(log')) = n + 1
  BY <1>1, <1>6, WrittenIsSeq
<1>8. /\ Append(writtenBy(log), t) \in Seq(Tasks)
      /\ Len(Append(writtenBy(log), t)) = n + 1
      /\ \A i \in 1 .. n : Append(writtenBy(log), t)[i] = writtenBy(log)[i]
      /\ Append(writtenBy(log), t)[n + 1] = t
  BY <1>1, <1>3, AppendProperties
<1>9. \A i \in 1 .. (n + 1) : writtenBy(log')[i] = Append(writtenBy(log), t)[i]
  BY <1>1, <1>4, <1>5, <1>8
<1>. QED
  BY <1>7, <1>8, <1>9, SeqEqual

\* Who is in the abstract sequence is who has a row.
LEMMA WrittenIffRecorded ==
    ASSUME NEW t
    PROVE  Abstract!IsWritten(t) <=> Recorded(t)
BY DEF Abstract!IsWritten, Recorded

\* A handler's commit is an abstract Change, record()'s commit an abstract
\* Record or RecordLogin, and every other step leaves the abstract log alone.
LEMMA StepRefines ==
    ASSUME LoginInv, [Next]_vars
    PROVE  [Abstract!Next]_<<{t \in Tasks : kind[t] = "login"},
                             [s \in DOMAIN log |-> log[s].entry.by],
                             {t \in Tasks : effect[t] = "durable"}>>
<1> DEFINE logins == {t \in Tasks : kind[t] = "login"}
           durable == {t \in Tasks : effect[t] = "durable"}
           Quiet == logins' = logins /\ writtenBy(log)' = writtenBy(log)
                      /\ durable' = durable
<1> SUFFICES Abstract!Next \/ Quiet
  BY DEF writtenBy
<1>1. ASSUME log' = log, kind' = kind,
             \A t \in Tasks : effect'[t] = "durable" <=> effect[t] = "durable"
      PROVE  Quiet
  BY <1>1 DEF writtenBy
<1>2. ASSUME NEW t \in Tasks, log' = log, kind' = kind, kind[t] = "http",
             pc[t] = "idle", effect' = [effect EXCEPT ![t] = "durable"]
      PROVE  Abstract!Next
  <2>1. effect[t] = "none" /\ ~Recorded(t)
    BY <1>2 DEF LoginInv, LoginStages, NotYetCommitted
  <2>2. durable' = durable \cup {t}
    BY <1>2 DEF LoginInv, TableInv, TypeOK
  <2>3. Abstract!Change(t)
    BY <1>2, <2>1, <2>2, WrittenIffRecorded DEF Abstract!Change
  <2>. QED
    BY <2>3 DEF Abstract!Next
<1>3. ASSUME NEW t \in Tasks, CommitRow(t)
      PROVE  Abstract!Next
  <2>1. ~Recorded(t) /\ kind' = kind /\ pc[t] = "commit"
    BY <1>3 DEF LoginInv, LoginStages, NotYetCommitted, CommitRow
  <2>2. writtenBy(log') = Append(writtenBy(log), t)
    BY <1>3, WrittenAppend DEF LoginInv
  <2>3. effect' = [effect EXCEPT ![t] = IF @ = "staged" THEN "durable" ELSE @]
    BY <1>3 DEF CommitRow
  <2>4. effect \in [Tasks -> {"none", "staged", "durable", "lost"}]
    BY DEF LoginInv, TableInv, TypeOK
  <2>5. CASE kind[t] = "login"
    <3>1. effect[t] = "staged"
      BY <2>1, <2>5 DEF LoginInv, LoginStages
    <3>2. durable' = durable \cup {t}
      BY <2>3, <2>4, <3>1
    <3>3. Abstract!RecordLogin(t)
      BY <2>1, <2>2, <2>5, <3>1, <3>2, WrittenIffRecorded
         DEF Abstract!RecordLogin, writtenBy
    <3>. QED
      BY <3>3 DEF Abstract!Next
  <2>6. CASE kind[t] # "login"
    <3>1. effect[t] # "staged"
      BY <2>6 DEF LoginInv, LoginStages
    <3>2. durable' = durable
      BY <2>3, <2>4, <3>1
    <3>3. Abstract!Record(t)
      BY <2>1, <2>2, <2>6, <3>2, WrittenIffRecorded DEF Abstract!Record, writtenBy
    <3>. QED
      BY <3>3 DEF Abstract!Next
  <2>. QED
    BY <2>5, <2>6
<1>4. ASSUME NEW t \in Tasks, Step(t)
      PROVE  Abstract!Next \/ Quiet
  <2>1. CASE HandlerCommits(t) \/ HandlerFails(t)
    <3>1. log' = log /\ kind' = kind /\ kind[t] = "http" /\ pc[t] = "idle"
      BY <2>1 DEF HandlerCommits, HandlerFails
    <3>2. effect' = [effect EXCEPT ![t] = "durable"] \/ effect' = effect
      BY <2>1 DEF HandlerCommits, HandlerFails
    <3>. QED
      BY <1>1, <1>2, <3>1, <3>2
  <2>2. CASE CommitRow(t)
    BY <1>3, <2>2
  <2>3. CASE LoginReads(t) \/ CommitConflict(t)
    <3>1. log' = log /\ kind' = kind
      BY <2>3 DEF LoginReads, CommitConflict
    <3>2. effect \in [Tasks -> {"none", "staged", "durable", "lost"}]
      BY DEF LoginInv, TableInv, TypeOK
    <3>3. LoginReads(t) => effect[t] = "none"
      BY DEF LoginInv, LoginStages, LoginReads
    <3>4. \A u \in Tasks : effect'[u] = "durable" <=> effect[u] = "durable"
      BY <2>3, <3>2, <3>3 DEF LoginReads, CommitConflict
    <3>. QED
      BY <1>1, <3>1, <3>4
  <2>4. CASE \/ HandlerRefuses(t) \/ AnchorReads(t) \/ AcquireLock(t)
             \/ ReadHead(t) \/ RefreshRow(t) \/ PoolTimeout(t)
             \/ MiddlewareReturns(t) \/ LoginReturns(t) \/ AnchorReturns(t)
    <3>1. log' = log /\ kind' = kind /\ effect' = effect
      BY <2>4 DEF HandlerRefuses, AnchorReads, AcquireLock, ReadHead, RefreshRow,
                  PoolTimeout, MiddlewareReturns, LoginReturns, AnchorReturns
    <3>. QED
      BY <1>1, <3>1
  <2>. QED
    BY <1>4, <2>1, <2>2, <2>3, <2>4 DEF Step
<1>5. ASSUME NEW p \in Procs, Crash(p)
      PROVE  Quiet
  <2>1. log' = log /\ kind' = kind
    BY <1>5 DEF Crash
  <2>2. \A t \in Tasks : effect'[t] = "durable" <=> effect[t] = "durable"
    BY <1>5 DEF Crash
  <2>. QED
    BY <1>1, <2>1, <2>2
<1>6. CASE UNCHANGED vars
  BY <1>1, <1>6 DEF vars
<1> HIDE DEF Quiet
<1>. QED
  BY <1>4, <1>5, <1>6, StepCases

\* The code's audit log is the abstract one: best effort, but append-only, free
\* of duplicates, and atomic for login attempts.
THEOREM Refines == Spec => ImplementsAuditLog
<1>1. Init => Abstract!Init
  <2> SUFFICES ASSUME Init PROVE Abstract!Init
    OBVIOUS
  <2>1. [s \in DOMAIN log |-> log[s].entry.by] = <<>>
    <3>1. DOMAIN log = {}
      BY DEF Init
    <3>. QED
      BY <3>1, WrittenIsSeq, EmptySeq DEF writtenBy
  <2>2. {t \in Tasks : effect[t] = "durable"} = {}
    BY DEF Init
  <2>. QED
    BY <2>1, <2>2 DEF Abstract!Init
<1>. QED
  BY <1>1, StepRefines, LoginInvariant, PTL DEF Spec, ImplementsAuditLog, Abstract!Spec

-----------------------------------------------------------------------------
(* What verify_chain says of a table that was damaged. *)

\* The row whose hash the row s is compared with, 0 for none.
Precedes(table, p, s) ==
    /\ p \in Nat /\ p < s
    /\ p # 0 => p \in DOMAIN table
    /\ \A q \in DOMAIN table : q < s => q <= p

LinkTo(table, p) == IF p = 0 THEN GENESIS_HASH ELSE table[p].row_hash

Matches(table, s, link) ==
    /\ RowHash(table[s].seq, table[s].entry, link) = table[s].row_hash
    /\ table[s].prev_hash = link

\* Every row that is read is compared with its neighbour, the first with the
\* genesis hash, or with itself when the check starts further on; what is reported
\* is the first row that does not match, if it is not the first that is read or
\* is wrong in itself.
LEMMA FirstMismatch ==
    ASSUME NEW table, DOMAIN table \subseteq Nat \ {0}, NEW before,
           \A s \in DOMAIN table : Precedes(table, before[s], s),
           NEW start \in Nat,
           NEW m \in DOMAIN table, m >= start, \A s \in DOMAIN table : s >= start => m <= s,
           NEW k \in DOMAIN table, k >= start,
           ~Matches(table, k, LinkTo(table, before[k])),
           \/ start <= 1 \/ before[k] >= start
           \/ RowHash(table[k].seq, table[k].entry, table[k].prev_hash) # table[k].row_hash,
           \A s \in DOMAIN table : s < k => Matches(table, s, LinkTo(table, before[s]))
    PROVE  VerifyChain(table, start).break_at = k
<1> DEFINE rows == {s \in DOMAIN table : s >= start}
           first == CHOOSE s \in rows : \A r \in rows : s <= r
           prior(s) == CHOOSE r \in rows : r < s /\ \A q \in rows : q < s => q <= r
           prev(s) == IF s # first THEN table[prior(s)].row_hash
                      ELSE IF start <= 1 THEN GENESIS_HASH
                      ELSE table[s].prev_hash
           broken == {s \in rows : \/ RowHash(table[s].seq, table[s].entry, prev(s))
                                          # table[s].row_hash
                                   \/ table[s].prev_hash # prev(s)}
<1>1. /\ rows \subseteq Nat \ {0} /\ m \in rows /\ k \in rows /\ rows \subseteq DOMAIN table
      /\ \A s \in DOMAIN table : s \in rows <=> s >= start
  OBVIOUS
<1>2. first = m
  <2>1. m \in rows /\ \A q \in rows : m <= q
    BY <1>1
  <2>2. \A q \in rows : (\A r \in rows : q <= r) => q = m
    BY <1>1, <2>1
  <2>. QED
    BY <2>1, <2>2
<1> HIDE DEF rows
<1>3. ASSUME NEW s \in rows
      PROVE  /\ before[s] \in Nat /\ before[s] < s
             /\ before[s] # 0 => before[s] \in DOMAIN table
             /\ \A q \in rows : q < s => q <= before[s]
             /\ s # m => before[s] \in rows
  <2>1. Precedes(table, before[s], s)
    BY <1>1
  <2>2. \A q \in rows : q < s => q <= before[s]
    BY <1>1, <2>1 DEF Precedes
  <2>3. ASSUME s # m PROVE before[s] \in rows
    <3>1. m < s /\ m <= before[s] /\ m \in Nat \ {0}
      BY <1>1, <2>2, <2>3
    <3>. QED
      BY <1>1, <2>1, <3>1 DEF Precedes
  <2>. QED
    BY <2>1, <2>2, <2>3 DEF Precedes
<1>4. ASSUME NEW s \in rows, s # m PROVE prior(s) = before[s]
  <2>1. before[s] \in rows /\ before[s] < s /\ \A q \in rows : q < s => q <= before[s]
    BY <1>3, <1>4
  <2>2. ASSUME NEW r \in rows, r < s, \A q \in rows : q < s => q <= r
        PROVE  r = before[s]
    <3>1. before[s] <= r /\ r <= before[s]
      BY <2>1, <2>2
    <3>2. before[s] \in Nat /\ r \in Nat
      BY <1>1, <2>1, <2>2
    <3>. QED
      BY <3>1, <3>2
  <2>. QED
    BY <2>1, <2>2
<1> HIDE DEF first, prior
<1>5. \A s \in rows : s # m => prev(s) = LinkTo(table, before[s])
  <2>1. \A s \in rows : s # m => before[s] \in rows /\ before[s] # 0
    BY <1>1, <1>3
  <2>. QED
    BY <1>2, <1>4, <2>1 DEF LinkTo
<1>6. start <= 1 => prev(m) = LinkTo(table, before[m])
  <2>1. ASSUME start <= 1 PROVE before[m] = 0
    <3>1. \A q \in DOMAIN table : q \in rows
      BY <1>1, <2>1
    <3>2. before[m] # 0 => before[m] \in rows /\ before[m] < m
      BY <1>1, <1>3, <3>1
    <3>. QED
      BY <1>1, <1>3, <3>2
  <2>. QED
    BY <1>2, <2>1 DEF LinkTo
<1>7. ~(start <= 1) => prev(m) = table[m].prev_hash
  BY <1>2
<1> HIDE DEF prev
<1>8. ASSUME NEW s \in rows, s < k PROVE prev(s) = LinkTo(table, before[s])
  <2>1. Matches(table, s, LinkTo(table, before[s]))
    BY <1>1, <1>8
  <2>. QED
    BY <1>5, <1>6, <1>7, <2>1 DEF Matches
<1>9. k \in broken
  <2>1. CASE k # m \/ start <= 1
    <3>1. prev(k) = LinkTo(table, before[k])
      BY <1>1, <1>5, <1>6, <2>1
    <3>. QED
      BY <1>1, <3>1 DEF Matches
  <2>2. CASE k = m /\ ~(start <= 1)
    <3>1. before[k] \notin rows
      BY <1>1, <1>3, <2>2
    <3>2. ~(before[k] >= start)
      <4>1. before[k] # 0 => before[k] \in DOMAIN table
        BY <1>1, <1>3
      <4>2. before[k] \in Nat
        BY <1>1, <1>3
      <4>. QED
        BY <1>1, <2>2, <3>1, <4>1, <4>2
    <3>3. RowHash(table[k].seq, table[k].entry, table[k].prev_hash) # table[k].row_hash
      BY <2>2, <3>2
    <3>. QED
      BY <1>1, <1>7, <2>2, <3>3
  <2>. QED
    BY <2>1, <2>2
<1>10. \A s \in broken : k <= s
  <2>1. \A s \in rows : s < k => s \notin broken
    BY <1>1, <1>8 DEF Matches
  <2>. QED
    BY <1>1, <2>1
<1>11. \A s \in broken : (\A r \in broken : s <= r) => s = k
  BY <1>1, <1>9, <1>10
<1>12. (CHOOSE s \in broken : \A r \in broken : s <= r) = k
  BY <1>9, <1>10, <1>11
<1>. QED
  BY <1>9, <1>12 DEF VerifyChain, rows, first, prior, prev

LEMMA NoDigest ==
    ASSUME NEW core, NEW h
    PROVE  <<core, h>> # GENESIS_HASH
<1>1. DOMAIN <<core, h>> = 1 .. 2
  OBVIOUS
<1>2. DOMAIN <<>> = 1 .. 0
  OBVIOUS
<1>3. 1 \in 1 .. 2 /\ 1 \notin 1 .. 0
  OBVIOUS
<1>. QED
  BY <1>1, <1>2, <1>3 DEF GENESIS_HASH

\* What a gapless, linked table says of two neighbours and of the first row.
LEMMA ChainedRows ==
    ASSUME NEW table, Chained(table)
    PROVE  LET n == HeadOf(table).seq IN
           /\ n \in Nat /\ DOMAIN table = 1 .. n
           /\ \A s \in 1 .. n :
                /\ Matches(table, s, LinkTo(table, s - 1))
                /\ table[s].seq = s
                /\ table[s].row_hash = <<<<s, table[s].entry>>, table[s].prev_hash>>
           /\ \A s \in 0 .. n - 1 : LinkTo(table, s + 1) # LinkTo(table, s)
<1> DEFINE n == HeadOf(table).seq
<1>1. n \in Nat /\ DOMAIN table = 1 .. n
  BY DEF Chained
<1>2. ASSUME NEW s \in 1 .. n
      PROVE  /\ Matches(table, s, LinkTo(table, s - 1))
             /\ table[s].seq = s
             /\ table[s].row_hash = <<<<s, table[s].entry>>, table[s].prev_hash>>
  <2> DEFINE link == IF s = 1 THEN GENESIS_HASH ELSE table[s - 1].row_hash
  <2>1. table[s] = Row(s, table[s].entry, link)
    BY DEF Chained
  <2>2. LinkTo(table, s - 1) = link
    BY <1>1 DEF LinkTo
  <2> HIDE DEF link
  <2>3. /\ table[s].seq = s /\ table[s].prev_hash = link
        /\ table[s].row_hash = RowHash(s, table[s].entry, link)
    BY <2>1, RowFields
  <2>. QED
    BY <2>2, <2>3 DEF Matches, RowHash, Digest
<1>3. ASSUME NEW s \in 0 .. n - 1
      PROVE  LinkTo(table, s + 1) # LinkTo(table, s)
  <2>1. s + 1 \in 1 .. n /\ s + 1 # 0 /\ s \in Nat
    BY <1>1
  <2>2. LinkTo(table, s + 1) = <<<<s + 1, table[s + 1].entry>>, table[s + 1].prev_hash>>
    BY <1>2, <2>1 DEF LinkTo
  <2>3. CASE s = 0
    BY <2>2, <2>3, NoDigest DEF LinkTo
  <2>4. CASE s # 0
    <3>1. LinkTo(table, s) = <<<<s, table[s].entry>>, table[s].prev_hash>>
      BY <1>1, <1>2, <2>1, <2>4 DEF LinkTo
    <3>. QED
      BY <2>1, <2>2, <3>1
  <2>. QED
    BY <2>3, <2>4
<1>. QED
  BY <1>1, <1>2, <1>3

\* A row that is gone is missed by its successor.
LEMMA MissingRow ==
    ASSUME NEW table, Chained(table), NEW s \in DOMAIN table, s < HeadOf(table).seq,
           NEW start \in Nat, start < s \/ start <= 1
    PROVE  VerifyChain(Without(table, s), start).break_at = s + 1
<1> DEFINE n == HeadOf(table).seq
           new == Without(table, s)
           before == [r \in (1 .. n) \ {s} |-> IF r = s + 1 THEN s - 1 ELSE r - 1]
<1>1. n \in Nat /\ DOMAIN table = 1 .. n /\ s \in 1 .. n /\ s < n
  BY ChainedRows
<1>2. DOMAIN new = (1 .. n) \ {s} /\ \A r \in (1 .. n) \ {s} : new[r] = table[r]
  BY <1>1 DEF Without
<1> HIDE DEF n, new
<1>3. DOMAIN new \subseteq Nat \ {0} /\ s + 1 \in DOMAIN new
  BY <1>1, <1>2
<1>4. \A r \in DOMAIN new : Precedes(new, before[r], r)
  <2> SUFFICES ASSUME NEW r \in (1 .. n) \ {s} PROVE Precedes(new, before[r], r)
    BY <1>2
  <2>1. before[r] = IF r = s + 1 THEN s - 1 ELSE r - 1
    OBVIOUS
  <2> HIDE DEF before
  <2>2. CASE r = s + 1
    BY <1>1, <1>2, <2>1, <2>2 DEF Precedes
  <2>3. CASE r # s + 1
    BY <1>1, <1>2, <2>1, <2>3 DEF Precedes
  <2>. QED
    BY <2>2, <2>3
<1>5. \E m \in DOMAIN new : m >= start /\ \A r \in DOMAIN new : r >= start => m <= r
  <2>1. CASE start <= 1 /\ s = 1
    <3>1. 2 \in DOMAIN new /\ 2 >= start /\ \A r \in DOMAIN new : 2 <= r
      BY <1>1, <1>2, <2>1
    <3>. QED
      BY <3>1
  <2>2. CASE start <= 1 /\ s # 1
    <3>1. 1 \in DOMAIN new /\ 1 >= start /\ \A r \in DOMAIN new : 1 <= r
      BY <1>1, <1>2, <2>2
    <3>. QED
      BY <3>1
  <2>3. CASE ~(start <= 1)
    <3>1. start \in DOMAIN new
      BY <1>1, <1>2, <2>3
    <3>. QED
      BY <3>1
  <2>. QED
    BY <2>1, <2>2, <2>3
<1>6. \A r \in 0 .. n : r # s => LinkTo(new, r) = LinkTo(table, r)
  BY <1>1, <1>2 DEF LinkTo
<1>7. ~Matches(new, s + 1, LinkTo(new, before[s + 1]))
  <2>1. before[s + 1] = s - 1 /\ s - 1 \in 0 .. n - 1 /\ s - 1 # s /\ (s - 1) + 1 = s
    BY <1>1, <1>3
  <2>2. table[s + 1].prev_hash = LinkTo(table, s)
    BY <1>1, ChainedRows DEF Matches, n
  <2>3. LinkTo(table, s) # LinkTo(table, s - 1)
    BY <2>1, ChainedRows DEF n
  <2>4. new[s + 1] = table[s + 1] /\ LinkTo(new, s - 1) = LinkTo(table, s - 1)
    BY <1>1, <1>2, <1>6
  <2>. QED
    BY <2>1, <2>2, <2>3, <2>4 DEF Matches
<1>8. \A r \in DOMAIN new : r < s + 1 => Matches(new, r, LinkTo(new, before[r]))
  <2> SUFFICES ASSUME NEW r \in DOMAIN new, r < s + 1
               PROVE  Matches(new, r, LinkTo(new, before[r]))
    OBVIOUS
  <2>1. r \in 1 .. n /\ r # s /\ before[r] = r - 1 /\ r - 1 \in 0 .. n /\ r - 1 # s
    BY <1>1, <1>2
  <2>2. Matches(table, r, LinkTo(table, r - 1))
    BY <2>1, ChainedRows DEF n
  <2>3. new[r] = table[r] /\ LinkTo(new, r - 1) = LinkTo(table, r - 1)
    BY <1>2, <1>6, <2>1
  <2>. QED
    BY <2>1, <2>2, <2>3 DEF Matches
<1>9. s + 1 >= start /\ (start <= 1 \/ before[s + 1] >= start)
  <2>1. before[s + 1] = s - 1
    BY <1>1
  <2>. QED
    BY <1>1, <2>1
<1>10. PICK m \in DOMAIN new : m >= start /\ \A r \in DOMAIN new : r >= start => m <= r
  BY <1>5
<1> HIDE DEF before
<1>. QED
  BY <1>3, <1>4, <1>7, <1>8, <1>9, <1>10, FirstMismatch DEF new

\* A row whose facts were changed is found itself, unless its hash was
\* recomputed: then its successor is.
LEMMA ChangedRow ==
    ASSUME NEW table, Chained(table), NEW s \in DOMAIN table, s < HeadOf(table).seq,
           NEW e, e # table[s].entry, NEW start \in 0 .. s
    PROVE  /\ VerifyChain([table EXCEPT ![s].entry = e], start).break_at = s
           /\ VerifyChain(Insert(table, Row(s, e, table[s].prev_hash)), start).break_at = s + 1
<1> DEFINE n == HeadOf(table).seq
           before == [r \in 1 .. n |-> r - 1]
<1>1. n \in Nat /\ DOMAIN table = 1 .. n /\ s \in 1 .. n /\ s < n
  BY ChainedRows
<1> HIDE DEF n
<1>2. \A r \in 1 .. n : before[r] = r - 1
  OBVIOUS
<1> HIDE DEF before
<1>3. PICK m \in 1 .. n : m >= start /\ \A r \in 1 .. n : r >= start => m <= r
  <2>1. CASE start = 0
    <3>1. 1 \in 1 .. n /\ 1 >= start /\ \A r \in 1 .. n : 1 <= r
      BY <1>1, <2>1
    <3>. QED
      BY <3>1
  <2>2. CASE start # 0
    <3>1. start \in 1 .. n
      BY <1>1, <2>2
    <3>. QED
      BY <3>1
  <2>. QED
    BY <2>1, <2>2
<1>4. ASSUME NEW new, DOMAIN new = 1 .. n, NEW k \in 1 .. n, k >= start,
             ~Matches(new, k, LinkTo(new, k - 1)),
             \/ k - 1 >= start
             \/ RowHash(new[k].seq, new[k].entry, new[k].prev_hash) # new[k].row_hash,
             \A r \in 1 .. n : r < k => Matches(new, r, LinkTo(new, r - 1))
      PROVE  VerifyChain(new, start).break_at = k
  <2>1. DOMAIN new \subseteq Nat \ {0}
    BY <1>1, <1>4
  <2>2. \A r \in DOMAIN new : Precedes(new, before[r], r)
    BY <1>1, <1>2, <1>4 DEF Precedes
  <2>3. ~Matches(new, k, LinkTo(new, before[k]))
    BY <1>2, <1>4
  <2>4. \A r \in DOMAIN new : r < k => Matches(new, r, LinkTo(new, before[r]))
    BY <1>2, <1>4
  <2>5. \/ before[k] >= start
        \/ RowHash(new[k].seq, new[k].entry, new[k].prev_hash) # new[k].row_hash
    BY <1>2, <1>4
  <2>6. start \in Nat
    BY <1>1
  <2>. QED
    BY <1>3, <1>4, <2>1, <2>2, <2>3, <2>4, <2>5, <2>6, FirstMismatch
<1>5. ASSUME NEW new, NEW r \in 1 .. n, r < s \/ r = s,
             \A q \in 1 .. n : q # s => new[q] = table[q]
      PROVE  /\ LinkTo(new, r - 1) = LinkTo(table, r - 1)
             /\ r < s => Matches(new, r, LinkTo(new, r - 1))
  <2>1. r - 1 \in Nat /\ (r - 1 # 0 => r - 1 \in 1 .. n /\ r - 1 # s)
    BY <1>1, <1>5
  <2>2. LinkTo(new, r - 1) = LinkTo(table, r - 1)
    BY <1>5, <2>1 DEF LinkTo
  <2>3. ASSUME r < s PROVE Matches(new, r, LinkTo(new, r - 1))
    <3>1. new[r] = table[r]
      BY <1>1, <1>5, <2>3
    <3>2. Matches(table, r, LinkTo(table, r - 1))
      BY ChainedRows DEF n
    <3>. QED
      BY <2>2, <3>1, <3>2 DEF Matches
  <2>. QED
    BY <2>2, <2>3
<1>6. /\ table[s].seq = s
      /\ table[s].row_hash = <<<<s, table[s].entry>>, table[s].prev_hash>>
      /\ table[s].prev_hash = LinkTo(table, s - 1)
      /\ table[s + 1].prev_hash = table[s].row_hash
  <2>1. s + 1 \in 1 .. n /\ (s + 1) - 1 = s /\ s # 0
    BY <1>1
  <2>2. Matches(table, s + 1, LinkTo(table, (s + 1) - 1))
    BY <2>1, ChainedRows DEF n
  <2>. QED
    BY <1>1, <2>1, <2>2, ChainedRows DEF n, Matches, LinkTo
<1>7. VerifyChain([table EXCEPT ![s].entry = e], start).break_at = s
  <2> DEFINE new == [table EXCEPT ![s].entry = e]
  <2>1. /\ DOMAIN new = 1 .. n /\ \A q \in 1 .. n : q # s => new[q] = table[q]
        /\ new[s] = [table[s] EXCEPT !.entry = e]
    BY <1>1
  <2>2. /\ new[s].seq = s /\ new[s].entry = e /\ new[s].row_hash = table[s].row_hash
        /\ new[s].prev_hash = table[s].prev_hash
    <3>1. table[s] = Row(s, table[s].entry, IF s = 1 THEN GENESIS_HASH ELSE table[s - 1].row_hash)
      BY <1>1 DEF Chained, n
    <3> DEFINE row == Row(s, table[s].entry,
                          IF s = 1 THEN GENESIS_HASH ELSE table[s - 1].row_hash)
               new_row == [row EXCEPT !.entry = e]
    <3>2. /\ new_row.seq = row.seq /\ new_row.entry = e /\ new_row.row_hash = row.row_hash
          /\ new_row.prev_hash = row.prev_hash
      BY DEF Row
    <3>. QED
      BY <1>6, <2>1, <3>1, <3>2
  <2> HIDE DEF new
  <2>3. ~Matches(new, s, LinkTo(new, s - 1))
    BY <1>6, <2>2 DEF Matches, RowHash, Digest
  <2>4. \A r \in 1 .. n : r < s => Matches(new, r, LinkTo(new, r - 1))
    BY <1>5, <2>1
  <2>5. RowHash(new[s].seq, new[s].entry, new[s].prev_hash) # new[s].row_hash
    BY <1>6, <2>2 DEF RowHash, Digest
  <2>6. s >= start
    BY <1>1
  <2>. QED
    BY <1>1, <1>4, <2>1, <2>3, <2>4, <2>5, <2>6 DEF new
<1>8. VerifyChain(Insert(table, Row(s, e, table[s].prev_hash)), start).break_at = s + 1
  <2> DEFINE row == Row(s, e, table[s].prev_hash)
             new == Insert(table, row)
  <2>1. /\ row.seq = s /\ row.entry = e /\ row.prev_hash = table[s].prev_hash
        /\ row.row_hash = <<<<s, e>>, table[s].prev_hash>>
    BY RowFields DEF RowHash, Digest
  <2> HIDE DEF row
  <2>2. /\ DOMAIN new = 1 .. n /\ \A q \in 1 .. n : q # s => new[q] = table[q]
        /\ new[s] = row
    BY <1>1, <2>1 DEF Insert
  <2> HIDE DEF new
  <2>3. s + 1 \in 1 .. n /\ (s + 1) - 1 = s /\ s # 0 /\ s + 1 # s
    BY <1>1
  <2>4. ~Matches(new, s + 1, LinkTo(new, (s + 1) - 1))
    <3>1. new[s + 1].prev_hash = <<<<s, table[s].entry>>, table[s].prev_hash>>
      BY <1>6, <2>2, <2>3
    <3>2. LinkTo(new, s) = <<<<s, e>>, table[s].prev_hash>>
      BY <2>1, <2>2, <2>3 DEF LinkTo
    <3>. QED
      BY <2>3, <3>1, <3>2 DEF Matches
  <2>5. Matches(new, s, LinkTo(new, s - 1))
    <3>1. LinkTo(new, s - 1) = table[s].prev_hash
      BY <1>1, <1>5, <1>6, <2>2
    <3>. QED
      BY <2>1, <2>2, <3>1 DEF Matches, RowHash, Digest
  <2>6. \A r \in 1 .. n : r < s => Matches(new, r, LinkTo(new, r - 1))
    BY <1>5, <2>2
  <2>7. \A r \in 1 .. n : r < s + 1 => Matches(new, r, LinkTo(new, r - 1))
    BY <1>1, <2>5, <2>6
  <2>8. s + 1 >= start /\ (s + 1) - 1 >= start
    BY <1>1
  <2>. QED
    BY <1>4, <2>2, <2>3, <2>4, <2>7, <2>8 DEF new, row
<1>. QED
  BY <1>7, <1>8

\* verify_chain locates damage done to a historic row outside the program, at
\* every moment, for every row and from every start that does not lie behind it:
\* where models/audit.py:4 promises it.
THEOREM DamageLocatedAlways == Spec => []DamageLocated
<1>1. TableInv => DamageLocated
  <2> SUFFICES ASSUME TableInv, NEW s \in DOMAIN log, s < HeadOf(log).seq,
                      NEW start \in 0 .. s
               PROVE  /\ start < s \/ start <= 1 =>
                          VerifyChain(Without(log, s), start).break_at = s + 1
                      /\ \A e \in OtherEntries(s) :
                           /\ VerifyChain([log EXCEPT ![s].entry = e], start).break_at = s
                           /\ VerifyChain(Insert(log, Row(s, e, log[s].prev_hash)), start).break_at
                                = s + 1
    BY DEF DamageLocated
  <2>1. Chained(log)
    BY DEF TableInv, ChainShape
  <2>2. \A e \in OtherEntries(s) : e # log[s].entry
    BY DEF OtherEntries
  <2>3. start \in Nat
    <3>1. s \in Nat
      BY <2>1, ChainedRows
    <3>. QED
      BY <3>1
  <2>4. start < s \/ start <= 1 => VerifyChain(Without(log, s), start).break_at = s + 1
    BY <2>1, <2>3, MissingRow
  <2>5. \A e \in OtherEntries(s) :
           /\ VerifyChain([log EXCEPT ![s].entry = e], start).break_at = s
           /\ VerifyChain(Insert(log, Row(s, e, log[s].prev_hash)), start).break_at = s + 1
    BY <2>1, <2>2, ChangedRow
  <2>. QED
    BY <2>4, <2>5
<1>. QED
  BY <1>1, TableInvariant, PTL
=============================================================================
