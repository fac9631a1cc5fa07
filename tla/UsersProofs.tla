---------------------------- MODULE UsersProofs ----------------------------
(***************************************************************************)
(* Proofs about Users, for any number of accounts and requests and any     *)
(* bodies of PATCH.                                                        *)
(***************************************************************************)
EXTENDS Users, TLAPS

\* The steps of one request, in the groups that the proofs below split on.
Begins(r) ==
    \E by, on \in Users :
        \/ \E body \in Payloads : Begin(r, "update", by, on, body)
        \/ Begin(r, "delete", by, on, NoBody)
        \/ \E role \in Roles : Begin(r, "create", by, on, [role |-> role, active |-> "keep"])

Step(r) == Begins(r) \/ Reads(r) \/ ReadsAddress(r) \/ Counts(r) \/ Commits(r)

LEMMA StepCases ==
    ASSUME [Next]_vars
    PROVE  (\E r \in Requests : Step(r)) \/ UNCHANGED vars
BY DEF Next, Step, Begins

Admin == [role |-> "admin", active |-> "yes"]

LEMMA AdminsAre ==
    ASSUME NEW u \in Users
    PROVE  u \in Admins <=> row[u] = Admin
BY DEF Admins, Admin

-----------------------------------------------------------------------------
(* The inductive invariant. *)

\* A commit that would take its target away, were that an administrator.
Harmful(r) ==
    \/ call[r].op = "delete"
    \/ call[r].op = "update" /\ Flushed(Admin, seen[r], call[r].body) # Admin

\* There was another administrator during the request; if that one is gone, its
\* removal overlapped the request.
Backed(r) ==
    \E v \in Users \ {call[r].on} :
        \/ v \in Admins
        \/ \E q \in removals \cap during[r] : call[q].on = v

\* Requests about their own account have read the administrator they were.
OwnRow == \A r \in Requests : pc[r] = "auth" /\ call[r].by = call[r].on => seen[r] = Admin

Covered == \A r \in Requests : pc[r] = "commit" /\ Harmful(r) => Backed(r) \/ Overlapped

RemovalsDone == \A r \in removals : pc[r] = "done"

NewHasRole ==
    \A r \in Requests : pc[r] # "idle" /\ call[r].op = "create" =>
        call[r].body.role \in Roles

Inv == TypeOK /\ NewHasRole /\ OwnRow /\ RemovalsDone /\ Covered /\ AdminRemains

LEMMA InitInv ==
    ASSUME Init
    PROVE  Inv
<1>1. TypeOK
  BY DEF Init, TypeOK, Row, NoRow, Roles, Flags, Exists, InFlight
<1>2. NewHasRole /\ OwnRow /\ RemovalsDone /\ Covered /\ AdminRemains
  BY DEF Init, NewHasRole, OwnRow, RemovalsDone, Covered, AdminRemains
<1>. QED
  BY <1>1, <1>2 DEF Inv

-----------------------------------------------------------------------------
(* Types. *)

LEMMA CallTypes ==
    ASSUME Payloads \subseteq Body, NEW by \in Users, NEW on \in Users
    PROVE  /\ \A body \in Payloads :
                 [op |-> "update", by |-> by, on |-> on, body |-> body] \in Call
           /\ [op |-> "delete", by |-> by, on |-> on, body |-> NoBody] \in Call
           /\ \A role \in Roles :
                 [op |-> "create", by |-> by, on |-> on,
                  body |-> [role |-> role, active |-> "keep"]] \in Call
BY DEF Call, Body, NoBody, Roles, Flags

\* A begun request: what every such step does.
LEMMA BeginSteps ==
    ASSUME Payloads \subseteq Body, TypeOK, NEW r \in Requests, Begins(r)
    PROVE  \E c \in Call :
              /\ pc[r] = "idle" /\ c.by \in Admins
              /\ c.op = "create" => c.body.role \in Roles
              /\ call' = [call EXCEPT ![r] = c]
              /\ seen' = [seen EXCEPT ![r] = IF c.by = c.on THEN row[c.on] ELSE NoRow]
              /\ pc' = [pc EXCEPT ![r] = "auth"]
              /\ UNCHANGED <<row, used, counted, removals, during>>
<1>1. PICK by \in Users, on \in Users :
        \/ \E body \in Payloads : Begin(r, "update", by, on, body)
        \/ Begin(r, "delete", by, on, NoBody)
        \/ \E role \in Roles : Begin(r, "create", by, on, [role |-> role, active |-> "keep"])
  BY DEF Begins
<1>2. ASSUME NEW op, NEW body, Begin(r, op, by, on, body),
             op = "create" => body.role \in Roles,
             [op |-> op, by |-> by, on |-> on, body |-> body] \in Call
      PROVE  \E c \in Call :
              /\ pc[r] = "idle" /\ c.by \in Admins
              /\ c.op = "create" => c.body.role \in Roles
              /\ call' = [call EXCEPT ![r] = c]
              /\ seen' = [seen EXCEPT ![r] = IF c.by = c.on THEN row[c.on] ELSE NoRow]
              /\ pc' = [pc EXCEPT ![r] = "auth"]
              /\ UNCHANGED <<row, used, counted, removals, during>>
  <2> DEFINE c == [op |-> op, by |-> by, on |-> on, body |-> body]
  <2>1. c \in Call /\ c.by = by /\ c.on = on /\ c.op = op /\ c.body = body
    BY <1>2
  <2>. QED
    BY <1>2, <2>1 DEF Begin, Goto
<1>. QED
  BY <1>1, <1>2, CallTypes

LEMMA FlushedTypes ==
    ASSUME NEW now \in Row, NEW old \in Row \cup {NoRow}, NEW body \in Body
    PROVE  Flushed(now, old, body) \in Row
BY DEF Flushed, Row, Body, NoRow, Roles, Flags

LEMMA CommittedTypes ==
    ASSUME TypeOK, NewHasRole, NEW r \in Requests, pc[r] = "commit"
    PROVE  Committed(r) \in Row \cup {NoRow} /\ call[r].on \in Users
<1>1. call[r] \in Call /\ row[call[r].on] \in Row \cup {NoRow} /\ seen[r] \in Row \cup {NoRow}
  BY DEF TypeOK, Call
<1>2. CASE call[r].op = "delete"
  BY <1>1, <1>2 DEF Committed, Call
<1>3. CASE call[r].op = "create"
  <2>1. [role |-> call[r].body.role, active |-> "yes"] \in Row
    BY <1>3 DEF NewHasRole, Row, Flags
  <2>. QED
    BY <1>1, <1>3, <2>1 DEF Committed, Call
<1>4. CASE call[r].op = "update"
  <2>1. Exists(call[r].on) => Flushed(row[call[r].on], seen[r], call[r].body) \in Row
    BY <1>1, FlushedTypes DEF Exists, Call
  <2>. QED
    BY <1>1, <1>4, <2>1 DEF Committed, Call
<1>. QED
  BY <1>1, <1>2, <1>3, <1>4 DEF Call

LEMMA TypeStep ==
    ASSUME Payloads \subseteq Body, TypeOK, NewHasRole, NEW r \in Requests, Step(r)
    PROVE  TypeOK' /\ NewHasRole'
<1>1. CASE Begins(r)
  <2>1. PICK c \in Call :
          /\ pc[r] = "idle" /\ c.by \in Admins
          /\ c.op = "create" => c.body.role \in Roles
          /\ call' = [call EXCEPT ![r] = c]
          /\ seen' = [seen EXCEPT ![r] = IF c.by = c.on THEN row[c.on] ELSE NoRow]
          /\ pc' = [pc EXCEPT ![r] = "auth"]
          /\ UNCHANGED <<row, used, counted, removals, during>>
    BY <1>1, BeginSteps
  <2>2. (IF c.by = c.on THEN row[c.on] ELSE NoRow) \in Row \cup {NoRow}
    BY DEF TypeOK, Call
  <2>3. seen' \in [Requests -> Row \cup {NoRow}] /\ call'[r] = c
        /\ \A q \in Requests \ {r} : pc'[q] = pc[q] /\ call'[q] = call[q]
    BY <2>1, <2>2 DEF TypeOK
  <2>. QED
    BY <2>1, <2>3 DEF TypeOK, NewHasRole, InFlight
<1>2. CASE Reads(r)
  <2>1. pc[r] = "auth" /\ Target(r) \in Row \cup {NoRow}
    BY <1>2 DEF Reads, Target, TypeOK, Call
  <2>2. UNCHANGED call /\ \A q \in Requests : pc'[q] # "idle" => pc[q] # "idle"
    BY <1>2, <2>1 DEF Reads, Ends, Goto, TypeOK
  <2>3. pc' \in [Requests -> InFlight \cup {"idle", "done"}]
    BY <1>2 DEF Reads, Ends, Goto, TypeOK, InFlight
  <2>4. seen' \in [Requests -> Row \cup {NoRow}] /\ counted' \in [Requests -> SUBSET Users]
    BY <1>2, <2>1 DEF Reads, Ends, TypeOK
  <2>. QED
    BY <1>2, <2>2, <2>3, <2>4 DEF Reads, TypeOK, NewHasRole
<1>3. CASE ReadsAddress(r)
  BY <1>3 DEF ReadsAddress, Ends, Goto, TypeOK, NewHasRole, InFlight
<1>4. CASE Counts(r)
  <2>1. Others(r) \subseteq Users
    BY DEF Others, Admins
  <2>. QED
    BY <1>4, <2>1 DEF Counts, Ends, Goto, TypeOK, NewHasRole, InFlight
<1>5. CASE Commits(r)
  <2>1. Committed(r) \in Row \cup {NoRow} /\ call[r].on \in Users
    BY <1>5, CommittedTypes DEF Commits
  <2>2. removals' \subseteq Requests /\ during' \in [Requests -> SUBSET Requests]
    BY <1>5 DEF Commits, TypeOK
  <2>. QED
    BY <1>5, <2>1, <2>2 DEF Commits, Ends, Goto, TypeOK, NewHasRole, InFlight
<1>. QED
  BY <1>1, <1>2, <1>3, <1>4, <1>5 DEF Step

-----------------------------------------------------------------------------
(* Steps that leave the rows alone. *)

\* Nothing that a request is backed by goes without a commit.
LEMMA QuietStep ==
    ASSUME Inv, NEW r \in Requests,
           UNCHANGED <<row, removals, during>>,
           pc[r] # "done",
           \A q \in Requests \ {r} :
               pc'[q] = pc[q] /\ call'[q] = call[q] /\ seen'[q] = seen[q],
           pc'[r] = "auth" /\ call'[r].by = call'[r].on => seen'[r] = Admin,
           pc'[r] = "commit" /\ Harmful(r)' => Backed(r)' \/ Overlapped
    PROVE  (OwnRow /\ RemovalsDone /\ Covered /\ AdminRemains)'
<1>1. r \notin removals
  BY DEF Inv, RemovalsDone
<1>2. \A q \in removals : q \in Requests /\ pc'[q] = pc[q] /\ call'[q] = call[q]
  BY <1>1 DEF Inv, TypeOK
<1>3. Admins' = Admins
  BY DEF Admins
<1>4. Overlapped => Overlapped'
  BY <1>2 DEF Overlapped
<1>5. OwnRow'
  BY DEF Inv, OwnRow
<1>6. RemovalsDone'
  BY <1>2 DEF Inv, RemovalsDone
<1>7. ASSUME NEW q \in Requests \ {r}
      PROVE  /\ Harmful(q)' => Harmful(q)
             /\ Backed(q) => Backed(q)'
  <2>1. Harmful(q)' => Harmful(q)
    BY DEF Harmful
  <2>2. Backed(q) => Backed(q)'
    BY <1>2, <1>3 DEF Backed
  <2>. QED
    BY <2>1, <2>2
<1>8. Covered'
  BY <1>4, <1>7 DEF Inv, Covered
<1>9. AdminRemains'
  BY <1>3, <1>4 DEF Inv, AdminRemains
<1>. QED
  BY <1>5, <1>6, <1>8, <1>9

\* A change that the guard lets pass uncounted takes no administrator away.
LEMMA UnguardedHarmless ==
    ASSUME NEW op \in {"update", "delete", "create"}, NEW body \in Body,
           ~Guarded(op, Admin, body)
    PROVE  op # "delete" /\ (op = "update" => Flushed(Admin, Admin, body) = Admin)
BY DEF Guarded, Demotes, Deactivates, NewRole, Admin, Flushed, Body, Roles, Flags

LEMMA BeginStep ==
    ASSUME Payloads \subseteq Body, Inv, NEW r \in Requests, Begins(r)
    PROVE  (OwnRow /\ RemovalsDone /\ Covered /\ AdminRemains)'
<1>1. PICK c \in Call :
        /\ pc[r] = "idle" /\ c.by \in Admins
        /\ c.op = "create" => c.body.role \in Roles
        /\ call' = [call EXCEPT ![r] = c]
        /\ seen' = [seen EXCEPT ![r] = IF c.by = c.on THEN row[c.on] ELSE NoRow]
        /\ pc' = [pc EXCEPT ![r] = "auth"]
        /\ UNCHANGED <<row, used, counted, removals, during>>
  BY BeginSteps DEF Inv
<1>2. /\ pc'[r] = "auth" /\ seen'[r] = IF c.by = c.on THEN row[c.on] ELSE NoRow
      /\ \A q \in Requests \ {r} :
            pc'[q] = pc[q] /\ call'[q] = call[q] /\ seen'[q] = seen[q]
  BY <1>1 DEF Inv, TypeOK
<1>3. call'[r] = c
  <2>1. r \in DOMAIN call
    BY <1>1 DEF Inv, TypeOK
  <2>. QED
    BY <1>1, <2>1
<1>4. row[c.by] = Admin
  BY <1>1, AdminsAre DEF Call
<1>. QED
  BY <1>1, <1>2, <1>3, <1>4, QuietStep

\* A target that is not read as an administrator is another account than the
\* caller's, and leaves some other administrator, who backs the request.
LEMMA ReadStep ==
    ASSUME Inv, NEW r \in Requests, Reads(r)
    PROVE  (OwnRow /\ RemovalsDone /\ Covered /\ AdminRemains)'
<1> DEFINE c == call[r]
           old == Target(r)
<1>1. /\ pc[r] = "auth" /\ c.op # "create" /\ c \in Call
      /\ UNCHANGED <<row, used, call, removals, during>>
  BY DEF Reads, Inv, TypeOK
<1>2. /\ pc'[r] # "auth"
      /\ \A q \in Requests \ {r} : pc'[q] = pc[q] /\ seen'[q] = seen[q]
  BY DEF Reads, Ends, Goto, Inv, TypeOK
<1>3. ASSUME pc'[r] = "commit", Harmful(r)'
      PROVE  Backed(r)' \/ Overlapped
  <2>1. seen'[r] = old /\ ~Guarded(c.op, old, c.body)
    BY <1>3 DEF Reads, Ends, Goto, Inv, TypeOK
  <2>2. c.op = "delete" \/ (c.op = "update" /\ Flushed(Admin, old, c.body) # Admin)
    BY <1>1, <1>3, <2>1 DEF Harmful
  <2>3. old # Admin
    BY <1>1, <2>1, <2>2, UnguardedHarmless DEF Call
  <2>4. row[c.on] # Admin
    BY <1>1, <2>3 DEF Target, Inv, OwnRow
  <2>5. c.on \in Users /\ c.on \notin Admins /\ Admins \subseteq Users
    BY <1>1, <2>4, AdminsAre DEF Call, Admins
  <2>6. Admins' = Admins /\ call'[r].on = c.on
    BY <1>1 DEF Admins
  <2>7. CASE Admins # {}
    BY <2>5, <2>6, <2>7 DEF Backed
  <2>8. CASE Admins = {}
    BY <2>8 DEF Inv, AdminRemains
  <2>. QED
    BY <2>7, <2>8
<1>. QED
  BY <1>1, <1>2, <1>3, QuietStep

LEMMA ReadAddressStep ==
    ASSUME Inv, NEW r \in Requests, ReadsAddress(r)
    PROVE  (OwnRow /\ RemovalsDone /\ Covered /\ AdminRemains)'
<1>1. /\ pc[r] = "auth" /\ call[r].op = "create" /\ pc'[r] # "auth"
      /\ UNCHANGED <<row, call, removals, during>>
      /\ \A q \in Requests \ {r} : pc'[q] = pc[q] /\ seen'[q] = seen[q]
  BY DEF ReadsAddress, Ends, Goto, Inv, TypeOK
<1>2. ~Harmful(r)'
  BY <1>1 DEF Harmful
<1>. QED
  BY <1>1, <1>2, QuietStep

\* The administrators that the guard counted back the request.
LEMMA CountStep ==
    ASSUME Inv, NEW r \in Requests, Counts(r)
    PROVE  (OwnRow /\ RemovalsDone /\ Covered /\ AdminRemains)'
<1>1. /\ pc[r] = "count" /\ pc'[r] # "auth"
      /\ UNCHANGED <<row, call, removals, during>>
      /\ \A q \in Requests \ {r} : pc'[q] = pc[q] /\ seen'[q] = seen[q]
  BY DEF Counts, Ends, Goto, Inv, TypeOK
<1>2. ASSUME pc'[r] = "commit"
      PROVE  Backed(r)'
  <2>1. Others(r) # {}
    BY <1>2 DEF Counts, Ends, Goto, Inv, TypeOK
  <2>2. Others(r) \subseteq Users \ {call[r].on} /\ Others(r) \subseteq Admins
    BY DEF Others, Admins
  <2>3. Admins' = Admins /\ call'[r].on = call[r].on
    BY <1>1 DEF Admins
  <2>. QED
    BY <2>1, <2>2, <2>3 DEF Backed
<1>. QED
  BY <1>1, <1>2, QuietStep

\* What a commit leaves alone.
LEMMA CommitFrame ==
    ASSUME Inv, NEW r \in Requests, Commits(r)
    PROVE  /\ pc[r] = "commit" /\ pc'[r] = "done" /\ call' = call
           /\ r \notin removals
           /\ \A q \in Requests \ {r} : pc'[q] = pc[q] /\ seen'[q] = seen[q]
           /\ \A v \in Users \ {call[r].on} : v \in Admins' <=> v \in Admins
           /\ removals \subseteq removals' /\ removals' \subseteq removals \cup {r}
           /\ \A q \in Requests : during[q] \subseteq during'[q]
<1>1. pc[r] = "commit" /\ pc'[r] = "done" /\ call' = call
      /\ \A q \in Requests \ {r} : pc'[q] = pc[q] /\ seen'[q] = seen[q]
  BY DEF Commits, Ends, Goto, Inv, TypeOK
<1>2. r \notin removals
  BY <1>1 DEF Inv, RemovalsDone
<1>3. \A v \in Users \ {call[r].on} : row'[v] = row[v]
  BY DEF Commits, Inv, TypeOK
<1>4. removals \subseteq removals' /\ removals' \subseteq removals \cup {r}
      /\ \A q \in Requests : during[q] \subseteq during'[q]
  BY DEF Commits, Inv, TypeOK
<1>. QED
  BY <1>1, <1>2, <1>3, <1>4 DEF Admins

\* A commit that takes an administrator away was a harmful one.
LEMMA RemovalIsHarmful ==
    ASSUME Inv, NEW r \in Requests, Commits(r),
           call[r].on \in Admins, call[r].on \notin Admins'
    PROVE  Harmful(r)
<1>1. call[r] \in Call /\ call[r].on \in Users /\ row[call[r].on] = Admin
  BY DEF Commits, Inv, TypeOK, Admins, Admin
<1>2. Exists(call[r].on)
  BY <1>1 DEF Exists, Admin, NoRow
<1>3. row'[call[r].on] = Committed(r)
  BY <1>1 DEF Commits, Inv, TypeOK
<1>4. row'[call[r].on] # Admin
  BY <1>1 DEF Admins, Admin
<1>5. call[r].op # "create"
  BY <1>1, <1>2, <1>3, <1>4 DEF Committed
<1>6. call[r].op = "update" => Flushed(Admin, seen[r], call[r].body) # Admin
  BY <1>1, <1>2, <1>3, <1>4 DEF Committed
<1>. QED
  BY <1>1, <1>5, <1>6 DEF Harmful, Call

LEMMA CommitStep ==
    ASSUME Inv, NEW r \in Requests, Commits(r)
    PROVE  (OwnRow /\ RemovalsDone /\ Covered /\ AdminRemains)'
<1> DEFINE u == call[r].on
           gone == u \in Admins /\ u \notin Admins'
<1>1. OwnRow'
  BY CommitFrame DEF Inv, OwnRow
<1>2. RemovalsDone'
  BY CommitFrame DEF Inv, TypeOK, RemovalsDone
<1>3. Overlapped => Overlapped'
  BY CommitFrame DEF Inv, TypeOK, Overlapped
<1>4. gone => /\ r \in removals'
              /\ \A q \in Requests \ {r} : pc[q] = "commit" => r \in during'[q]
  BY DEF Commits, InFlight, Inv, TypeOK
<1>5. Admins \subseteq Users /\ Admins' \subseteq Users
  BY DEF Admins
<1>6. ASSUME NEW q \in Requests \ {r}, pc[q] = "commit", Backed(q)
      PROVE  Backed(q)'
  <2>1. PICK v \in Users \ {call[q].on} :
          v \in Admins \/ \E p \in removals \cap during[q] : call[p].on = v
    BY <1>6 DEF Backed
  <2>2. call' = call
    BY CommitFrame
  <2>3. CASE v \in Admins /\ v \in Admins'
    BY <2>2, <2>3 DEF Backed
  <2>4. CASE v \in Admins /\ v \notin Admins'
    <3>1. v = u /\ gone
      BY <2>4, CommitFrame
    <3>2. r \in removals' \cap during'[q] /\ call'[r].on = v
      BY <1>4, <1>6, <2>2, <3>1
    <3>. QED
      BY <2>2, <3>2 DEF Backed
  <2>5. CASE \E p \in removals \cap during[q] : call[p].on = v
    <3>1. removals \cap during[q] \subseteq removals' \cap during'[q]
      BY CommitFrame
    <3>. QED
      BY <2>2, <2>5, <3>1 DEF Backed
  <2>. QED
    BY <2>1, <2>3, <2>4, <2>5
<1>7. Covered'
  <2>1. ASSUME NEW q \in Requests, pc'[q] = "commit", Harmful(q)'
        PROVE  Backed(q)' \/ Overlapped'
    <3>1. q # r
      BY <2>1, CommitFrame
    <3>2. pc[q] = "commit" /\ Harmful(q)
      BY <2>1, <3>1, CommitFrame DEF Harmful
    <3>3. Backed(q) \/ Overlapped
      BY <3>2 DEF Inv, Covered
    <3>. QED
      BY <1>3, <1>6, <3>1, <3>2, <3>3
  <2>. QED
    BY <2>1 DEF Covered
<1>8. AdminRemains'
  <2>1. CASE gone
    <3>1. Backed(r) \/ Overlapped
      BY <2>1, RemovalIsHarmful, CommitFrame DEF Inv, Covered
    <3>2. ASSUME Backed(r)
          PROVE  AdminRemains'
      <4>1. PICK v \in Users \ {u} :
              v \in Admins \/ \E q \in removals \cap during[r] : call[q].on = v
        BY <3>2 DEF Backed
      <4>2. CASE v \in Admins
        BY <4>1, <4>2, CommitFrame DEF AdminRemains
      <4>3. ASSUME NEW q \in removals \cap during[r], call[q].on = v
            PROVE  Overlapped'
        <5>1. q \in removals' /\ q \in during'[r] /\ r \in removals' /\ call' = call
          BY <1>4, <2>1, <4>3, CommitFrame
        <5>. QED
          BY <4>1, <4>3, <5>1 DEF Overlapped
      <4>. QED
        BY <4>1, <4>2, <4>3 DEF AdminRemains
    <3>. QED
      BY <1>3, <3>1, <3>2 DEF AdminRemains
  <2>2. CASE ~gone
    <3>1. Admins \subseteq Admins'
      BY <1>5, <2>2, CommitFrame
    <3>. QED
      BY <1>3, <3>1 DEF Inv, AdminRemains
  <2>. QED
    BY <2>1, <2>2
<1>. QED
  BY <1>1, <1>2, <1>7, <1>8

LEMMA InvStep ==
    ASSUME Payloads \subseteq Body, Inv, [Next]_vars
    PROVE  Inv'
<1>1. CASE UNCHANGED vars
  BY <1>1 DEF vars, Inv, TypeOK, NewHasRole, OwnRow, RemovalsDone, Covered, AdminRemains,
     Harmful, Backed, Overlapped, Admins
<1>2. ASSUME NEW r \in Requests, Step(r)
      PROVE  Inv'
  <2>1. TypeOK' /\ NewHasRole'
    BY <1>2, TypeStep DEF Inv
  <2>2. (OwnRow /\ RemovalsDone /\ Covered /\ AdminRemains)'
    BY <1>2, BeginStep, ReadStep, ReadAddressStep, CountStep, CommitStep DEF Step
  <2>. QED
    BY <2>1, <2>2 DEF Inv
<1>. QED
  BY <1>1, <1>2, StepCases

-----------------------------------------------------------------------------

\* The variables keep their types: rows are whole or absent.
THEOREM TypeCorrect ==
    ASSUME Payloads \subseteq Body
    PROVE  Spec => []TypeOK
<1>1. Inv => TypeOK
  BY DEF Inv
<1>. QED
  BY <1>1, InitInv, InvStep, PTL DEF Spec

\* An active administrator is left, unless two removals overlapped, for any
\* number of accounts and requests.
THEOREM AdminRemainsAlways ==
    ASSUME Payloads \subseteq Body
    PROVE  Spec => []AdminRemains
<1>1. Inv => AdminRemains
  BY DEF Inv
<1>. QED
  BY <1>1, InitInv, InvStep, PTL DEF Spec
=============================================================================
