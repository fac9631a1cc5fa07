--------------------------- MODULE SessionProofs ---------------------------
(***************************************************************************)
(* Proofs about RefreshTokens, for any number of tokens and requests, and  *)
(* about SessionClient, for any number of tabs and activities besides.     *)
(***************************************************************************)
EXTENDS SessionClient, TLAPS

\* Every step is the step of one request, the expiry of a token or a stutter.
LEMMA StepCases ==
    ASSUME [Next]_vars
    PROVE  \/ \E r \in Requests : \E t \in Tokens : RefreshReads(r, t) \/ LogoutReads(r, t)
           \/ \E r \in Requests : LoginReads(r) \/ Reactivates(r)
           \/ \E r \in Requests : \E o \in {"password", "deactivate", "delete"} : ChangeReads(r, o)
           \/ \E r \in Requests : LoadsUser(r) \/ BurnReads(r) \/ BurnCommits(r)
           \/ \E r \in Requests : \E n \in Tokens : RotateCommits(r, n) \/ LoginIssues(r, n)
           \/ \E r \in Requests : LogoutCommits(r) \/ ChangeCommits(r)
           \/ \E r \in Requests : DeleteCommits(r) \/ CommitFails(r)
           \/ \E t \in Tokens : Expire(t)
           \/ UNCHANGED vars
BY DEF Next, Arrival, Work

LEMMA InitInv == Init => Inv
BY NoneAssumption
   DEF Init, Inv, TypeOK, Origin, Ops, Labels, Replies, ArgsIssued, OnlyLeavesLive,
       PastEnded, MakersEnded, FamiliesIssued, Rotating

LEMMA TypeStep ==
    ASSUME TypeOK, ArgsIssued, [Next]_vars
    PROVE  TypeOK'
<1> USE DEF TypeOK, Origin, Ops, Labels, Replies, vars, store, Goto, Answer
<1>1. ASSUME NEW r \in Requests, NEW t \in Tokens, RefreshReads(r, t) \/ LogoutReads(r, t)
      PROVE  TypeOK'
  BY <1>1 DEF RefreshReads, LogoutReads, Begin
<1>2. ASSUME NEW r \in Requests, LoginReads(r) \/ Reactivates(r)
      PROVE  TypeOK'
  BY <1>2 DEF LoginReads, Reactivates, Begin
<1>3. ASSUME NEW r \in Requests, NEW o \in {"password", "deactivate", "delete"},
             ChangeReads(r, o)
      PROVE  TypeOK'
  BY <1>3 DEF ChangeReads, Begin, Unrevoked
<1>4. ASSUME NEW r \in Requests, LoadsUser(r) \/ BurnReads(r) \/ BurnCommits(r)
      PROVE  TypeOK'
  BY <1>4 DEF LoadsUser, BurnReads, BurnCommits, FamilyOf, Unrevoked
<1>5. ASSUME NEW r \in Requests, NEW n \in Tokens, RotateCommits(r, n)
      PROVE  TypeOK'
  <2>1. arg[r] \in issued /\ arg[r] \in Tokens /\ origin[arg[r]] \in Origin
    BY <1>5 DEF RotateCommits, ArgsIssued, Rotating
  <2>. QED
    BY <1>5, <2>1 DEF RotateCommits, Insert
<1>6. ASSUME NEW r \in Requests, NEW n \in Tokens, LoginIssues(r, n)
      PROVE  TypeOK'
  BY <1>6 DEF LoginIssues, Insert
<1>7. ASSUME NEW r \in Requests, LogoutCommits(r) \/ ChangeCommits(r)
      PROVE  TypeOK'
  BY <1>7 DEF LogoutCommits, ChangeCommits, ArgsIssued
<1>8. ASSUME NEW r \in Requests, DeleteCommits(r) \/ CommitFails(r)
      PROVE  TypeOK'
  BY <1>8 DEF DeleteCommits, CommitFails
<1>9. ASSUME NEW t \in Tokens, Expire(t)
      PROVE  TypeOK'
  BY <1>9 DEF Expire
<1>10. CASE UNCHANGED vars
  BY <1>10
<1>. QED
  BY <1>1, <1>2, <1>3, <1>4, <1>5, <1>6, <1>7, <1>8, <1>9, <1>10, StepCases

-----------------------------------------------------------------------------
(* What every step keeps, whichever request takes it. *)

\* Requests move forward, an ended request never changes, and what is revoked
\* or expired stays so.
Forward ==
    /\ revoked \subseteq revoked' /\ expired \subseteq expired'
    /\ Exists' => Exists
    /\ \A q \in Requests :
         /\ pc[q] = "done" =>
              pc'[q] = "done" /\ reply'[q] = reply[q] /\ seen'[q] = seen[q]
         /\ pc[q] # "idle" =>
              op'[q] = op[q] /\ arg'[q] = arg[q] /\ past'[q] = past[q] /\ pc'[q] # "idle"
         /\ past'[q] = past[q] \/ (pc[q] = "idle" /\ past'[q] = {u \in Requests : pc[u] = "done"})
         /\ pc[q] = "idle" /\ pc'[q] # "idle" => past'[q] = {u \in Requests : pc[u] = "done"}

\* The table is as it was, or it has one more token, issued by a request that
\* ends with it: for a login, or in exchange for a token that is now revoked.
Grows ==
    \/ issued' = issued /\ origin' = origin
    \/ \E r \in Requests, n \in Tokens :
         /\ n \notin issued /\ issued' = issued \cup {n}
         /\ pc'[r] = "done" /\ origin'[n].by = r /\ arg'[r] = arg[r]
         /\ \A q \in Requests \ {r} : pc'[q] = pc[q]
         /\ \A t \in issued : origin'[t] = origin[t]
         /\ \/ pc[r] = "issue" /\ origin'[n].parent = None /\ origin'[n].family = n
            \/ /\ pc[r] = "rotate" /\ origin'[n].parent = arg[r]
               /\ origin'[n].family = origin[arg[r]].family
               /\ arg[r] \in revoked'

LEMMA StepForward ==
    ASSUME Inv, [Next]_vars
    PROVE  Forward
<1> USE DEF Inv, TypeOK, Origin, Ops, Labels, Replies, vars, store, Goto, Answer, Forward, Exists
<1>1. ASSUME NEW r \in Requests, NEW t \in Tokens, RefreshReads(r, t) \/ LogoutReads(r, t)
      PROVE  Forward
  BY <1>1 DEF RefreshReads, LogoutReads, Begin
<1>2. ASSUME NEW r \in Requests, LoginReads(r) \/ Reactivates(r)
      PROVE  Forward
  BY <1>2 DEF LoginReads, Reactivates, Begin
<1>3. ASSUME NEW r \in Requests, NEW o \in {"password", "deactivate", "delete"},
             ChangeReads(r, o)
      PROVE  Forward
  BY <1>3 DEF ChangeReads, Begin
<1>4. ASSUME NEW r \in Requests, LoadsUser(r) \/ BurnReads(r) \/ BurnCommits(r)
      PROVE  Forward
  BY <1>4 DEF LoadsUser, BurnReads, BurnCommits
<1>5. ASSUME NEW r \in Requests, NEW n \in Tokens, RotateCommits(r, n) \/ LoginIssues(r, n)
      PROVE  Forward
  BY <1>5 DEF RotateCommits, LoginIssues
<1>6. ASSUME NEW r \in Requests, LogoutCommits(r) \/ ChangeCommits(r)
      PROVE  Forward
  BY <1>6 DEF LogoutCommits, ChangeCommits
<1>7. ASSUME NEW r \in Requests, DeleteCommits(r) \/ CommitFails(r)
      PROVE  Forward
  BY <1>7 DEF DeleteCommits, CommitFails
<1>8. ASSUME NEW t \in Tokens, Expire(t)
      PROVE  Forward
  BY <1>8 DEF Expire
<1>9. CASE UNCHANGED vars
  BY <1>9
<1>. QED
  BY <1>1, <1>2, <1>3, <1>4, <1>5, <1>6, <1>7, <1>8, <1>9, StepCases

LEMMA StepGrows ==
    ASSUME Inv, [Next]_vars
    PROVE  Grows
<1>1. ASSUME NEW r \in Requests, NEW n \in Tokens, LoginIssues(r, n)
      PROVE  Grows
  BY <1>1 DEF LoginIssues, Insert, Grows, Goto, Inv, TypeOK, Origin
<1>2. ASSUME NEW r \in Requests, NEW n \in Tokens, RotateCommits(r, n)
      PROVE  Grows
  <2>1. arg[r] \in issued /\ arg[r] # None
    BY <1>2, NoneAssumption DEF RotateCommits, Inv, ArgsIssued, Rotating, TypeOK
  <2>. QED
    BY <1>2, <2>1 DEF RotateCommits, Insert, Grows, Goto, Inv, TypeOK, Origin
<1>3. ASSUME NEW r \in Requests, NEW t \in Tokens, RefreshReads(r, t) \/ LogoutReads(r, t)
      PROVE  Grows
  BY <1>3 DEF RefreshReads, LogoutReads, Grows, store
<1>4. ASSUME NEW r \in Requests, LoginReads(r) \/ Reactivates(r) \/ LoadsUser(r) \/ BurnReads(r)
      PROVE  Grows
  BY <1>4 DEF LoginReads, Reactivates, LoadsUser, BurnReads, Grows, store
<1>5. ASSUME NEW r \in Requests, NEW o, ChangeReads(r, o)
      PROVE  Grows
  BY <1>5 DEF ChangeReads, Grows, store
<1>6. ASSUME NEW r \in Requests, \/ BurnCommits(r) \/ LogoutCommits(r) \/ ChangeCommits(r)
                                 \/ DeleteCommits(r) \/ CommitFails(r)
      PROVE  Grows
  BY <1>6 DEF BurnCommits, LogoutCommits, ChangeCommits, DeleteCommits, CommitFails, Grows, store
<1>7. CASE UNCHANGED vars \/ \E t \in Tokens : Expire(t)
  BY <1>7 DEF Expire, Grows, vars, store
<1>. QED
  BY <1>1, <1>2, <1>3, <1>4, <1>5, <1>6, <1>7, StepCases

-----------------------------------------------------------------------------
(* The invariant. *)

LEMMA ArgsStep ==
    ASSUME Inv, [Next]_vars
    PROVE  ArgsIssued'
<1>1. issued \subseteq issued'
  BY StepGrows DEF Grows
<1>2. ASSUME NEW q \in Requests,
             pc'[q] \in Rotating \cup {"burn", "burning", "logout"},
             pc[q] \notin Rotating \cup {"burn", "burning", "logout"}
      PROVE  arg'[q] \in issued
  <2> USE DEF Inv, TypeOK, Goto, Rotating, vars, store
  <2>1. CASE \E r \in Requests : \E t \in Tokens : RefreshReads(r, t) \/ LogoutReads(r, t)
    BY <1>2, <2>1 DEF RefreshReads, LogoutReads, Begin
  <2>2. CASE \/ \E r \in Requests : LoginReads(r) \/ Reactivates(r)
             \/ \E r \in Requests : \E o \in {"password", "deactivate", "delete"} : ChangeReads(r, o)
    BY <1>2, <2>2 DEF LoginReads, Reactivates, ChangeReads
  <2>3. CASE \E r \in Requests : LoadsUser(r) \/ BurnReads(r) \/ BurnCommits(r)
    BY <1>2, <2>3 DEF LoadsUser, BurnReads, BurnCommits
  <2>4. CASE \E r \in Requests : \E n \in Tokens : RotateCommits(r, n) \/ LoginIssues(r, n)
    BY <1>2, <2>4 DEF RotateCommits, LoginIssues
  <2>5. CASE \E r \in Requests : \/ LogoutCommits(r) \/ ChangeCommits(r)
                                 \/ DeleteCommits(r) \/ CommitFails(r)
    BY <1>2, <2>5 DEF LogoutCommits, ChangeCommits, DeleteCommits, CommitFails
  <2>6. CASE UNCHANGED vars \/ \E t \in Tokens : Expire(t)
    BY <1>2, <2>6 DEF Expire
  <2>. QED
    BY <2>1, <2>2, <2>3, <2>4, <2>5, <2>6, StepCases
<1>3. ASSUME NEW q \in Requests, pc[q] \in Rotating \cup {"burn", "burning", "logout"}
      PROVE  arg'[q] \in issued
  BY <1>3, StepForward DEF Forward, Inv, ArgsIssued, Rotating
<1>. QED
  BY <1>1, <1>2, <1>3 DEF ArgsIssued

LEMMA InvStep == Inv /\ [Next]_vars => Inv'
<1> SUFFICES ASSUME Inv, [Next]_vars PROVE Inv'
  OBVIOUS
<1>1. Forward /\ Grows
  BY StepForward, StepGrows
<1>2. TypeOK'
  BY TypeStep DEF Inv
<1>3. ArgsIssued'
  BY ArgsStep
<1>4. PastEnded'
  BY <1>1 DEF Forward, Inv, PastEnded
<1>5. MakersEnded'
  BY <1>1 DEF Forward, Grows, Inv, MakersEnded
<1>6. OnlyLeavesLive'
  <2>1. \A t \in issued : origin[t].parent # None => origin[t].parent \in issued
    BY DEF Inv, TypeOK, OnlyLeavesLive
  <2>2. \A r \in Requests : pc[r] = "rotate" => arg[r] \in issued
    BY DEF Inv, ArgsIssued, Rotating
  <2>. QED
    BY <1>1, <2>1, <2>2 DEF Forward, Grows, Inv, OnlyLeavesLive
<1>7. FamiliesIssued'
  BY <1>1 DEF Grows, Inv, FamiliesIssued, ArgsIssued, Rotating
<1>. QED
  BY <1>2, <1>3, <1>4, <1>5, <1>6, <1>7 DEF Inv

LEMMA Invariant == Spec => []Inv
BY InitInv, InvStep, PTL DEF Spec

\* The variables of the model keep their types.
THEOREM TypeCorrect == Spec => []TypeOK
<1>1. Inv => TypeOK
  BY DEF Inv
<1>. QED
  BY <1>1, Invariant, PTL

\* An exchanged token is revoked for good: only the newest tokens are live.
THEOREM OnlyLeavesLiveAlways == Spec => []OnlyLeavesLive
<1>1. Inv => OnlyLeavesLive
  BY DEF Inv
<1>. QED
  BY <1>1, Invariant, PTL

-----------------------------------------------------------------------------
(* Who gets on the way to a rotation. *)

\* A request that starts a rotation found its token active, and so without a
\* successor; one that is already rotating keeps its token.
EntersRotating ==
    \A q \in Requests : pc'[q] \in Rotating =>
        \/ pc[q] \in Rotating
        \/ /\ pc[q] = "idle" /\ arg'[q] \in issued /\ IsActive(arg'[q])
           /\ issued' = issued /\ origin' = origin

LEMMA StepEnters ==
    ASSUME Inv, [Next]_vars
    PROVE  EntersRotating
<1> USE DEF Inv, TypeOK, Goto, Rotating, vars, store, EntersRotating
<1>1. CASE \E r \in Requests : \E t \in Tokens : RefreshReads(r, t) \/ LogoutReads(r, t)
  BY <1>1 DEF RefreshReads, LogoutReads, Begin
<1>2. CASE \/ \E r \in Requests : LoginReads(r) \/ Reactivates(r)
           \/ \E r \in Requests : \E o \in {"password", "deactivate", "delete"} : ChangeReads(r, o)
  BY <1>2 DEF LoginReads, Reactivates, ChangeReads
<1>3. CASE \E r \in Requests : LoadsUser(r) \/ BurnReads(r) \/ BurnCommits(r)
  BY <1>3 DEF LoadsUser, BurnReads, BurnCommits
<1>4. CASE \E r \in Requests : \E n \in Tokens : RotateCommits(r, n) \/ LoginIssues(r, n)
  BY <1>4 DEF RotateCommits, LoginIssues
<1>5. CASE \E r \in Requests : \/ LogoutCommits(r) \/ ChangeCommits(r)
                               \/ DeleteCommits(r) \/ CommitFails(r)
  BY <1>5 DEF LogoutCommits, ChangeCommits, DeleteCommits, CommitFails
<1>6. CASE UNCHANGED vars \/ \E t \in Tokens : Expire(t)
  BY <1>6 DEF Expire
<1>. QED
  BY <1>1, <1>2, <1>3, <1>4, <1>5, <1>6, StepCases

-----------------------------------------------------------------------------
(* A token has one successor, unless its exchanges were in flight together. *)

UseInv == Inv /\ NoEarlierSuccessor /\ SingleUse

LEMMA UseInit == Init => UseInv
BY InitInv DEF UseInv, NoEarlierSuccessor, SingleUse, Init, Rotating

LEMMA UseStep == UseInv /\ [Next]_vars => UseInv'
<1> SUFFICES ASSUME UseInv, [Next]_vars PROVE UseInv'
  OBVIOUS
<1>1. Forward /\ Grows /\ EntersRotating /\ Inv /\ Inv'
  BY StepForward, StepGrows, StepEnters, InvStep DEF UseInv
<1>2. \A r \in Requests : arg[r] \in Tokens \cup {None}
  BY <1>1 DEF Inv, TypeOK
<1>3. ASSUME NEW q \in Requests, pc'[q] \in Rotating, NEW t \in issued',
             origin'[t].parent = arg'[q]
      PROVE  origin'[t].by \notin past'[q]
  <2>1. CASE pc[q] \in Rotating
    <3>1. arg'[q] = arg[q] /\ past'[q] = past[q] /\ pc[q] # "done"
      BY <1>1, <2>1 DEF Forward, Rotating
    <3>2. CASE t \in issued
      BY <1>1, <1>3, <2>1, <3>1, <3>2 DEF Grows, UseInv, NoEarlierSuccessor
    <3>3. CASE t \notin issued
      BY <1>1, <1>3, <3>1, <3>3 DEF Grows, Inv, PastEnded
    <3>. QED
      BY <3>2, <3>3
  <2>2. CASE pc[q] \notin Rotating
    <3>1. /\ arg'[q] \in issued /\ arg'[q] \notin revoked
          /\ issued' = issued /\ origin' = origin
      BY <1>1, <1>3, <2>2 DEF EntersRotating, IsActive
    <3>2. arg'[q] # None
      BY <1>1, <3>1, NoneAssumption DEF Inv, TypeOK
    <3>. QED
      BY <1>1, <1>3, <3>1, <3>2 DEF Inv, OnlyLeavesLive
  <2>. QED
    BY <2>1, <2>2
<1>4. NoEarlierSuccessor'
  BY <1>3 DEF NoEarlierSuccessor
<1> DEFINE Apart(a, b) == a \notin past'[b] /\ b \notin past'[a]
<1>5. \A a, b \in Requests : Overlap(a, b) /\ pc[a] = "done" /\ pc[b] = "done" => Apart(a, b)
  BY <1>1 DEF Forward, Overlap
<1>6. ASSUME NEW t \in issued, NEW u \in issued, t # u,
             origin[t].parent = origin[u].parent, origin[t].parent # None
      PROVE  Apart(origin[t].by, origin[u].by)
  <2>1. Overlap(origin[t].by, origin[u].by)
    BY <1>6 DEF UseInv, SingleUse
  <2>2. \A v \in issued : origin[v].by \in Requests /\ pc[origin[v].by] = "done"
    BY <1>1 DEF Inv, MakersEnded
  <2>. QED
    BY <1>5, <2>1, <2>2
<1>7. ASSUME NEW r \in Requests, pc[r] = "rotate", NEW u \in issued, origin[u].parent = arg[r]
      PROVE  Apart(r, origin[u].by)
  <2>1. origin[u].by \in Requests /\ pc[origin[u].by] = "done"
    BY <1>1 DEF Inv, MakersEnded
  <2>2. origin[u].by \notin past[r]
    BY <1>7 DEF UseInv, NoEarlierSuccessor, Rotating
  <2>3. r \notin past[origin[u].by]
    BY <1>1, <1>7, <2>1 DEF Inv, PastEnded
  <2>. QED
    BY <1>1, <1>7, <2>1, <2>2, <2>3 DEF Forward
<1> HIDE DEF Apart
<1>8. SingleUse'
  <2> SUFFICES ASSUME NEW t \in issued', NEW u \in issued', t # u,
                      origin'[t].parent = origin'[u].parent, origin'[t].parent # None
               PROVE  Apart(origin'[t].by, origin'[u].by)
    BY DEF SingleUse, Overlap, Apart
  <2>1. CASE issued' = issued /\ origin' = origin
    BY <1>6, <2>1
  <2>2. CASE ~(issued' = issued /\ origin' = origin)
    <3>1. PICK r \in Requests, n \in Tokens :
            /\ n \notin issued /\ issued' = issued \cup {n}
            /\ origin'[n].by = r
            /\ \A v \in issued : origin'[v] = origin[v]
            /\ \/ origin'[n].parent = None
               \/ pc[r] = "rotate" /\ origin'[n].parent = arg[r]
      BY <1>1, <2>2 DEF Grows
    <3>2. CASE t # n /\ u # n
      BY <1>6, <3>1, <3>2
    <3>3. CASE t = n
      <4>1. Apart(r, origin[u].by)
        BY <1>7, <3>1, <3>3
      <4>. QED
        BY <3>1, <3>3, <4>1
    <3>4. CASE u = n
      <4>1. Apart(r, origin[t].by)
        BY <1>7, <3>1, <3>4
      <4>. QED
        BY <3>1, <3>4, <4>1 DEF Apart
    <3>. QED
      BY <3>2, <3>3, <3>4
  <2>. QED
    BY <2>1, <2>2
<1>. QED
  BY <1>1, <1>4, <1>8 DEF UseInv

\* Clients that wait for their answers never get two successors of one token.
THEOREM SingleUseAlways == Spec => []SingleUse
<1>1. UseInv => SingleUse
  BY DEF UseInv
<1>. QED
  BY <1>1, UseInit, UseStep, PTL DEF Spec

-----------------------------------------------------------------------------
(* Dead families. *)

LEMMA DeadStep ==
    ASSUME Inv, [Next]_vars, NEW f \in issued, Dead(f)
    PROVE  Dead(f)'
<1>1. Forward /\ Grows /\ EntersRotating /\ ArgsIssued
  BY StepForward, StepGrows, StepEnters DEF Inv
<1>2. \A t \in issued : ~IsActive(t) => ~IsActive(t)'
  BY <1>1 DEF Forward, Grows, IsActive, Exists
<1>3. \A q \in Requests : pc'[q] \in Rotating => origin'[arg'[q]].family # f
  <2> SUFFICES ASSUME NEW q \in Requests, pc'[q] \in Rotating
               PROVE  origin'[arg'[q]].family # f
    OBVIOUS
  <2>1. CASE pc[q] \in Rotating
    <3>1. arg'[q] = arg[q] /\ arg[q] \in issued /\ origin[arg[q]].family # f
      BY <1>1, <2>1 DEF Forward, ArgsIssued, Dead, Rotating
    <3>. QED
      BY <1>1, <3>1 DEF Grows
  <2>2. CASE pc[q] \notin Rotating
    BY <1>1, <2>2 DEF EntersRotating, Dead
  <2>. QED
    BY <2>1, <2>2
<1>4. \A t \in issued' : origin'[t].family = f => ~IsActive(t)'
  BY <1>1, <1>2 DEF Grows, Dead, ArgsIssued, Rotating
<1>. QED
  BY <1>3, <1>4 DEF Dead, Rotating

\* Nothing but a rotation that is already under way revives a dead family.
THEOREM DeadStaysDeadHolds == Spec => DeadStaysDead
<1>1. Inv /\ [Next]_vars => [\A f \in issued : Dead(f) => Dead(f)']_vars
  BY DeadStep
<1>. QED
  BY <1>1, Invariant, PTL DEF Spec, DeadStaysDead

-----------------------------------------------------------------------------
(* A new password, a deactivation. *)

Administers(r) == op[r] \in {"password", "deactivate"}

\* Such a request reads every live token when it begins, revokes what it read
\* when it ends well, and takes no other step.
ChangeMoves ==
    \A r \in Requests : Administers(r)' =>
        \/ pc[r] = "idle" /\ pc'[r] = "change" /\ seen'[r] = Unrevoked /\ issued' = issued
        \/ pc[r] = "change" /\ pc'[r] = "done" /\ (reply'[r] = "ok" => seen[r] \subseteq revoked')
        \/ pc'[r] = pc[r] /\ reply'[r] = reply[r] /\ seen'[r] = seen[r] /\ Administers(r)
        \/ pc'[r] = "done" /\ reply'[r] # "ok"

AdminInv ==
    /\ Inv /\ ChangeCovers /\ ChangeEndsSessions
    /\ \A r \in Requests : pc[r] = "idle" => op[r] = "none"
    /\ \A r \in Requests : Administers(r) => pc[r] \in {"change", "done"}

LEMMA StepChanges ==
    ASSUME AdminInv, [Next]_vars
    PROVE  ChangeMoves
<1> USE DEF AdminInv, Inv, TypeOK, Goto, Answer, Administers, vars, store, ChangeMoves
<1>1. CASE \E r \in Requests : \E t \in Tokens : RefreshReads(r, t) \/ LogoutReads(r, t)
  BY <1>1 DEF RefreshReads, LogoutReads, Begin
<1>2. CASE \E r \in Requests : LoginReads(r) \/ Reactivates(r)
  BY <1>2 DEF LoginReads, Reactivates, Begin
<1>3. CASE \E r \in Requests : \E o \in {"password", "deactivate", "delete"} : ChangeReads(r, o)
  BY <1>3 DEF ChangeReads, Begin
<1>4. CASE \E r \in Requests : LoadsUser(r) \/ BurnReads(r) \/ BurnCommits(r)
  BY <1>4 DEF LoadsUser, BurnReads, BurnCommits
<1>5. CASE \E r \in Requests : \E n \in Tokens : RotateCommits(r, n) \/ LoginIssues(r, n)
  BY <1>5 DEF RotateCommits, LoginIssues
<1>6. CASE \E r \in Requests : LogoutCommits(r) \/ ChangeCommits(r)
  BY <1>6 DEF LogoutCommits, ChangeCommits
<1>7. CASE \E r \in Requests : DeleteCommits(r) \/ CommitFails(r)
  BY <1>7 DEF DeleteCommits, CommitFails
<1>8. CASE UNCHANGED vars \/ \E t \in Tokens : Expire(t)
  BY <1>8 DEF Expire
<1>. QED
  BY <1>1, <1>2, <1>3, <1>4, <1>5, <1>6, <1>7, <1>8, StepCases

LEMMA AdminInit == Init => AdminInv
BY InitInv DEF Init, AdminInv, ChangeCovers, ChangeEndsSessions, Administers, Done

\* A token issued while a request has not ended is not of the request's past.
LEMMA NewIsNotPast ==
    ASSUME Inv, [Next]_vars, NEW r \in Requests, NEW t \in issued' \ issued
    PROVE  origin'[t].by \in Requests /\ origin'[t].by \notin past[r]
BY StepGrows DEF Grows, Inv, PastEnded

LEMMA AdminStep == AdminInv /\ [Next]_vars => AdminInv'
<1> SUFFICES ASSUME AdminInv, [Next]_vars PROVE AdminInv'
  OBVIOUS
<1>1. Forward /\ Grows /\ ChangeMoves /\ Inv /\ Inv'
  BY StepForward, StepGrows, StepChanges, InvStep DEF AdminInv
<1>2. \A t \in issued : IsActive(t)' => IsActive(t)
  BY <1>1 DEF Forward, IsActive, Exists
<1>3. \A t \in issued : origin'[t] = origin[t]
  BY <1>1 DEF Grows
<1>4. ASSUME NEW r \in Requests, Administers(r)', pc'[r] = "change",
             NEW t \in issued', IsActive(t)'
      PROVE  t \in seen'[r] \/ origin'[t].by \notin past'[r]
  <2>1. CASE pc[r] = "idle"
    BY <1>1, <1>2, <1>4, <2>1 DEF ChangeMoves, IsActive, Unrevoked, Exists, Administers
  <2>2. CASE pc[r] # "idle"
    <3>1. pc[r] = "change" /\ seen'[r] = seen[r] /\ Administers(r) /\ past'[r] = past[r]
      BY <1>1, <1>4, <2>2 DEF ChangeMoves, Forward
    <3>2. CASE t \in issued
      BY <1>2, <1>3, <1>4, <3>1, <3>2 DEF AdminInv, ChangeCovers, Administers
    <3>3. CASE t \notin issued
      BY <1>1, <1>4, <3>1, <3>3, NewIsNotPast
    <3>. QED
      BY <3>2, <3>3
  <2>. QED
    BY <2>1, <2>2
<1>5. ASSUME NEW r \in Requests, Administers(r)', Done(r, "ok")', NEW t \in issued', IsActive(t)'
      PROVE  origin'[t].by \notin past'[r]
  <2>1. pc[r] # "idle" /\ past'[r] = past[r] /\ Administers(r)
    BY <1>1, <1>5 DEF ChangeMoves, Forward, Done, AdminInv, Administers
  <2>2. CASE t \notin issued
    BY <1>1, <1>5, <2>1, <2>2, NewIsNotPast
  <2>3. CASE t \in issued /\ pc[r] = "done"
    BY <1>1, <1>2, <1>3, <1>5, <2>1, <2>3
       DEF Forward, AdminInv, ChangeEndsSessions, Done, Administers
  <2>4. CASE t \in issued /\ pc[r] # "done"
    <3>1. pc[r] = "change" /\ seen[r] \subseteq revoked'
      BY <1>1, <1>5, <2>1, <2>4 DEF ChangeMoves, Done
    <3>2. t \notin seen[r]
      BY <1>5, <3>1 DEF IsActive
    <3>. QED
      BY <1>2, <1>3, <1>5, <2>1, <2>4, <3>1, <3>2 DEF AdminInv, ChangeCovers, Administers
  <2>. QED
    BY <2>2, <2>3, <2>4
<1>6. ChangeCovers' /\ ChangeEndsSessions'
  BY <1>4, <1>5 DEF ChangeCovers, ChangeEndsSessions, Administers
<1>7. \A r \in Requests : Administers(r)' => pc'[r] \in {"change", "done"}
  BY <1>1 DEF ChangeMoves, AdminInv
<1>8. \A r \in Requests : pc'[r] = "idle" => op'[r] = "none"
  <2> USE DEF AdminInv, Inv, TypeOK, Goto, vars, store
  <2>1. CASE \E r \in Requests : \E t \in Tokens : RefreshReads(r, t) \/ LogoutReads(r, t)
    BY <2>1 DEF RefreshReads, LogoutReads, Begin
  <2>2. CASE \/ \E r \in Requests : LoginReads(r) \/ Reactivates(r)
             \/ \E r \in Requests : \E o \in {"password", "deactivate", "delete"} : ChangeReads(r, o)
    BY <2>2 DEF LoginReads, Reactivates, ChangeReads, Begin
  <2>3. CASE \E r \in Requests : LoadsUser(r) \/ BurnReads(r) \/ BurnCommits(r)
    BY <2>3 DEF LoadsUser, BurnReads, BurnCommits
  <2>4. CASE \E r \in Requests : \E n \in Tokens : RotateCommits(r, n) \/ LoginIssues(r, n)
    BY <2>4 DEF RotateCommits, LoginIssues
  <2>5. CASE \E r \in Requests : \/ LogoutCommits(r) \/ ChangeCommits(r)
                                 \/ DeleteCommits(r) \/ CommitFails(r)
    BY <2>5 DEF LogoutCommits, ChangeCommits, DeleteCommits, CommitFails
  <2>6. CASE UNCHANGED vars \/ \E t \in Tokens : Expire(t)
    BY <2>6 DEF Expire
  <2>. QED
    BY <2>1, <2>2, <2>3, <2>4, <2>5, <2>6, StepCases
<1>. QED
  BY <1>1, <1>6, <1>7, <1>8 DEF AdminInv

\* A new password or a deactivation ends every session that was there when the
\* request for it began.
THEOREM ChangeEndsSessionsAlways == Spec => []ChangeEndsSessions
<1>1. AdminInv => ChangeEndsSessions
  BY DEF AdminInv
<1>. QED
  BY <1>1, AdminInit, AdminStep, PTL DEF Spec

-----------------------------------------------------------------------------
(* The refusal of a replayed token. *)

\* A refusal looks for its family once, revokes what it found and ends.
BurnMoves ==
    \A r \in Requests : reply'[r] = "reuse" =>
        \/ /\ pc[r] = "idle" /\ pc'[r] = "burn" /\ arg'[r] \in issued
        \/ /\ pc[r] = "burn" /\ pc'[r] = "burning" /\ reply[r] = "reuse"
           /\ seen'[r] = FamilyOf(arg[r]) \cap Unrevoked
           /\ issued' = issued /\ origin' = origin
        \/ /\ pc[r] = "burning" /\ pc'[r] = "done" /\ reply[r] = "reuse"
           /\ seen[r] \subseteq revoked' /\ issued' = issued /\ origin' = origin
           /\ \A q \in Requests : pc'[q] \in Rotating => pc[q] \in Rotating
        \/ /\ pc'[r] = pc[r] /\ reply[r] = "reuse" /\ seen'[r] = seen[r]

ReplayInv == Inv /\ ReplayCovers /\ ReplayEndsFamily

LEMMA StepBurns ==
    ASSUME ReplayInv, [Next]_vars
    PROVE  BurnMoves
<1> USE DEF ReplayInv, ReplayCovers, Inv, TypeOK, Goto, Answer, Rotating, vars, store, BurnMoves
<1>1. CASE \E r \in Requests : \E t \in Tokens : RefreshReads(r, t) \/ LogoutReads(r, t)
  BY <1>1 DEF RefreshReads, LogoutReads, Begin
<1>2. CASE \E r \in Requests : LoginReads(r) \/ Reactivates(r)
  BY <1>2 DEF LoginReads, Reactivates, Begin
<1>3. CASE \E r \in Requests : \E o \in {"password", "deactivate", "delete"} : ChangeReads(r, o)
  BY <1>3 DEF ChangeReads, Begin
<1>4. CASE \E r \in Requests : LoadsUser(r) \/ BurnReads(r) \/ BurnCommits(r)
  BY <1>4 DEF LoadsUser, BurnReads, BurnCommits
<1>5. CASE \E r \in Requests : \E n \in Tokens : RotateCommits(r, n) \/ LoginIssues(r, n)
  BY <1>5 DEF RotateCommits, LoginIssues
<1>6. CASE \E r \in Requests : LogoutCommits(r) \/ ChangeCommits(r)
  BY <1>6 DEF LogoutCommits, ChangeCommits
<1>7. CASE \E r \in Requests : DeleteCommits(r) \/ CommitFails(r)
  BY <1>7 DEF DeleteCommits, CommitFails
<1>8. CASE UNCHANGED vars \/ \E t \in Tokens : Expire(t)
  BY <1>8 DEF Expire
<1>. QED
  BY <1>1, <1>2, <1>3, <1>4, <1>5, <1>6, <1>7, <1>8, StepCases

LEMMA ReplayInit == Init => ReplayInv
BY InitInv DEF Init, ReplayInv, ReplayCovers, ReplayEndsFamily, Done

\* A token issued while a request is being answered overlaps it.
LEMMA NewOverlaps ==
    ASSUME Inv, [Next]_vars, NEW r \in Requests, pc[r] \notin {"idle", "done"},
           NEW t \in issued' \ issued
    PROVE  Overlap(origin[t].by, r)'
<1>1. Forward /\ Grows
  BY StepForward, StepGrows
<1>2. origin'[t].by \notin past[r] /\ past'[r] = past[r]
  BY <1>1, NewIsNotPast DEF Forward
<1>3. PICK q \in Requests : pc[q] \in {"issue", "rotate"} /\ origin'[t].by = q
  BY <1>1 DEF Grows
<1>4. past'[q] = past[q] /\ r \notin past[q]
  BY <1>1, <1>3 DEF Forward, Inv, PastEnded
<1>. QED
  BY <1>2, <1>3, <1>4 DEF Overlap

\* Two requests that have begun overlap for good, or do not.
LEMMA OverlapKept ==
    ASSUME Inv, [Next]_vars, NEW q \in Requests, NEW r \in Requests,
           pc[q] # "idle", pc[r] # "idle", Overlap(q, r)
    PROVE  q \notin past'[r] /\ r \notin past'[q]
BY StepForward DEF Forward, Overlap

LEMMA RacedKept ==
    ASSUME Inv, [Next]_vars, NEW r \in Requests, pc[r] # "idle", arg[r] \in issued, Raced(r)
    PROVE  Raced(r)'
<1>1. Forward /\ Grows
  BY StepForward, StepGrows
<1>2. PICK t \in FamilyOf(arg[r]) : Overlap(origin[t].by, r)
  BY DEF Raced
<1>3. t \in issued /\ origin[t].by \in Requests /\ pc[origin[t].by] = "done"
  BY <1>2 DEF FamilyOf, Inv, MakersEnded
<1>4. /\ origin'[t] = origin[t] /\ t \in issued'
      /\ arg'[r] = arg[r] /\ origin'[arg[r]] = origin[arg[r]]
  BY <1>1, <1>3 DEF Forward, Grows
<1>5. origin[t].by \notin past'[r] /\ r \notin past'[origin[t].by]
  BY <1>2, <1>3, OverlapKept
<1>6. t \in FamilyOf(arg[r])'
  BY <1>2, <1>4 DEF FamilyOf
<1>. QED
  BY <1>4, <1>5, <1>6 DEF Raced, Overlap

LEMMA ReplayStep == ReplayInv /\ [Next]_vars => ReplayInv'
<1> SUFFICES ASSUME ReplayInv, [Next]_vars PROVE ReplayInv'
  OBVIOUS
<1>1. Forward /\ Grows /\ BurnMoves /\ EntersRotating /\ Inv /\ Inv'
  BY StepForward, StepGrows, StepBurns, StepEnters, InvStep DEF ReplayInv
<1>2. \A t \in issued : /\ t \in issued' /\ origin'[t] = origin[t]
                        /\ IsActive(t)' => IsActive(t)
  BY <1>1 DEF Forward, Grows, IsActive, Exists
<1>3. ASSUME NEW r \in Requests, reply'[r] = "reuse"
      PROVE  /\ pc'[r] \in {"burn", "burning", "done"} /\ arg'[r] \in issued'
             /\ pc[r] # "idle" => reply[r] = "reuse" /\ arg[r] \in issued /\ arg'[r] = arg[r]
  <2>1. pc[r] # "idle" => reply[r] = "reuse"
    BY <1>1, <1>3 DEF BurnMoves, ReplayInv, ReplayCovers
  <2>2. reply[r] = "reuse" => pc[r] \in {"burn", "burning", "done"} /\ arg[r] \in issued
    BY DEF ReplayInv, ReplayCovers
  <2>. QED
    BY <1>1, <1>2, <1>3, <2>1, <2>2 DEF BurnMoves, Forward
<1>4. ASSUME NEW r \in Requests, reply'[r] = "reuse", pc'[r] = "burning",
             NEW t \in FamilyOf(arg[r])', IsActive(t)'
      PROVE  t \in seen'[r] \/ Overlap(origin[t].by, r)'
  <2>1. pc[r] \in {"burn", "burning"} /\ arg[r] \in issued /\ arg'[r] = arg[r]
    BY <1>1, <1>3, <1>4 DEF BurnMoves
  <2>2. CASE t \notin issued
    BY <1>1, <1>4, <2>1, <2>2, NewOverlaps DEF FamilyOf
  <2>3. CASE t \in issued
    <3>1. t \in FamilyOf(arg[r]) /\ IsActive(t)
      BY <1>2, <1>4, <2>1, <2>3 DEF FamilyOf
    <3>2. CASE pc[r] = "burn"
      BY <1>1, <1>4, <3>1, <3>2 DEF BurnMoves, IsActive, Unrevoked
    <3>3. CASE pc[r] = "burning"
      <4>1. seen'[r] = seen[r] /\ reply[r] = "reuse"
        BY <1>1, <1>4, <3>3 DEF BurnMoves
      <4>2. t \in seen[r] \/ Overlap(origin[t].by, r)
        BY <3>1, <3>3, <4>1 DEF ReplayInv, ReplayCovers
      <4>3. origin[t].by \in Requests /\ pc[origin[t].by] = "done"
        BY <1>1, <2>3 DEF Inv, MakersEnded
      <4>4. Overlap(origin[t].by, r) => Overlap(origin[t].by, r)'
        BY <1>1, <1>2, <2>3, <3>3, <4>3, OverlapKept DEF Overlap
      <4>. QED
        BY <4>1, <4>2, <4>4
    <3>. QED
      BY <2>1, <3>2, <3>3
  <2>. QED
    BY <2>2, <2>3
\* The step that ends a refusal.
<1>5. ASSUME NEW r \in Requests, reply'[r] = "reuse", pc[r] # "done", pc'[r] = "done"
      PROVE  /\ Raced(r)' \/ \A t \in FamilyOf(arg[r])' : ~IsActive(t)'
             /\ \A q \in Requests : pc'[q] \in Rotating => q \notin past'[r] /\ r \notin past'[q]
  <2>1. /\ pc[r] = "burning" /\ reply[r] = "reuse" /\ seen[r] \subseteq revoked'
        /\ issued' = issued /\ origin' = origin
        /\ \A q \in Requests : pc'[q] \in Rotating => pc[q] \in Rotating
    BY <1>1, <1>5 DEF BurnMoves
  <2>2. arg[r] \in issued /\ arg'[r] = arg[r]
    BY <1>3, <1>5, <2>1
  <2>3. ASSUME NEW t \in FamilyOf(arg[r]), IsActive(t)'
        PROVE  Raced(r)
    <3>1. t \in issued /\ IsActive(t) /\ t \notin seen[r]
      BY <1>2, <2>1, <2>3 DEF FamilyOf, IsActive
    <3>. QED
      BY <2>1, <2>3, <3>1 DEF ReplayInv, ReplayCovers, Raced
  <2>4. FamilyOf(arg[r])' = FamilyOf(arg[r])
    BY <2>1, <2>2 DEF FamilyOf
  <2>5. \A q \in Requests : pc'[q] \in Rotating => q \notin past'[r] /\ r \notin past'[q]
    BY <1>1, <2>1 DEF Forward, Inv, PastEnded, Rotating
  <2>. QED
    BY <1>1, <2>1, <2>2, <2>3, <2>4, <2>5, RacedKept
\* A step after it.
<1>6. ASSUME NEW r \in Requests, reply'[r] = "reuse", pc[r] = "done", ~Raced(r)'
      PROVE  /\ \A t \in FamilyOf(arg[r])' : ~IsActive(t)'
             /\ \A q \in Requests :
                  pc'[q] \in Rotating /\ origin'[arg'[q]].family = origin'[arg'[r]].family
                      => q \notin past'[r] /\ r \notin past'[q]
  <2>1. reply[r] = "reuse" /\ arg[r] \in issued /\ arg'[r] = arg[r]
    BY <1>3, <1>6
  <2>2. ~Raced(r)
    BY <1>1, <1>6, <2>1, RacedKept
  <2>3. \A t \in FamilyOf(arg[r]) : ~IsActive(t)
    BY <1>6, <2>1, <2>2 DEF ReplayInv, ReplayEndsFamily, Done, Raced
  <2>4. \A q \in Requests :
          pc[q] \in Rotating /\ origin[arg[q]].family = origin[arg[r]].family
              => Overlap(q, r)
    BY <1>6, <2>1, <2>2 DEF ReplayInv, ReplayCovers
  <2>5. ASSUME NEW t \in issued' \ issued PROVE t \notin FamilyOf(arg[r])'
    <3>1. SUFFICES ASSUME origin'[t].family = origin[arg[r]].family
                   PROVE  FALSE
      BY <1>2, <2>1 DEF FamilyOf
    <3>2. PICK q \in Requests :
            /\ origin'[t].by = q
            /\ \/ pc[q] = "issue" /\ origin'[t].family = t
               \/ pc[q] = "rotate" /\ origin'[t].family = origin[arg[q]].family
      BY <1>1 DEF Grows
    <3>3. pc[q] = "rotate" /\ origin[arg[q]].family = origin[arg[r]].family
      BY <1>1, <2>1, <3>1, <3>2 DEF Inv, FamiliesIssued
    <3>4. Overlap(q, r)
      BY <2>4, <3>3 DEF Rotating
    <3>5. q \notin past'[r] /\ r \notin past'[q]
      BY <1>1, <1>6, <3>3, <3>4, OverlapKept DEF Rotating
    <3>6. t \in FamilyOf(arg[r])'
      BY <1>2, <2>1, <3>1 DEF FamilyOf
    <3>. QED
      BY <1>6, <3>2, <3>5, <3>6 DEF Raced, Overlap
  <2>6. \A t \in FamilyOf(arg[r])' : ~IsActive(t)'
    BY <1>2, <2>1, <2>3, <2>5 DEF FamilyOf
  <2>7. ASSUME NEW q \in Requests, pc'[q] \in Rotating,
               origin'[arg'[q]].family = origin'[arg'[r]].family
        PROVE  q \notin past'[r] /\ r \notin past'[q]
    <3>1. origin'[arg'[r]] = origin[arg[r]]
      BY <1>2, <2>1
    <3>2. CASE pc[q] \in Rotating
      <4>1. pc[q] # "idle" /\ arg'[q] = arg[q] /\ arg[q] \in issued
        BY <1>1, <3>2 DEF Forward, Rotating, Inv, ArgsIssued
      <4>2. Overlap(q, r)
        BY <1>2, <2>4, <2>7, <3>1, <3>2, <4>1
      <4>. QED
        BY <1>1, <1>6, <4>1, <4>2, OverlapKept
    <3>3. CASE pc[q] \notin Rotating
      <4>1. arg'[q] \in issued /\ IsActive(arg'[q]) /\ origin' = origin
        BY <1>1, <2>7, <3>3 DEF EntersRotating
      <4>. QED
        BY <2>3, <2>7, <3>1, <4>1 DEF FamilyOf
    <3>. QED
      BY <3>2, <3>3
  <2>. QED
    BY <2>6, <2>7
<1>7. ReplayCovers'
  BY <1>3, <1>4, <1>5, <1>6 DEF ReplayCovers, Overlap
<1>8. ReplayEndsFamily'
  BY <1>5, <1>6 DEF ReplayEndsFamily, Done, Raced
<1>. QED
  BY <1>1, <1>7, <1>8 DEF ReplayInv

\* A refused replay leaves nothing of its family, unless a rotation of the family
\* was in flight with it.
THEOREM ReplayEndsFamilyAlways == Spec => []ReplayEndsFamily
<1>1. ReplayInv => ReplayEndsFamily
  BY DEF ReplayInv
<1>. QED
  BY <1>1, ReplayInit, ReplayStep, PTL DEF Spec

-----------------------------------------------------------------------------
(* The browsers' sessions: the inductive invariant of clients and server. *)

\* An activity waits for the answer that brings it a token.
Exchanging == {"resuming", "refreshing"}
Waiting == Exchanging \cup {"entering"}

Activity == [tab : Tabs \cup {"none"}, kind : {"none", "boot", "login", "api", "logout"},
             at : Waiting \cup {"idle", "sent", "resent", "leaving", "done"},
             sent : {"none", "login", "refresh", "logout"},
             rt : issued \cup {None}, req : Requests \cup {None}]

\* What the browsers hold are issued tokens, and activities are of the types above.
ClientTypeOK ==
    /\ ref \in [Tabs -> issued \cup {None}]
    /\ stored \in issued \cup {None} /\ cookie \in issued \cup {None}
    /\ act \in [Acts -> Activity]
    /\ lost \in BOOLEAN /\ ended \subseteq Tabs
    /\ \A a \in Acts : act[a].at # "idle" => act[a].tab \in Tabs

\* Where an activity stands tells what it has sent, and a request that arrived
\* is the one it sent.
SentMatches ==
    \A a \in Acts :
        /\ act[a].at = "idle" => act[a].sent = "none"
        /\ act[a].at \in Exchanging => act[a].sent = "refresh" /\ act[a].rt # None
        /\ act[a].at = "entering" => act[a].sent = "login"
        /\ act[a].at = "leaving" => act[a].sent = "logout"
        /\ act[a].sent = "login" => act[a].rt = None
        /\ act[a].sent = "logout" => act[a].at \in {"leaving", "done"}
        /\ act[a].req # None =>
              /\ pc[act[a].req] # "idle"
              /\ op[act[a].req] = act[a].sent /\ arg[act[a].req] = act[a].rt

SentByOne ==
    \A a, b \in Acts : act[a].req = act[b].req /\ act[a].req # None => a = b

\* A token is known once its answer was handled.
Known(t) ==
    \/ \E b \in Tabs : ref[b] = t
    \/ stored = t \/ cookie = t
    \/ \E a \in Acts : act[a].rt = t
    \/ \E r \in Requests : arg[r] = t

UnhandledIsUnknown ==
    \A t \in issued, a \in Acts :
        act[a].req = origin[t].by /\ act[a].at \in Waiting => ~Known(t)

\* The account is there all the time, and the server only does what was sent.
Flow ==
    /\ account = "active" /\ expired = {}
    /\ \A r \in Requests :
         /\ pc[r] = "idle" => op[r] = "none" /\ reply[r] = "none"
         /\ op[r] = "none" => pc[r] = "idle"
         /\ op[r] \in {"none", "refresh", "logout", "login"}
         /\ op[r] = "refresh" =>
               /\ arg[r] \in issued
               /\ \/ pc[r] \in Rotating /\ reply[r] = "none"
                  \/ pc[r] \in {"burn", "burning"} /\ reply[r] = "reuse"
                  \/ pc[r] = "done" /\ reply[r] \in {"ok", "reuse"}
         /\ op[r] = "logout" =>
               /\ LeftWith(arg[r])
               /\ \/ pc[r] = "logout" /\ reply[r] = "none"
                  \/ pc[r] = "done" /\ reply[r] = "ok"
         /\ op[r] = "login" =>
               /\ arg[r] = None
               /\ \/ pc[r] = "issue" /\ reply[r] = "none"
                  \/ pc[r] = "done" /\ reply[r] = "ok"

\* A request that is answered with a token has issued one, in exchange for what
\* it presented, and no other.
Issues ==
    /\ \A r \in Requests : Done(r, "ok") /\ op[r] \in {"refresh", "login"} =>
         \E t \in issued : origin[t].by = r
    /\ \A t \in issued : origin[t].parent # None =>
         op[origin[t].by] = "refresh" /\ arg[origin[t].by] = origin[t].parent
    /\ \A t, u \in issued : origin[t].by = origin[u].by => t = u

ClientInv ==
    /\ Inv /\ ClientTypeOK /\ SentMatches /\ SentByOne /\ UnhandledIsUnknown
    /\ Flow /\ Issues

\* Without a token presented twice and an answer given up, ...
Regular == ~lost /\ ~PresentedTwice

Childless(t) == \A u \in issued : origin[u].parent # t

\* ... a family is a chain, ...
Chains ==
    \A t, u \in issued :
        origin[t].family = origin[u].family /\ Childless(t) /\ Childless(u) => t = u

\* ... a token is revoked by its exchange or by a logout with it, ...
RevokedFor == \A t \in revoked : ~Childless(t) \/ LeftWith(t)

\* ... what a request burns is dead before, ...
BurnsDead ==
    \A r \in Requests :
        /\ reply[r] = "reuse" => arg[r] \in revoked /\ Childless(arg[r])
        /\ pc[r] = "burning" => seen[r] = {}

\* ... the stored token was presented only by who waits for its successor, ...
StoredWaits ==
    /\ \A a \in Acts : act[a].sent = "refresh" /\ act[a].req = None => act[a].at \in Exchanging
    /\ stored # None /\ (\E r \in Requests : op[r] = "refresh" /\ arg[r] = stored) =>
         \E a \in Acts : act[a].at \in Exchanging /\ act[a].rt = stored

\* ... and a session ends by a refusal.
EndsByReuse == ended # {} => \E r \in Requests : reply[r] = "reuse"

RegularInv == Regular => Chains /\ RevokedFor /\ BurnsDead /\ StoredWaits /\ EndsByReuse

-----------------------------------------------------------------------------
(* The pages' steps. *)

\* What a page does to the activities: each stays as it is, or one that is under
\* way handles an answer or is given up, or a new request is made with a token
\* that is known.
ActMoves ==
    /\ act' \in [Acts -> Activity]
    /\ \A c \in Acts :
        \/ act'[c] = act[c]
        \/ /\ act[c].at \notin {"idle", "done"} /\ act'[c].at \in {"sent", "resent", "done"}
           /\ act'[c] = [act[c] EXCEPT !.at = act'[c].at]
           /\ act[c].sent = "logout" => act'[c].at = "done"
           /\ act[c].at \in Exchanging => lost' = TRUE \/ act[c].req # None
        \/ /\ act[c].at \in {"idle", "sent"} /\ act'[c].req = None /\ act'[c] \in Activity
           /\ act'[c].tab \in Tabs
           /\ \/ /\ act'[c].at \in Exchanging /\ act'[c].sent = "refresh" /\ act'[c].rt # None
              \/ act'[c].at = "entering" /\ act'[c].sent = "login" /\ act'[c].rt = None
              \/ act'[c].at = "leaving" /\ act'[c].sent = "logout"
              \/ act'[c].at = "sent" /\ act'[c].sent = "none"
           /\ act'[c].rt = None \/ Known(act'[c].rt)

\* An activity handles the token it was answered with.
Handles(c) ==
    /\ act[c].at \in Waiting /\ Accepted(c)
    /\ act'[c] = [act[c] EXCEPT !.at = act'[c].at] /\ act'[c].at \in {"sent", "resent"}

\* What a page does to its session: it holds, stores and sends only tokens that
\* were known or that it was just answered with, and it ends only after an answer
\* was refused or lost.
SessionMoves ==
    /\ ref' \in [Tabs -> issued \cup {None}]
    /\ stored' \in issued \cup {None} /\ cookie' \in issued \cup {None}
    /\ lost' \in {lost, TRUE}
    /\ ended' \subseteq Tabs
    /\ \A t \in issued :
         (\E b \in Tabs : ref'[b] = t) \/ stored' = t \/ cookie' = t
            => Known(t) \/ \E c \in Acts : Handles(c) /\ t = TokenOf(c)
    /\ \/ stored' = None
       \/ /\ stored' = stored
          /\ \A c \in Acts : act[c].at \in Exchanging => lost' = TRUE \/ act'[c] = act[c]
       \/ \E c \in Acts : Handles(c) /\ stored' = TokenOf(c)
    /\ \/ ended' = ended
       \/ lost' = TRUE
       \/ \E c \in Acts : act[c].at \in Exchanging /\ Answered(c) /\ ~Accepted(c)

\* A step of a page leaves the server alone.
ClientMoves == UNCHANGED server /\ ActMoves /\ SessionMoves

\* Every step is a page's, the arrival of a request, or the server's.
LEMMA ClientCases ==
    ASSUME [ClientNext]_allVars
    PROVE  \/ \E b \in Tabs, a \in Acts :
                OpensPage(b, a) \/ LogsIn(b, a) \/ Calls(b, a) \/ Leaves(b, a)
           \/ \E a \in Acts : Resolves(a)
           \/ \E a \in Acts, r \in Requests : Arrives(a, r)
           \/ \E r \in Requests : Serves(r)
           \/ UNCHANGED allVars
BY DEF ClientNext

\* An accepted answer brings a token, issued by the request it answers.
LEMMA TokenOfIssued ==
    ASSUME ClientInv, NEW a \in Acts, act[a].at \in Waiting, Accepted(a)
    PROVE  TokenOf(a) \in issued /\ origin[TokenOf(a)].by = act[a].req
<1>1. act[a].req \in Requests /\ op[act[a].req] \in {"refresh", "login"}
      /\ Done(act[a].req, "ok")
  BY DEF ClientInv, ClientTypeOK, Activity, SentMatches, Waiting, Exchanging, Accepted,
        Answered, Done
<1>2. \E t \in issued : origin[t].by = act[a].req
  BY <1>1 DEF ClientInv, Issues
<1>. QED
  BY <1>2 DEF TokenOf

LEMMA NoneNotIssued == Inv => None \notin issued
BY NoneAssumption DEF Inv, TypeOK

\* A request that starts carries a known token or none.
LEMMA StartsMoves ==
    ASSUME ClientInv, NEW a \in Acts, NEW b \in Tabs,
           NEW kind \in {"boot", "login", "api", "logout"},
           NEW s \in {"refresh", "login", "logout", "none"},
           NEW l \in {"resuming", "entering", "leaving", "sent"},
           NEW t \in issued \cup {None},
           Starts(a, b, kind, l, s, t), t = None \/ Known(t),
           \/ l = "entering" /\ s = "login" /\ t = None
           \/ l = "leaving" /\ s = "logout"
           \/ l = "sent" /\ s = "none"
    PROVE  ActMoves
BY DEF Starts, ActMoves, Activity, Waiting, Exchanging, ClientInv, ClientTypeOK

\* What a user starts in a tab is such a move.
LEMMA TabMoves ==
    ASSUME ClientInv, NEW b \in Tabs, NEW a \in Acts,
           OpensPage(b, a) \/ LogsIn(b, a) \/ Calls(b, a) \/ Leaves(b, a)
    PROVE  ClientMoves
<1>1. CASE OpensPage(b, a)
  <2> USE DEF OpensPage, Working
  <2>1. SessionMoves
    <3>1. \A c \in Acts : act[c].at \in Exchanging => lost' = TRUE \/ act'[c] = act[c]
      BY <1>1 DEF Exchanging
    <3>. QED
      BY <1>1, <3>1 DEF SessionMoves, ClientInv, ClientTypeOK, Known
  <2>2. ActMoves
    <3>0. act' \in [Acts -> Activity]
      <4>1. ASSUME NEW c \in Acts PROVE act'[c] \in Activity
        <5>1. act[c] \in Activity /\ stored \in issued \cup {None}
          BY DEF ClientInv, ClientTypeOK
        <5>2. [act[c] EXCEPT !.at = "done"] \in Activity
          BY <5>1 DEF Activity
        <5>3. stored # None =>
                [tab |-> b, kind |-> "boot", at |-> "resuming",
                 sent |-> "refresh", rt |-> stored, req |-> None] \in Activity
          BY <5>1 DEF Activity, Waiting, Exchanging
        <5>. HIDE DEF Activity
        <5>. QED
          BY <1>1, <5>1, <5>2, <5>3
      <4>2. DOMAIN act' = Acts /\ act' = [c \in Acts |-> act'[c]]
        BY <1>1
      <4>. QED
        BY <4>1, <4>2
    <3>1. SUFFICES ASSUME NEW c \in Acts PROVE ActMoves!2!(c)
      BY <3>0 DEF ActMoves
    <3>2. CASE Working(c) /\ act[c].tab = b
      BY <1>1, <3>2 DEF ClientInv, ClientTypeOK, SentMatches, Activity
    <3>3. CASE ~(Working(c) /\ act[c].tab = b) /\ c = a /\ stored # None
      BY <1>1, <3>3 DEF ClientInv, ClientTypeOK, Activity, Waiting, Exchanging, Known
    <3>4. CASE ~(Working(c) /\ act[c].tab = b) /\ ~(c = a /\ stored # None)
      BY <1>1, <3>4
    <3>. QED
      BY <3>2, <3>3, <3>4
  <2>. QED
    BY <1>1, <2>1, <2>2 DEF ClientMoves
<1>2. CASE LogsIn(b, a)
  <2>1. ActMoves
    BY <1>2, StartsMoves DEF LogsIn
  <2>. QED
    BY <1>2, <2>1 DEF LogsIn, ClientMoves, SessionMoves, Session, ClientInv, ClientTypeOK,
         Starts, Known, Exchanging
<1>3. CASE Calls(b, a)
  <2>1. ActMoves
    BY <1>3, StartsMoves DEF Calls
  <2>. QED
    BY <1>3, <2>1 DEF Calls, ClientMoves, SessionMoves, Session, ClientInv, ClientTypeOK,
         Starts, Known, Exchanging
<1>4. CASE Leaves(b, a)
  <2> DEFINE t == IF ref[b] = None THEN cookie ELSE ref[b]
  <2>0. t \in issued \cup {None} /\ (t = None \/ Known(t))
    BY DEF ClientInv, ClientTypeOK, Known
  <2>1. ActMoves
    BY <1>4, <2>0, StartsMoves DEF Leaves
  <2>. QED
    BY <1>4, <2>1 DEF Leaves, ClientMoves, SessionMoves, Session, ClientInv, ClientTypeOK,
         Starts, Known, Exchanging
<1>. QED
  BY <1>1, <1>2, <1>3, <1>4

\* So is what an activity does with an answer, or without one.
LEMMA ResolveMoves ==
    ASSUME ClientInv, NEW a \in Acts, Resolves(a)
    PROVE  ClientMoves
<1> USE DEF ClientInv, ClientTypeOK, Activity, SentMatches, Waiting, Exchanging
<1>0. ASSUME act[a].at \notin {"idle", "done"},
             NEW l \in {"sent", "resent", "done"}, MovesTo(a, l),
             act[a].sent = "logout" => l = "done",
             act[a].at \in Exchanging => lost' = TRUE \/ act[a].req # None
      PROVE  /\ ActMoves
             /\ act'[a] = [act[a] EXCEPT !.at = l] /\ act'[a].at = l
             /\ \A c \in Acts \ {a} : act'[c] = act[c]
  <2>1. act' = [act EXCEPT ![a].at = l] /\ act'[a] = [act[a] EXCEPT !.at = l]
        /\ act'[a].at = l /\ \A c \in Acts \ {a} : act'[c] = act[c]
    BY <1>0 DEF MovesTo
  <2>2. act' \in [Acts -> Activity]
    BY <2>1
  <2>. QED
    BY <1>0, <2>1, <2>2 DEF ActMoves
<1>1. ASSUME UNCHANGED <<server, ref, stored, cookie, ended>>, lost' \in {lost, TRUE},
             \A c \in Acts : act[c].at \in Exchanging => lost' = TRUE \/ act'[c] = act[c]
      PROVE  SessionMoves
  BY <1>1 DEF SessionMoves, Known
<1>2. ASSUME UNCHANGED <<server, cookie>>, ClearSession(act[a].tab),
             ended' = ended \/ ended' = ended \cup {act[a].tab} , act[a].at # "idle",
             lost' \in {lost, TRUE},
             \/ ended' = ended
             \/ lost' = TRUE
             \/ act[a].at \in Exchanging /\ Answered(a) /\ ~Accepted(a)
      PROVE  SessionMoves
  BY <1>2, NoneNotIssued DEF SessionMoves, Known, ClearSession
<1>3. ASSUME UNCHANGED <<server, ended, lost>>, act[a].at \in Waiting,
             Accepted(a), ApplyTokens(act[a].tab, TokenOf(a)),
             NEW l \in {"sent", "resent"}, MovesTo(a, l)
      PROVE  SessionMoves /\ ActMoves
  <2>1. TokenOf(a) \in issued
    BY <1>3, TokenOfIssued
  <2>2. act[a].req # None
    BY <1>3 DEF Accepted, Answered
  <2>3. ActMoves /\ act'[a] = [act[a] EXCEPT !.at = l] /\ act'[a].at = l
    BY <1>0, <1>3, <2>2
  <2>4. Handles(a)
    BY <1>3, <2>3 DEF Handles
  <2>. QED
    BY <1>3, <2>1, <2>3, <2>4 DEF SessionMoves, Known, ApplyTokens
<1>4. CASE LoginAnswered(a)
  <2>1. CASE Accepted(a) /\ ApplyTokens(act[a].tab, TokenOf(a)) /\ MovesTo(a, "sent")
    BY <1>3, <1>4, <2>1 DEF LoginAnswered, ClientMoves
  <2>2. CASE MovesTo(a, "done") /\ UNCHANGED <<ref, stored, cookie>>
    BY <1>0, <1>1, <1>4, <2>2 DEF LoginAnswered, ClientMoves
  <2>. QED
    BY <1>4, <2>1, <2>2 DEF LoginAnswered
<1>5. CASE CallSucceeds(a)
  BY <1>0, <1>1, <1>5 DEF CallSucceeds, ClientMoves
<1>6. CASE CallThrows(a)
  BY <1>0, <1>1, <1>2, <1>6 DEF CallThrows, LosesSession, ClientMoves, Session
<1>7. CASE RefreshSucceeds(a)
  BY <1>3, <1>7 DEF RefreshSucceeds, ClientMoves
<1>8. CASE RefreshFails(a)
  <2>1. act[a].at \in Exchanging /\ lost' \in {lost, TRUE}
        /\ (lost' = TRUE \/ (Answered(a) /\ ~Accepted(a)))
    BY <1>8 DEF RefreshFails
  <2>2. lost' = TRUE \/ act[a].req # None
    BY <2>1 DEF Answered
  <2>. QED
    BY <1>0, <1>2, <1>8, <2>1, <2>2 DEF RefreshFails, LosesSession, ClientMoves
<1>9. CASE Left(a)
  <2>1. UNCHANGED <<server, ended>> /\ MovesTo(a, "done") /\ ClearSession(act[a].tab)
        /\ act[a].at = "leaving" /\ cookie' \in {cookie, None} /\ lost' \in {lost, TRUE}
    BY <1>9 DEF Left
  <2>2. SessionMoves
    <3>1. act[a].tab \in Tabs /\ None \notin issued
      BY <2>1, NoneNotIssued
    <3>2. ref' = [ref EXCEPT ![act[a].tab] = None] /\ stored' = None
      BY <2>1 DEF ClearSession
    <3>3. \A t \in issued : (\E b \in Tabs : ref'[b] = t) \/ stored' = t \/ cookie' = t => Known(t)
      BY <2>1, <3>1, <3>2 DEF Known
    <3>. QED
      BY <2>1, <3>1, <3>2, <3>3 DEF SessionMoves
  <2>. QED
    BY <1>0, <2>1, <2>2 DEF ClientMoves
<1>10. CASE CallRefused(a)
  <2>1. CASE ref[act[a].tab] # None /\ Sends(a, "refreshing", "refresh", ref[act[a].tab])
             /\ UNCHANGED Session
    <3> DEFINE t == ref[act[a].tab]
    <3>1. act[a].at = "sent" /\ t \in issued /\ Known(t) /\ UNCHANGED <<server, lost>>
      BY <1>10, <2>1 DEF CallRefused, Known
    <3>2. act'[a] = [act[a] EXCEPT !.at = "refreshing", !.sent = "refresh", !.rt = t, !.req = None]
          /\ \A c \in Acts \ {a} : act'[c] = act[c]
      BY <2>1 DEF Sends
    <3>5. act'[a] \in Activity
      <4>1. act[a] \in Activity
        OBVIOUS
      <4>. QED
        BY <3>1, <3>2, <4>1
    <3>3. /\ act'[a].at = "refreshing" /\ act'[a].sent = "refresh" /\ act'[a].rt = t
          /\ act'[a].req = None /\ act'[a].tab \in Tabs
      BY <3>1, <3>2
    <3>6. act' = [act EXCEPT ![a] = act'[a]]
      BY <2>1 DEF Sends
    <3>. HIDE DEF t, Activity
    <3>4. ActMoves
      BY <2>1, <3>1, <3>2, <3>3, <3>5, <3>6, ZenonT(40) DEF ActMoves, t
    <3>. QED
      BY <2>1, <3>1, <3>2, <3>4, <1>1 DEF ClientMoves, Session
  <2>2. CASE MovesTo(a, "done") /\ ClearSession(act[a].tab) /\ UNCHANGED <<cookie, ended>>
    BY <1>0, <1>2, <1>10, <2>2 DEF CallRefused, ClientMoves
  <2>. QED
    BY <1>10, <2>1, <2>2 DEF CallRefused
<1>. QED
  BY <1>4, <1>5, <1>6, <1>7, <1>8, <1>9, <1>10 DEF Resolves

\* A page's moves keep the invariant: what it learns was unknown before only if its
\* own activity was answered with it.
LEMMA ClientMovesKeep ==
    ASSUME ClientInv, ClientMoves
    PROVE  ClientInv'
<1>0. UNCHANGED <<issued, origin, revoked, expired, account, op, pc, arg, seen, reply, past>>
      /\ UNCHANGED vars
  BY DEF ClientMoves, server, vars, store
<1>1. Inv'
  BY <1>0, InvStep DEF ClientInv
<1>2. ClientTypeOK'
  <2>1. act' \in [Acts -> Activity] /\ Activity' = Activity
    BY <1>0 DEF ClientMoves, ActMoves, Activity
  <2>2. \A a \in Acts : act'[a].at # "idle" => act'[a].tab \in Tabs
    BY DEF ClientMoves, ActMoves, ClientInv, ClientTypeOK, Activity
  <2>3. lost' \in BOOLEAN
    BY DEF ClientMoves, SessionMoves, ClientInv, ClientTypeOK
  <2>. QED
    BY <1>0, <2>1, <2>2, <2>3 DEF ClientMoves, SessionMoves, ClientTypeOK
<1>3. SentMatches'
  BY <1>0 DEF ClientMoves, ActMoves, ClientInv, SentMatches, ClientTypeOK, Activity, Waiting, Exchanging
<1>4. SentByOne'
  BY <1>0 DEF ClientMoves, ActMoves, ClientInv, SentByOne, ClientTypeOK, Activity
<1>5. \A t : LeftWith(t) => LeftWith(t)'
  BY DEF ClientMoves, ActMoves, ClientInv, SentMatches, ClientTypeOK, Activity, LeftWith
<1>6. Flow'
  BY <1>0, <1>5 DEF ClientInv, Flow, Rotating
<1>7. Issues'
  BY <1>0 DEF ClientInv, Issues, Done
<1>8. UnhandledIsUnknown'
  <2> SUFFICES ASSUME NEW t \in issued, NEW a \in Acts, act'[a].req = origin[t].by,
                      act'[a].at \in Waiting, Known(t)'
               PROVE  FALSE
    BY <1>0 DEF UnhandledIsUnknown
  <2>0. origin[t].by \in Requests /\ origin[t].by # None
    BY NoRequestAssumption DEF ClientInv, Inv, MakersEnded
  <2>1. act'[a] = act[a]
    BY <2>0 DEF ClientMoves, ActMoves, Waiting, Exchanging
  <2>2. ~Known(t)
    BY <2>1 DEF ClientInv, UnhandledIsUnknown
  <2>3. PICK c \in Acts : Handles(c) /\ t = TokenOf(c)
    <3>1. \A c \in Acts : act'[c].rt = t => Known(t)
      <4>1. t # None
        BY NoneNotIssued DEF ClientInv
      <4>2. \A c \in Acts : act[c].rt = t => Known(t)
        BY DEF Known
      <4>. QED
        BY <4>1, <4>2 DEF ClientMoves, ActMoves, ClientInv, ClientTypeOK, Activity
    <3>2. ~(\E r \in Requests : arg'[r] = t)
      BY <1>0, <2>2 DEF Known
    <3>. QED
      BY <2>2, <3>1, <3>2 DEF ClientMoves, SessionMoves, Known
  <2>4. c = a
    BY <2>0, <2>1, <2>3, TokenOfIssued DEF Handles, ClientInv, SentByOne
  <2>. QED
    BY <2>1, <2>3, <2>4 DEF Handles, Waiting, Exchanging
<1>. QED
  BY <1>1, <1>2, <1>3, <1>4, <1>6, <1>7, <1>8 DEF ClientInv

-----------------------------------------------------------------------------
(* The server's steps, as the clients make them happen. *)

\* A request arrives.
Received(a, r) ==
    /\ UNCHANGED <<store, seen, ref, stored, cookie, ended, lost>>
    /\ act[a].req = None /\ pc[r] = "idle" /\ pc'[r] # "idle"
    /\ act' = [act EXCEPT ![a].req = r]
    /\ op'[r] = act[a].sent /\ arg'[r] = act[a].rt
    /\ \A q \in Requests \ {r} :
         pc'[q] = pc[q] /\ reply'[q] = reply[q] /\ op'[q] = op[q] /\ arg'[q] = arg[q]
    /\ \/ /\ act[a].sent = "refresh" /\ act[a].rt \in issued
          /\ \/ pc'[r] = "burn" /\ reply'[r] = "reuse" /\ act[a].rt \in revoked
             \/ pc'[r] = "load_user" /\ reply'[r] = "none"
       \/ /\ act[a].sent = "logout"
          /\ \/ pc'[r] = "logout" /\ reply'[r] = "none"
             \/ pc'[r] = "done" /\ reply'[r] = "ok"
       \/ act[a].sent = "login" /\ pc'[r] = "issue" /\ reply'[r] = "none"

\* What arrives is what was sent.
LEMMA ArrivesReceives ==
    ASSUME ClientInv, NEW a \in Acts, NEW r \in Requests, Arrives(a, r)
    PROVE  Received(a, r)
<1> USE DEF ClientInv, Inv, TypeOK, Flow
<1>1. pc[r] = "idle" /\ reply[r] = "none" /\ Exists /\ act[a].req = None
      /\ act' = [act EXCEPT ![a].req = r] /\ UNCHANGED <<ref, stored, cookie, ended, lost>>
  BY DEF Arrives, Exists, Session
<1>2. CASE act[a].sent = "refresh" /\ RefreshReads(r, act[a].rt)
  BY <1>1, <1>2 DEF RefreshReads, Begin, Goto, Answer, IsActive, Received, store
<1>3. CASE act[a].sent = "logout" /\ LogoutReads(r, act[a].rt)
  BY <1>1, <1>3 DEF LogoutReads, Begin, Goto, Answer, Received, store
<1>4. CASE act[a].sent = "login" /\ LoginReads(r)
  <2>1. act[a].rt = None
    BY <1>4 DEF SentMatches
  <2>. QED
    BY <1>1, <1>4, <2>1 DEF LoginReads, Begin, Goto, Answer, Received, store
<1>. QED
  BY <1>2, <1>3, <1>4 DEF Arrives

\* A request goes on.
Served(r) ==
    /\ UNCHANGED <<client, account, expired, op, arg>>
    /\ pc[r] # "done" /\ pc'[r] # "idle"
    /\ \A q \in Requests \ {r} :
         pc'[q] = pc[q] /\ reply'[q] = reply[q] /\ seen'[q] = seen[q]
    /\ \/ /\ pc[r] = "load_user" /\ pc'[r] = "rotate" /\ reply'[r] = reply[r]
          /\ UNCHANGED <<issued, origin, revoked>>
       \/ /\ pc[r] = "burn" /\ pc'[r] = "burning" /\ reply'[r] = reply[r]
          /\ seen'[r] = FamilyOf(arg[r]) \ revoked
          /\ UNCHANGED <<issued, origin, revoked>>
       \/ /\ pc[r] = "burning" /\ pc'[r] = "done" /\ reply'[r] = reply[r]
          /\ revoked' = revoked \cup seen[r]
          /\ UNCHANGED <<issued, origin>>
       \/ /\ pc[r] = "logout" /\ pc'[r] = "done" /\ reply'[r] = "ok"
          /\ revoked' = revoked \cup {arg[r]}
          /\ UNCHANGED <<issued, origin>>
       \/ /\ pc[r] = "rotate" /\ pc'[r] = "done" /\ reply'[r] = "ok"
          /\ revoked' = revoked \cup {arg[r]}
          /\ \E n \in Tokens \ issued :
               /\ issued' = issued \cup {n}
               /\ \A t \in issued : origin'[t] = origin[t]
               /\ origin'[n].parent = arg[r] /\ origin'[n].by = r
               /\ origin'[n].family = origin[arg[r]].family
       \/ /\ pc[r] = "issue" /\ pc'[r] = "done" /\ reply'[r] = "ok"
          /\ UNCHANGED revoked
          /\ \E n \in Tokens \ issued :
               /\ issued' = issued \cup {n}
               /\ \A t \in issued : origin'[t] = origin[t]
               /\ origin'[n].parent = None /\ origin'[n].by = r
               /\ origin'[n].family = n

\* With the account there, the server's steps have no other outcomes.
LEMMA ServesServed ==
    ASSUME ClientInv, NEW r \in Requests, Serves(r)
    PROVE  Served(r)
<1> USE DEF ClientInv, Inv, TypeOK, Flow, Goto, Answer, Served, Exists
<1>1. CASE LoadsUser(r) \/ BurnReads(r) \/ BurnCommits(r) \/ LogoutCommits(r)
  BY <1>1 DEF Serves, LoadsUser, BurnReads, BurnCommits, LogoutCommits, store, FamilyOf, Unrevoked
<1>2. ASSUME NEW n \in Tokens, LoginIssues(r, n)
      PROVE  Served(r)
  BY <1>2 DEF Serves, LoginIssues, Insert, Origin
<1>3. ASSUME NEW n \in Tokens, RotateCommits(r, n)
      PROVE  Served(r)
  <2>1. arg[r] \in issued /\ arg[r] # None
    BY <1>3, NoneNotIssued DEF RotateCommits, ArgsIssued, Rotating
  <2>. QED
    BY <1>3, <2>1 DEF Serves, RotateCommits, Insert, Origin
<1>. QED
  BY <1>1, <1>2, <1>3 DEF Serves

\* An arrival is a step that RefreshTokens allows, ...
LEMMA ArrivesIsServerStep ==
    ASSUME ClientInv, NEW a \in Acts, NEW r \in Requests, Arrives(a, r)
    PROVE  Next
<1>1. act[a].sent \in {"refresh", "logout"} => act[a].rt \in Tokens
  BY DEF Arrives, RefreshReads, LogoutReads, ClientInv, Inv, TypeOK
<1>. QED
  BY <1>1 DEF Arrives, Next, Arrival

\* ... as is every step of the composition, or it leaves the server alone.
LEMMA IsServerStep ==
    ASSUME ClientInv, [ClientNext]_allVars
    PROVE  [Next]_vars
<1>1. ASSUME NEW r \in Requests, Serves(r) PROVE Next
  BY <1>1 DEF Serves, Next, Work
<1>2. ASSUME NEW b \in Tabs, NEW a \in Acts,
             OpensPage(b, a) \/ LogsIn(b, a) \/ Calls(b, a) \/ Leaves(b, a)
      PROVE UNCHANGED vars
  BY <1>2, TabMoves DEF ClientMoves, server
<1>3. ASSUME NEW a \in Acts, Resolves(a)
      PROVE UNCHANGED vars
  BY <1>3, ResolveMoves DEF ClientMoves, server
<1>. QED
  BY <1>1, <1>2, <1>3, ClientCases, ArrivesIsServerStep DEF allVars, server

\* A request that arrives was not known to the server, so no token is its own.
LEMMA ReceivedKeeps ==
    ASSUME ClientInv, Inv', NEW a \in Acts, NEW r \in Requests, Received(a, r)
    PROVE  ClientInv'
<1> USE NoRequestAssumption
<1>1. act' = [act EXCEPT ![a].req = r] /\ act'[a] = [act[a] EXCEPT !.req = r]
      /\ \A c \in Acts \ {a} : act'[c] = act[c]
  BY DEF Received, ClientInv, ClientTypeOK
<1>2. UNCHANGED <<issued, origin, revoked, expired, account, ref, stored, cookie, lost, ended>>
      /\ pc[r] = "idle"
  BY DEF Received, store
<1>3. ClientTypeOK'
  <2>1. act' \in [Acts -> Activity]
    <3>1. act[a] \in Activity
      BY DEF ClientInv, ClientTypeOK
    <3>2. act'[a] \in Activity
      BY <1>1, <3>1 DEF Activity
    <3>. QED
      BY <1>1, <3>2 DEF ClientInv, ClientTypeOK
  <2>2. \A c \in Acts : act'[c].at # "idle" => act'[c].tab \in Tabs
    BY <1>1 DEF ClientInv, ClientTypeOK, Activity
  <2>3. Activity' = Activity
    BY <1>2 DEF Activity
  <2>. QED
    BY <1>2, <2>1, <2>2, <2>3 DEF ClientInv, ClientTypeOK
<1>4. \A c \in Acts : act[c].req # r
  BY <1>2 DEF ClientInv, SentMatches
<1>5. SentMatches'
  BY <1>1, <1>4 DEF Received, ClientInv, SentMatches, ClientTypeOK, Activity, Waiting, Exchanging
<1>6. SentByOne'
  BY <1>1, <1>4 DEF ClientInv, SentByOne, ClientTypeOK, Activity
<1>7. \A t : LeftWith(t) <=> LeftWith(t)'
  BY <1>1 DEF ClientInv, ClientTypeOK, Activity, LeftWith
<1>8. Flow'
  <2>1. act[a].sent = "login" => act[a].rt = None
    BY DEF ClientInv, SentMatches
  <2>2. act[a].sent = "logout" => LeftWith(act[a].rt)
    BY DEF LeftWith
  <2>. QED
    BY <1>2, <1>7, <2>1, <2>2 DEF Received, ClientInv, Flow, Rotating
<1>9. \A t \in issued : origin[t].by # r /\ origin[t].by \in Requests
  BY <1>2 DEF ClientInv, Inv, MakersEnded
<1>10. Issues'
  <2>1. op'[r] \in {"refresh", "login"} => pc'[r] # "done"
    BY DEF Received
  <2>. QED
    BY <1>2, <1>9, <2>1 DEF Received, ClientInv, Issues, Done
<1>11. UnhandledIsUnknown'
  <2>1. \A t \in issued : Known(t)' => Known(t)
    BY <1>1, <1>2 DEF Received, Known, ClientInv, ClientTypeOK, Activity
  <2>. QED
    BY <1>1, <1>2, <1>9, <2>1 DEF ClientInv, UnhandledIsUnknown, ClientTypeOK, Activity
<1>. QED
  BY <1>3, <1>5, <1>6, <1>8, <1>10, <1>11 DEF ClientInv

\* A token that is issued was never seen: nobody knows it until it is handled.
LEMMA ServedKeeps ==
    ASSUME ClientInv, Inv', NEW r \in Requests, Served(r)
    PROVE  ClientInv'
<1>0. issued \subseteq issued'
  BY DEF Served
<1>1. UNCHANGED <<ref, stored, cookie, act, lost, ended, op, arg, account, expired>>
  BY DEF Served, client
<1>2. ClientTypeOK'
  <2>1. Activity \subseteq Activity'
    BY <1>0 DEF Activity
  <2>. QED
    BY <1>0, <1>1, <2>1 DEF ClientInv, ClientTypeOK
<1>3. SentMatches' /\ SentByOne'
  <2>1. \A q \in Requests : pc[q] # "idle" => pc'[q] # "idle"
    BY DEF Served
  <2>. QED
    BY <1>1, <2>1 DEF ClientInv, SentMatches, SentByOne, ClientTypeOK, Activity
<1>4. Flow'
  BY <1>0, <1>1 DEF Served, ClientInv, Flow, Rotating, LeftWith
<1>5. \A t \in issued : origin'[t] = origin[t] /\ origin[t].by # r
  <2>1. pc[r] # "done"
    BY DEF Served
  <2>. QED
    BY <2>1 DEF Served, ClientInv, Inv, MakersEnded
<1>6. Issues'
  <2>1. CASE issued' = issued
    BY <1>1, <1>5, <2>1 DEF Served, ClientInv, Issues, Done, Flow, Rotating
  <2>2. CASE issued' # issued
    <3>1. PICK n \in Tokens \ issued :
            /\ issued' = issued \cup {n} /\ origin'[n].by = r
            /\ \/ pc[r] = "rotate" /\ origin'[n].parent = arg[r]
               \/ origin'[n].parent = None
      BY <2>2 DEF Served
    <3>2. \A q \in Requests : Done(q, "ok")' => q = r \/ Done(q, "ok")
      BY DEF Served, Done
    <3>3. pc[r] = "rotate" => op[r] = "refresh"
      BY DEF ClientInv, Flow
    <3>. QED
      BY <1>1, <1>5, <3>1, <3>2, <3>3 DEF ClientInv, Issues
  <2>. QED
    BY <2>1, <2>2
<1>7. UnhandledIsUnknown'
  <2>1. \A t : Known(t)' <=> Known(t)
    BY <1>1 DEF Known
  <2>2. \A t : Known(t) /\ t \notin issued => t = None
    BY DEF Known, ClientInv, ClientTypeOK, Activity, Inv, TypeOK
  <2>3. \A t \in issued' \ issued : t # None
    BY NoneAssumption DEF Served
  <2>. QED
    BY <1>1, <1>5, <2>1, <2>2, <2>3 DEF ClientInv, UnhandledIsUnknown
<1>. QED
  BY <1>2, <1>3, <1>4, <1>6, <1>7 DEF ClientInv

\* Every step of browsers and server keeps the invariant.
LEMMA ClientInvStep == ClientInv /\ [ClientNext]_allVars => ClientInv'
<1> SUFFICES ASSUME ClientInv, [ClientNext]_allVars PROVE ClientInv'
  OBVIOUS
<1>1. Inv'
  BY IsServerStep, InvStep DEF ClientInv
<1>2. CASE UNCHANGED allVars
  BY <1>1, <1>2 DEF allVars, server, client, vars, store, ClientInv, ClientTypeOK, Activity, SentMatches,
        SentByOne, UnhandledIsUnknown, Known, Flow, LeftWith, Issues, Done
<1>. QED
  BY <1>1, <1>2, ClientCases, TabMoves, ResolveMoves, ClientMovesKeep, ArrivesReceives, ReceivedKeeps,
     ServesServed, ServedKeeps

LEMMA ClientInitInv == ClientInit => ClientInv
<1> SUFFICES ASSUME ClientInit PROVE ClientInv
  OBVIOUS
<1>1. Inv
  BY InitInv DEF ClientInit
<1>. QED
  BY <1>1, NoneAssumption, NoRequestAssumption
     DEF ClientInit, Init, NoAct, ClientInv, ClientTypeOK, Activity, SentMatches,
        SentByOne, UnhandledIsUnknown, Flow, Issues, Done, Waiting, Exchanging

-----------------------------------------------------------------------------
(* Without an answer given up and a token presented twice. *)

\* A token that has a successor was presented by who issued the successor.
LEMMA ChildPresented ==
    ASSUME ClientInv, NEW t \in issued, NEW u \in issued, origin[u].parent = t
    PROVE  /\ origin[u].by \in Requests /\ pc[origin[u].by] = "done"
           /\ op[origin[u].by] = "refresh" /\ arg[origin[u].by] = t
<1>1. t # None
  BY NoneNotIssued DEF ClientInv
<1>. QED
  BY <1>1 DEF ClientInv, Issues, Inv, MakersEnded

\* A page keeps what holds without double use: it stores a token that nobody has
\* presented, and ends a session only on a refusal.
LEMMA RegularClient ==
    ASSUME ClientInv, RegularInv, ClientMoves, Regular'
    PROVE  RegularInv'
<1>0. UNCHANGED <<issued, origin, revoked, expired, account, op, pc, arg, seen, reply, past>>
  BY DEF ClientMoves, server, vars, store
<1>1. Regular /\ lost' # TRUE
  <2>1. ~lost'
    BY DEF Regular
  <2>2. lost' # TRUE
    BY <2>1
  <2>3. lost' = lost
    BY <2>2 DEF ClientMoves, SessionMoves
  <2>. QED
    BY <1>0, <2>1, <2>2, <2>3 DEF Regular, PresentedTwice
<1>2. Chains /\ RevokedFor /\ BurnsDead /\ StoredWaits /\ EndsByReuse
  BY <1>1 DEF RegularInv
<1>3. \A t : LeftWith(t) => LeftWith(t)'
  BY DEF ClientMoves, ActMoves, ClientInv, SentMatches, ClientTypeOK, Activity, LeftWith
<1>4. Chains' /\ RevokedFor' /\ BurnsDead'
  BY <1>0, <1>2, <1>3 DEF Chains, RevokedFor, BurnsDead, Childless
<1>5. StoredWaits'
  <2>1. ASSUME NEW a \in Acts, act'[a].sent = "refresh", act'[a].req = None
        PROVE  act'[a].at \in Exchanging
    <3>1. act[a] \in Activity /\ (act[a].sent = "refresh" /\ act[a].req = None => act[a].at \in Exchanging)
      BY <1>2 DEF StoredWaits, ClientInv, ClientTypeOK
    <3>2. CASE act'[a] = act[a]
      BY <2>1, <3>1, <3>2
    <3>3. CASE /\ act'[a] = [act[a] EXCEPT !.at = act'[a].at]
               /\ act[a].at \in Exchanging => lost' = TRUE \/ act[a].req # None
      <4>1. act'[a].sent = act[a].sent /\ act'[a].req = act[a].req
        BY <3>1, <3>3 DEF Activity
      <4>. QED
        BY <1>1, <2>1, <3>1, <3>3, <4>1
    <3>4. CASE act'[a].at \in Exchanging \/ act'[a].sent # "refresh"
      BY <2>1, <3>4
    <3>. QED
      BY <3>2, <3>3, <3>4 DEF ClientMoves, ActMoves
  <2>2. ASSUME NEW r \in Requests, op'[r] = "refresh", arg'[r] = stored', stored' # None
        PROVE  \E a \in Acts : act'[a].at \in Exchanging /\ act'[a].rt = stored'
    <3>1. CASE /\ stored' = stored
               /\ \A c \in Acts : act[c].at \in Exchanging => lost' = TRUE \/ act'[c] = act[c]
      BY <1>0, <1>1, <1>2, <2>2, <3>1 DEF StoredWaits
    <3>2. ASSUME NEW c \in Acts, Handles(c), stored' = TokenOf(c)
          PROVE  FALSE
      BY <1>0, <2>2, <3>2, TokenOfIssued DEF Handles, ClientInv, UnhandledIsUnknown, Known
    <3>. QED
      BY <2>2, <3>1, <3>2 DEF ClientMoves, SessionMoves
  <2>. QED
    BY <2>1, <2>2 DEF StoredWaits
<1>6. EndsByReuse'
  <2>1. ASSUME NEW c \in Acts, act[c].at \in Exchanging, Answered(c), ~Accepted(c)
        PROVE  \E r \in Requests : reply[r] = "reuse"
    <3>1. act[c].req \in Requests /\ op[act[c].req] = "refresh" /\ pc[act[c].req] = "done"
      BY <2>1 DEF Answered, ClientInv, SentMatches, ClientTypeOK, Activity
    <3>. QED
      BY <2>1, <3>1 DEF Accepted, ClientInv, Flow, Rotating
  <2>. QED
    BY <1>0, <1>1, <1>2, <2>1 DEF ClientMoves, SessionMoves, EndsByReuse
<1>. QED
  BY <1>4, <1>5, <1>6 DEF RegularInv

\* A request arrives with the token its page stored, for the first time, so a
\* refusal means that a logout had revoked it.
LEMMA RegularReceived ==
    ASSUME ClientInv, RegularInv, NEW a \in Acts, NEW r \in Requests, Received(a, r), Regular'
    PROVE  RegularInv'
<1>1. /\ UNCHANGED <<issued, origin, revoked, stored, lost, ended, seen>> /\ pc[r] = "idle"
      /\ op[r] = "none" /\ reply[r] = "none"
      /\ \A q \in Requests \ {r} :
            pc'[q] = pc[q] /\ reply'[q] = reply[q] /\ op'[q] = op[q] /\ arg'[q] = arg[q]
  BY DEF Received, store, ClientInv, Flow
<1>2. Regular
  BY <1>1 DEF Regular, PresentedTwice
<1>3. Chains /\ RevokedFor /\ BurnsDead /\ StoredWaits /\ EndsByReuse
  BY <1>2 DEF RegularInv
<1>4. act'[a] = [act[a] EXCEPT !.req = r] /\ \A c \in Acts \ {a} : act'[c] = act[c]
  BY DEF Received, ClientInv, ClientTypeOK
<1>5. /\ act'[a].sent = act[a].sent /\ act'[a].rt = act[a].rt /\ act'[a].at = act[a].at
      /\ act'[a].req = r
  BY <1>4 DEF ClientInv, ClientTypeOK, Activity
<1>6. Chains' /\ RevokedFor'
  <2>1. \A t : LeftWith(t) => LeftWith(t)'
    BY <1>4, <1>5 DEF LeftWith
  <2>. QED
    BY <1>1, <1>3, <2>1 DEF Chains, RevokedFor, Childless
<1>7. BurnsDead'
  <2>1. ASSUME reply'[r] = "reuse"
        PROVE  arg'[r] \in revoked /\ Childless(arg'[r])
    <3>1. op'[r] = "refresh" /\ arg'[r] \in issued /\ arg'[r] \in revoked
      BY <2>1 DEF Received
    <3>2. ASSUME NEW u \in issued, origin[u].parent = arg'[r]
          PROVE  FALSE
      <4> DEFINE q == origin[u].by
      <4>1. q \in Requests /\ q # r /\ op[q] = "refresh" /\ arg[q] = arg'[r]
        BY <1>1, <3>1, <3>2, ChildPresented
      <4>. QED
        BY <1>1, <3>1, <4>1 DEF Regular, PresentedTwice
    <3>. QED
      BY <3>1, <3>2 DEF Childless
  <2>2. pc'[r] # "burning"
    BY DEF Received
  <2>. QED
    BY <1>1, <1>3, <2>1, <2>2 DEF BurnsDead, Childless
<1>8. StoredWaits'
  <2>1. op'[r] = "refresh" /\ arg'[r] = stored => act[a].at \in Exchanging /\ act[a].rt = stored
    BY <1>3 DEF Received, StoredWaits
  <2>2. \A c \in Acts : act'[c].sent = "refresh" /\ act'[c].req = None => act'[c].at \in Exchanging
    BY <1>3, <1>4, <1>5, NoRequestAssumption DEF StoredWaits
  <2>3. \A c \in Acts : act[c].at \in Exchanging /\ act[c].rt = stored
                         => act'[c].at \in Exchanging /\ act'[c].rt = stored'
    BY <1>1, <1>4, <1>5
  <2>4. \A q \in Requests : op'[q] = "refresh" /\ arg'[q] = stored' /\ stored' # None =>
           \E c \in Acts : act[c].at \in Exchanging /\ act[c].rt = stored
    BY <1>1, <1>3, <2>1 DEF StoredWaits
  <2>. QED
    BY <2>2, <2>3, <2>4 DEF StoredWaits
<1>9. EndsByReuse'
  BY <1>1, <1>3 DEF EndsByReuse
<1>. QED
  BY <1>6, <1>7, <1>8, <1>9 DEF RegularInv

\* The server rotates the end of a chain, and burns only what is dead already.
LEMMA RegularServed ==
    ASSUME ClientInv, RegularInv, NEW r \in Requests, Served(r), Regular'
    PROVE  RegularInv'
<1>1. UNCHANGED <<ref, stored, cookie, act, lost, ended, op, arg, account, expired>>
  BY DEF Served, client
<1>2. Regular
  BY <1>1 DEF Regular, PresentedTwice
<1>3. Chains /\ RevokedFor /\ BurnsDead /\ StoredWaits /\ EndsByReuse
  BY <1>2 DEF RegularInv
<1>4. \A q \in Requests : reply'[q] = "reuse" => reply[q] = "reuse"
  BY DEF Served
<1>5. \A t \in issued : t \in issued' /\ origin'[t] = origin[t]
  BY DEF Served
<1>6. \A t : Childless(t)' => Childless(t)
  BY <1>5 DEF Childless
\* What is rotated has no successor yet, for that would be another presentation.
<1>7. ASSUME pc[r] = "rotate"
      PROVE  /\ op[r] = "refresh" /\ arg[r] \in issued /\ Childless(arg[r])
             /\ \A q \in Requests : reply[q] = "reuse" => arg[q] # arg[r]
  <2>1. op[r] = "refresh" /\ arg[r] \in issued /\ reply[r] = "none"
    BY <1>7 DEF ClientInv, Flow, Rotating
  <2>2. \A u \in issued : origin[u].parent # arg[r]
    BY <1>2, <1>7, <2>1, ChildPresented DEF Regular, PresentedTwice
  <2>3. \A q \in Requests : reply[q] = "reuse" => op[q] = "refresh"
    BY DEF ClientInv, Flow
  <2>. QED
    BY <1>2, <2>1, <2>2, <2>3 DEF Childless, Regular, PresentedTwice
<1>8. Chains'
  <2>1. CASE UNCHANGED <<issued, origin>>
    BY <1>3, <2>1 DEF Chains, Childless
  <2>2. CASE pc[r] = "rotate"
    <3>1. PICK n \in Tokens \ issued :
             /\ issued' = issued \cup {n} /\ origin'[n].parent = arg[r]
             /\ origin'[n].family = origin[arg[r]].family
      BY <2>2 DEF Served
    <3>2. ~Childless(arg[r])'
      BY <1>1, <3>1 DEF Childless
    <3>. QED
      BY <1>1, <1>3, <1>5, <1>6, <1>7, <2>2, <3>1, <3>2 DEF Chains
  <2>3. CASE pc[r] = "issue"
    <3>1. PICK n \in Tokens \ issued : issued' = issued \cup {n} /\ origin'[n].family = n
      BY <2>3 DEF Served
    <3>2. \A t \in issued : origin[t].family # n
      BY <3>1 DEF ClientInv, Inv, FamiliesIssued
    <3>. QED
      BY <1>3, <1>5, <1>6, <3>1, <3>2 DEF Chains
  <2>. QED
    BY <2>1, <2>2, <2>3 DEF Served
<1>9. RevokedFor'
  <2>1. \A t \in revoked : t \in issued
    BY DEF ClientInv, Inv, TypeOK
  <2>2. \A t \in revoked : ~Childless(t)' \/ LeftWith(t)'
    BY <1>1, <1>3, <1>6 DEF RevokedFor, LeftWith
  <2>3. pc[r] = "burning" => seen[r] = {}
    BY <1>3 DEF BurnsDead
  <2>4. pc[r] = "logout" => LeftWith(arg[r])'
    BY <1>1 DEF ClientInv, Flow, LeftWith, Rotating
  <2>5. pc[r] = "rotate" => ~Childless(arg[r])'
    BY DEF Served, Childless
  <2>. QED
    BY <2>2, <2>3, <2>4, <2>5 DEF Served, RevokedFor
<1>10. BurnsDead'
  <2>1. revoked \subseteq revoked'
    BY DEF Served
  <2>2. ASSUME NEW q \in Requests, reply[q] = "reuse"
        PROVE  Childless(arg[q])'
    <3>1. Childless(arg[q]) /\ arg[q] # None
      BY <1>3, <2>2, NoneNotIssued DEF BurnsDead, ClientInv, Inv, TypeOK
    <3>. QED
      BY <1>5, <1>7, <2>2, <3>1 DEF Served, Childless
  <2>3. ASSUME pc'[r] = "burning" PROVE seen'[r] = {}
    <3>1. pc[r] = "burn" /\ seen'[r] = FamilyOf(arg[r]) \ revoked
      BY <2>3 DEF Served
    <3>2. reply[r] = "reuse" /\ arg[r] \in issued
      BY <3>1 DEF ClientInv, Flow, Rotating
    <3>3. Childless(arg[r]) /\ arg[r] \in revoked
      BY <1>3, <3>2 DEF BurnsDead
    <3>4. ASSUME NEW t \in FamilyOf(arg[r]) \ revoked PROVE FALSE
      <4>1. t \in issued /\ origin[t].family = origin[arg[r]].family /\ t # None
        BY NoneNotIssued DEF FamilyOf, ClientInv
      <4>2. Childless(t)
        BY <4>1 DEF Childless, ClientInv, Inv, OnlyLeavesLive
      <4>. QED
        BY <1>3, <3>2, <3>3, <4>1, <4>2 DEF Chains
    <3>. QED
      BY <3>1, <3>4
  <2>4. \A q \in Requests \ {r} : pc'[q] = "burning" => seen'[q] = {}
    BY <1>3 DEF Served, BurnsDead
  <2>. QED
    BY <1>1, <1>3, <1>4, <2>1, <2>2, <2>3, <2>4 DEF BurnsDead
<1>11. StoredWaits'
  BY <1>1, <1>3 DEF StoredWaits
<1>12. EndsByReuse'
  <2>1. \A q \in Requests : reply[q] = "reuse" => reply'[q] = "reuse"
    BY DEF Served, ClientInv, Flow, Rotating
  <2>. QED
    BY <1>1, <1>3, <2>1 DEF EndsByReuse
<1>. QED
  BY <1>8, <1>9, <1>10, <1>11, <1>12 DEF RegularInv

\* Every step keeps what holds without double use.
LEMMA RegularStep == ClientInv /\ RegularInv /\ [ClientNext]_allVars => RegularInv'
<1> SUFFICES ASSUME ClientInv, RegularInv, [ClientNext]_allVars, Regular' PROVE RegularInv'
  BY DEF RegularInv
<1>1. CASE UNCHANGED allVars
  BY <1>1 DEF allVars, server, client, vars, store, RegularInv, Regular, PresentedTwice,
     Chains, RevokedFor, BurnsDead, StoredWaits, EndsByReuse, Childless, LeftWith
<1>. QED
  BY <1>1, ClientCases, TabMoves, ResolveMoves, RegularClient, ArrivesReceives, RegularReceived,
     ServesServed, RegularServed

LEMMA ClientInvariant == ClientSpec => [](ClientInv /\ RegularInv)
<1>1. ClientInit => RegularInv
  BY DEF ClientInit, Init, NoAct, RegularInv, Chains, RevokedFor, BurnsDead, StoredWaits,
        EndsByReuse
<1>. QED
  BY <1>1, ClientInitInv, ClientInvStep, RegularStep, PTL DEF ClientSpec

\* The browser does nothing to the server that RefreshTokens does not allow: all
\* that is proved of the token table holds of it with these clients.
THEOREM ClientImplementsServer == ClientSpec => Spec
<1>1. ClientInit => Init
  BY DEF ClientInit
<1>2. ClientInv /\ [ClientNext]_allVars => [Next]_vars
  BY IsServerStep
<1>. QED
  BY <1>1, <1>2, ClientInvariant, PTL DEF ClientSpec, Spec

\* A session ends early only if an answer was lost, a token was presented twice, or
\* a page logged out with the token that another was about to exchange.
THEOREM EndsAreExplainedAlways == ClientSpec => []EndsAreExplained
<1>1. ClientInv /\ RegularInv => EndsAreExplained
  <2> SUFFICES ASSUME ClientInv, RegularInv, ended # {}, Regular
               PROVE  \E r \in Requests : op[r] = "refresh" /\ LeftWith(arg[r])
    BY DEF EndsAreExplained, Regular
  <2>1. PICK r \in Requests : reply[r] = "reuse"
    BY DEF RegularInv, EndsByReuse
  <2>2. op[r] = "refresh"
    BY <2>1 DEF ClientInv, Flow
  <2>. QED
    BY <2>1, <2>2 DEF RegularInv, BurnsDead, RevokedFor
<1>. QED
  BY <1>1, ClientInvariant, PTL

\* Without those, the token in the browser's storage can be exchanged, or it is
\* just being exchanged, or a page logged out with it.
THEOREM StoredIsLiveAlways == ClientSpec => []StoredIsLive
<1>1. ClientInv /\ RegularInv => StoredIsLive
  <2> SUFFICES ASSUME ClientInv, RegularInv, stored # None, Regular, ~IsActive(stored),
                      ~LeftWith(stored)
               PROVE  \E a \in Acts : Working(a) /\ act[a].sent = "refresh" /\ act[a].rt = stored
    BY DEF StoredIsLive, Regular
  <2>1. stored \in issued /\ stored \in revoked
    BY DEF ClientInv, ClientTypeOK, Flow, IsActive, Exists
  <2>2. PICK u \in issued : origin[u].parent = stored
    BY <2>1 DEF RegularInv, RevokedFor, Childless
  <2>3. PICK a \in Acts : act[a].at \in Exchanging /\ act[a].rt = stored
    BY <2>1, <2>2, ChildPresented DEF RegularInv, StoredWaits
  <2>4. act[a].sent = "refresh" /\ Working(a)
    BY <2>3 DEF ClientInv, SentMatches, Working, Exchanging
  <2>. QED
    BY <2>3, <2>4
<1>. QED
  BY <1>1, ClientInvariant, PTL
=============================================================================
