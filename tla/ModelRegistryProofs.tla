------------------------ MODULE ModelRegistryProofs ------------------------
(***************************************************************************)
(* Proofs about ModelRegistry, for any number of models, requests and      *)
(* workers.                                                                *)
(***************************************************************************)
EXTENDS ModelRegistry, TLAPS

\* The steps of one request, in the groups that the proofs below split on.
Step(r) ==
    \/ \E m \in Models, activate \in BOOLEAN : Train(r, m, activate)
    \/ \E m \in rows : Begin(r, m, "activate") \/ Begin(r, m, "unlink")
    \/ Begin(r, NoModel, "clear")
    \/ Saves(r) \/ Inserts(r) \/ Evaluates(r) \/ Checks(r)
    \/ ActivateSweeps(r) \/ ActivateCommits(r)
    \/ DeactivateSweeps(r) \/ DeactivateCommits(r)
    \/ Unlinks(r) \/ Deletes(r) \/ Fails(r)
    \/ \E w \in Workers : Invalidates(r, w) \/ Score(r, w)

LEMMA StepCases ==
    ASSUME [Next]_vars
    PROVE  (\E r \in Requests : Step(r)) \/ UNCHANGED vars
BY DEF Next, Step

-----------------------------------------------------------------------------
(* The inductive invariant. *)

\* The model a training is about to insert is its own.
OwnModel ==
    \A r \in Requests : pc[r] \in {"save", "insert"} =>
        /\ call[r].model \in Models \ rows
        /\ \A q \in Requests \ {r} : call[q].model # call[r].model

\* One sweep at a time holds rows.
OneSweep == \A p, q \in Requests : p # q => swept[p] = {} \/ swept[q] = {}

\* Whoever holds rows is about to commit, and holds the active ones.
HoldsActive ==
    \A q \in Requests : swept[q] # {} =>
        pc[q] \in {"set", "clearing"} /\ active \subseteq swept[q]

\* The row that an activation will set, while it exists, is one it holds.
HoldsOwn ==
    \A q \in Requests : pc[q] = "set" /\ call[q].model \in rows =>
        call[q].model \in swept[q]

Inv == TypeOK /\ OwnModel /\ OneSweep /\ HoldsActive /\ HoldsOwn /\ OneActive

LEMMA InitInv ==
    ASSUME Init
    PROVE  Inv
<1>1. rows \subseteq Models /\ active \subseteq rows
  BY DEF Init
<1>2. TypeOK
  BY <1>1 DEF Init, TypeOK, Labels, Call, NoCall
<1>3. OwnModel /\ OneSweep /\ HoldsActive /\ HoldsOwn
  BY DEF Init, OwnModel, OneSweep, HoldsActive, HoldsOwn
<1>4. OneActive
  BY DEF Init, OneActive
<1>. QED
  BY <1>2, <1>3, <1>4 DEF Inv

-----------------------------------------------------------------------------
(* Types, and the models of trainings. *)

\* What a request changes in its call keeps the type.
LEMMA CallFields ==
    ASSUME NEW c \in Call, NEW m \in Models \cup {NoModel},
           NEW n \in {"activate", "done"}
    PROVE  /\ [c EXCEPT !.model = m] \in Call
           /\ [[c EXCEPT !.model = m] EXCEPT !.next = n] \in Call
BY DEF Call

LEMMA TypeStep ==
    ASSUME TypeOK, OwnModel, NEW r \in Requests, Step(r)
    PROVE  TypeOK'
<1>1. NoCall \in Call
  BY DEF NoCall, Call
<1>2. CASE \E m \in Models, activate \in BOOLEAN : Train(r, m, activate)
  <2>1. PICK m \in Models, activate \in BOOLEAN : Train(r, m, activate)
    BY <1>2
  <2> DEFINE n == IF activate THEN "activate" ELSE "done"
  <2>2. [[call[r] EXCEPT !.model = m] EXCEPT !.next = n] \in Call
    BY CallFields DEF TypeOK
  <2>3. call' = [call EXCEPT ![r] = [[call[r] EXCEPT !.model = m] EXCEPT !.next = n]]
    BY <2>1 DEF Train, TypeOK, Call
  <2>. QED
    BY <2>1, <2>2, <2>3 DEF TypeOK, Train, Goto, Labels
<1>3. ASSUME NEW m \in Models \cup {NoModel}, NEW label \in Labels, Begin(r, m, label)
      PROVE  TypeOK'
  <2>1. [call[r] EXCEPT !.model = m] \in Call
    BY CallFields DEF TypeOK
  <2>2. call' = [call EXCEPT ![r] = [call[r] EXCEPT !.model = m]]
    BY <1>3 DEF Begin
  <2>. QED
    BY <1>3, <2>1, <2>2 DEF TypeOK, Begin, Goto
<1>4. CASE \/ \E m \in rows : Begin(r, m, "activate") \/ Begin(r, m, "unlink")
           \/ Begin(r, NoModel, "clear")
  BY <1>3, <1>4 DEF TypeOK, Labels
<1>5. CASE Saves(r) \/ Inserts(r)
  <2>1. call[r].model \in Models
    BY <1>5 DEF OwnModel, Saves, Inserts
  <2>. QED
    BY <1>5, <2>1 DEF TypeOK, Saves, Inserts, Goto, Labels
<1>6. CASE Evaluates(r)
  BY <1>1, <1>6 DEF TypeOK, Evaluates, GoesTo, Ends, Goto, Labels
<1>7. CASE Checks(r)
  BY <1>1, <1>7 DEF TypeOK, Checks, GoesTo, Ends, Goto, Labels
<1>8. CASE ActivateSweeps(r) \/ DeactivateSweeps(r)
  BY <1>8 DEF TypeOK, ActivateSweeps, DeactivateSweeps, Sweeps, Goto, Labels
<1>9. CASE ActivateCommits(r)
  BY <1>1, <1>9 DEF TypeOK, ActivateCommits, GoesToRefresh, Ends, Goto, Labels
<1>10. CASE DeactivateCommits(r)
  BY <1>10 DEF TypeOK, DeactivateCommits, GoesToRefresh, Goto, Labels
<1>11. CASE Unlinks(r)
  <2>1. CASE call' = [call EXCEPT ![r].was = call[r].model \in active]
    <3> DEFINE was == call[r].model \in active
    <3>0. was \in BOOLEAN /\ call[r] \in Call
      BY DEF TypeOK
    <3>1. [call[r] EXCEPT !.was = was] \in Call
      <4> HIDE DEF was
      <4>. QED
        BY <3>0 DEF Call
    <3>2. call' = [call EXCEPT ![r] = [call[r] EXCEPT !.was = was]]
      BY <2>1
    <3>. QED
      BY <1>1, <1>11, <3>1, <3>2 DEF TypeOK, Unlinks, Ends, Goto, Labels
  <2>2. CASE Ends(r)
    BY <1>1, <1>11, <2>2 DEF TypeOK, Unlinks, Ends, Goto, Labels
  <2>. QED
    BY <1>11, <2>1, <2>2 DEF Unlinks
<1>12. CASE Deletes(r)
  BY <1>1, <1>12 DEF TypeOK, Deletes, GoesToRefresh, Ends, Goto, Labels
<1>13. CASE Fails(r)
  BY <1>1, <1>13 DEF TypeOK, Fails, Ends, Goto, Labels
<1>14. CASE \E w \in Workers : Invalidates(r, w)
  BY <1>1, <1>14 DEF TypeOK, Invalidates, Ends, Goto, Labels
<1>15. CASE \E w \in Workers : Score(r, w)
  BY <1>15 DEF TypeOK, Score, Goto, Labels
<1>. QED
  BY <1>2, <1>3, <1>4, <1>5, <1>6, <1>7, <1>8, <1>9, <1>10, <1>11, <1>12, <1>13,
     <1>14, <1>15 DEF Step

LEMMA OwnModelStep ==
    ASSUME NoModel \notin Models, TypeOK, OwnModel, NEW r \in Requests, Step(r)
    PROVE  OwnModel'
<1>1. NoCall.model = NoModel
  BY DEF NoCall
<1>2. CASE \E m \in Models, activate \in BOOLEAN : Train(r, m, activate)
  <2>1. PICK m \in Models, activate \in BOOLEAN : Train(r, m, activate)
    BY <1>2
  <2>2. call'[r].model = m /\ \A q \in Requests \ {r} : call'[q] = call[q]
    BY <2>1 DEF Train, TypeOK, Call
  <2>3. m \notin rows /\ \A q \in Requests : call[q].model # m
    BY <2>1 DEF Train, New
  <2>4. rows' = rows /\ \A q \in Requests \ {r} : pc'[q] = pc[q]
    BY <2>1 DEF Train, Goto, TypeOK
  <2>. QED
    BY <2>2, <2>3, <2>4 DEF OwnModel
<1>3. CASE \E m \in rows : Begin(r, m, "activate") \/ Begin(r, m, "unlink")
  BY <1>3, SMTT(30) DEF TypeOK, OwnModel, Begin, Goto, Call
<1>4. CASE Begin(r, NoModel, "clear")
  BY <1>4 DEF TypeOK, OwnModel, Begin, Goto, Call
<1>5. CASE Saves(r) \/ Inserts(r)
  BY <1>5 DEF TypeOK, OwnModel, Saves, Inserts, Goto
<1>6. CASE Evaluates(r)
  BY <1>1, <1>6 DEF TypeOK, OwnModel, Evaluates, GoesTo, Ends, Goto
<1>7. CASE Checks(r)
  BY <1>1, <1>7 DEF TypeOK, OwnModel, Checks, GoesTo, Ends, Goto
<1>8. CASE ActivateSweeps(r) \/ DeactivateSweeps(r)
  BY <1>8 DEF TypeOK, OwnModel, ActivateSweeps, DeactivateSweeps, Sweeps, Goto
<1>9. CASE ActivateCommits(r)
  BY <1>1, <1>9 DEF TypeOK, OwnModel, ActivateCommits, GoesToRefresh, Ends, Goto
<1>10. CASE DeactivateCommits(r)
  BY <1>10 DEF TypeOK, OwnModel, DeactivateCommits, GoesToRefresh, Goto
<1>11. CASE Unlinks(r)
  <2>1. CASE Ends(r)
    BY <1>1, <1>11, <2>1 DEF TypeOK, OwnModel, Unlinks, Ends, Goto
  <2>2. CASE Goto(r, "delete") /\ call' = [call EXCEPT ![r].was = call[r].model \in active]
    <3>1. \A q \in Requests : call'[q].model = call[q].model
      BY <2>2 DEF TypeOK, Call
    <3>. QED
      BY <1>11, <2>2, <3>1 DEF TypeOK, OwnModel, Unlinks, Goto
  <2>. QED
    BY <1>11, <2>1, <2>2 DEF Unlinks
<1>12. CASE Deletes(r)
  BY <1>1, <1>12 DEF TypeOK, OwnModel, Deletes, GoesToRefresh, Ends, Goto
<1>13. CASE Fails(r)
  BY <1>1, <1>13 DEF TypeOK, OwnModel, Fails, Ends, Goto
<1>14. CASE \E w \in Workers : Invalidates(r, w)
  BY <1>1, <1>14 DEF TypeOK, OwnModel, Invalidates, Ends, Goto
<1>15. CASE \E w \in Workers : Score(r, w)
  BY <1>15 DEF TypeOK, OwnModel, Score, Goto
<1>. QED
  BY <1>2, <1>3, <1>4, <1>5, <1>6, <1>7, <1>8, <1>9, <1>10, <1>11, <1>12, <1>13,
     <1>14, <1>15 DEF Step

-----------------------------------------------------------------------------
(* The sweeps. *)

\* A request that holds no rows, sets none and sweeps none disturbs nothing as
\* long as active rows only go and no row appears.
LEMMA QuietStep ==
    ASSUME Inv, NEW r \in Requests,
           active' \subseteq active, rows' \subseteq rows,
           pc'[r] \notin {"set", "clearing"}, swept'[r] = {},
           \A q \in Requests \ {r} :
               pc'[q] = pc[q] /\ swept'[q] = swept[q] /\ call'[q] = call[q]
    PROVE  (OneSweep /\ HoldsActive /\ HoldsOwn /\ OneActive)'
<1>1. OneSweep'
  BY DEF Inv, OneSweep
<1>2. HoldsActive'
  BY DEF Inv, HoldsActive
<1>3. HoldsOwn'
  BY DEF Inv, HoldsOwn
<1>4. OneActive'
  BY DEF Inv, OneActive
<1>. QED
  BY <1>1, <1>2, <1>3, <1>4

\* Only who has swept holds rows: no other request has any to give back.
LEMMA HoldsNothing ==
    ASSUME Inv, NEW r \in Requests, pc[r] \notin {"set", "clearing"}
    PROVE  swept[r] = {}
BY DEF Inv, HoldsActive

\* The sweep itself: nobody else holds rows, and all rows are held afterwards.
LEMMA SweepStep ==
    ASSUME Inv, NEW r \in Requests, ActivateSweeps(r) \/ DeactivateSweeps(r)
    PROVE  (OneSweep /\ HoldsActive /\ HoldsOwn /\ OneActive)'
<1>1. \A q \in Requests \ {r} : swept[q] = {}
  BY DEF ActivateSweeps, DeactivateSweeps, Sweeps, Locked
<1>2. /\ swept'[r] = rows /\ pc'[r] \in {"set", "clearing"}
      /\ \A q \in Requests \ {r} : swept'[q] = {} /\ pc'[q] = pc[q]
      /\ UNCHANGED <<rows, active, call>>
  BY <1>1 DEF ActivateSweeps, DeactivateSweeps, Sweeps, Goto, Inv, TypeOK
<1>3. OneSweep'
  BY <1>2 DEF OneSweep
<1>4. HoldsActive'
  BY <1>2 DEF HoldsActive, Inv, TypeOK
<1>5. HoldsOwn'
  BY <1>1, <1>2 DEF Inv, HoldsOwn
<1>6. OneActive'
  BY <1>2 DEF Inv, OneActive
<1>. QED
  BY <1>3, <1>4, <1>5, <1>6

\* The commit of an activation: it holds its own row, so it holds every active
\* one, and leaves its own alone active; nobody else holds any.
LEMMA ActivateStep ==
    ASSUME Inv, NEW r \in Requests, ActivateCommits(r)
    PROVE  (OneSweep /\ HoldsActive /\ HoldsOwn /\ OneActive)'
<1> DEFINE m == call[r].model
<1>1. /\ pc'[r] \notin {"set", "clearing"} /\ swept'[r] = {} /\ rows' = rows
      /\ \A q \in Requests \ {r} :
            pc'[q] = pc[q] /\ swept'[q] = swept[q] /\ call'[q] = call[q]
  BY DEF ActivateCommits, GoesToRefresh, Ends, Goto, Inv, TypeOK
<1>2. CASE m \notin rows
  <2>1. active' = active
    BY <1>2 DEF ActivateCommits
  <2>. QED
    BY <1>1, <2>1, QuietStep
<1>3. CASE m \in rows
  <2>1. active' = (active \ swept[r]) \cup {m}
    BY <1>3 DEF ActivateCommits
  <2>2. m \in swept[r]
    BY <1>3 DEF ActivateCommits, Inv, HoldsOwn
  <2>3. active' = {m}
    BY <2>1, <2>2 DEF Inv, HoldsActive
  <2>4. \A q \in Requests : swept'[q] = {}
    BY <1>1, <2>2 DEF Inv, OneSweep
  <2>5. HoldsOwn'
    BY <1>1, <2>4 DEF Inv, HoldsOwn
  <2>. QED
    BY <2>3, <2>4, <2>5 DEF OneSweep, HoldsActive, OneActive
<1>. QED
  BY <1>2, <1>3

\* A new row is not active, and it is not the row of any other activation.
LEMMA InsertStep ==
    ASSUME Inv, NEW r \in Requests, Inserts(r)
    PROVE  (OneSweep /\ HoldsActive /\ HoldsOwn /\ OneActive)'
<1>1. /\ pc'[r] \notin {"set", "clearing"} /\ swept' = swept /\ active' = active
      /\ call' = call /\ rows' = rows \cup {call[r].model}
      /\ \A q \in Requests \ {r} : pc'[q] = pc[q] /\ call[q].model # call[r].model
  BY DEF Inserts, Goto, Inv, TypeOK, OwnModel
<1>2. pc[r] \notin {"set", "clearing"}
  BY DEF Inserts
<1>3. OneSweep' /\ OneActive'
  BY <1>1 DEF Inv, OneSweep, OneActive
<1>4. HoldsActive'
  BY <1>1, <1>2 DEF Inv, HoldsActive
<1>5. HoldsOwn'
  BY <1>1 DEF Inv, HoldsOwn
<1>. QED
  BY <1>3, <1>4, <1>5

LEMMA SweepsKept ==
    ASSUME Inv, NEW r \in Requests, Step(r)
    PROVE  (OneSweep /\ HoldsActive /\ HoldsOwn /\ OneActive)'
<1> DEFINE Quiet ==
      /\ active' \subseteq active /\ rows' \subseteq rows
      /\ pc'[r] \notin {"set", "clearing"} /\ swept'[r] = {}
      /\ \A q \in Requests \ {r} :
            pc'[q] = pc[q] /\ swept'[q] = swept[q] /\ call'[q] = call[q]
<1>1. CASE \/ \E m \in Models, activate \in BOOLEAN : Train(r, m, activate)
           \/ \E m \in rows : Begin(r, m, "activate") \/ Begin(r, m, "unlink")
           \/ Begin(r, NoModel, "clear")
  <2>1. pc[r] = "idle"
    BY <1>1 DEF Train, Begin
  <2>2. swept[r] = {}
    BY <2>1, HoldsNothing
  <2>3. Quiet
    BY <1>1, <2>2 DEF Train, Begin, Goto, Inv, TypeOK
  <2>. QED
    BY <2>3, QuietStep
<1>2. CASE Saves(r)
  <2>1. swept[r] = {}
    BY <1>2, HoldsNothing DEF Saves
  <2>2. Quiet
    BY <1>2, <2>1 DEF Saves, Goto, Inv, TypeOK
  <2>. QED
    BY <2>2, QuietStep
<1>3. CASE Inserts(r)
  BY <1>3, InsertStep
<1>4. CASE Evaluates(r) \/ Checks(r)
  <2>1. swept[r] = {}
    BY <1>4, HoldsNothing DEF Evaluates, Checks
  <2>2. Quiet
    BY <1>4, <2>1 DEF Evaluates, Checks, GoesTo, Ends, Goto, Inv, TypeOK
  <2>. QED
    BY <2>2, QuietStep
<1>5. CASE ActivateSweeps(r) \/ DeactivateSweeps(r)
  BY <1>5, SweepStep
<1>6. CASE ActivateCommits(r)
  BY <1>6, ActivateStep
<1>7. CASE DeactivateCommits(r)
  <2>1. Quiet
    BY <1>7 DEF DeactivateCommits, GoesToRefresh, Goto, Inv, TypeOK
  <2>. QED
    BY <2>1, QuietStep
<1>8. CASE Unlinks(r)
  <2>1. swept[r] = {}
    BY <1>8, HoldsNothing DEF Unlinks
  <2>2. Quiet
    BY <1>8, <2>1 DEF Unlinks, Ends, Goto, Inv, TypeOK
  <2>. QED
    BY <2>2, QuietStep
<1>9. CASE Deletes(r)
  <2>1. Quiet
    BY <1>9 DEF Deletes, GoesToRefresh, Ends, Goto, Inv, TypeOK
  <2>. QED
    BY <2>1, QuietStep
<1>10. CASE Fails(r) \/ \E w \in Workers : Invalidates(r, w)
  <2>1. Quiet
    BY <1>10 DEF Fails, Invalidates, Ends, Goto, Inv, TypeOK
  <2>. QED
    BY <2>1, QuietStep
<1>11. CASE \E w \in Workers : Score(r, w)
  <2>1. swept[r] = {}
    BY <1>11, HoldsNothing DEF Score
  <2>2. Quiet
    BY <1>11, <2>1 DEF Score, Goto, Inv, TypeOK
  <2>. QED
    BY <2>2, QuietStep
<1>. QED
  BY <1>1, <1>2, <1>3, <1>4, <1>5, <1>6, <1>7, <1>8, <1>9, <1>10, <1>11 DEF Step

LEMMA InvStep ==
    ASSUME NoModel \notin Models, Inv, [Next]_vars
    PROVE  Inv'
<1>1. CASE UNCHANGED vars
  BY <1>1 DEF vars, Inv, TypeOK, OwnModel, OneSweep, HoldsActive, HoldsOwn, OneActive
<1>2. ASSUME NEW r \in Requests, Step(r)
      PROVE  Inv'
  <2>1. TypeOK' /\ OwnModel'
    BY <1>2, TypeStep, OwnModelStep DEF Inv
  <2>2. (OneSweep /\ HoldsActive /\ HoldsOwn /\ OneActive)'
    BY <1>2, SweepsKept
  <2>. QED
    BY <2>1, <2>2 DEF Inv
<1>. QED
  BY <1>1, <1>2, StepCases

-----------------------------------------------------------------------------

\* The variables keep their types: what requests hold are models and rows.
THEOREM TypeCorrect ==
    ASSUME NoModel \notin Models
    PROVE  Spec => []TypeOK
<1>1. Inv => TypeOK
  BY DEF Inv
<1>. QED
  BY <1>1, InitInv, InvStep, PTL DEF Spec

\* However switches, trainings and deletions interleave and fail, at most one
\* model is active: an activation holds every active row when it commits.
THEOREM OneActiveAlways ==
    ASSUME NoModel \notin Models
    PROVE  Spec => []OneActive
<1>1. Inv => OneActive
  BY DEF Inv
<1>. QED
  BY <1>1, InitInv, InvStep, PTL DEF Spec

LEMMA ScoreStep ==
    ASSUME TypeOK, [Next]_vars
    PROVE  [ScoresWithActive]_vars
<1>1. ASSUME NEW r \in Requests, NEW w \in Workers, TypeOK, Score(r, w)
      PROVE  ScoresWithActive
  <2>1. \A q \in Requests \ {r} : scored'[q] = scored[q]
    BY <1>1 DEF Score, TypeOK
  <2>2. scored'[r] # scored[r] => scored'[r] \in active
    BY <1>1 DEF Score, Hits, TypeOK
  <2>. QED
    BY <2>1, <2>2 DEF ScoresWithActive
<1>2. ASSUME NEW r \in Requests, Step(r), \A w \in Workers : ~Score(r, w)
      PROVE  UNCHANGED scored
  BY <1>2 DEF Step, Train, Begin, Saves, Inserts, Evaluates, Checks, ActivateSweeps,
     ActivateCommits, DeactivateSweeps, DeactivateCommits, Unlinks, Deletes, Fails,
     Invalidates
<1>3. UNCHANGED scored => ScoresWithActive
  BY DEF ScoresWithActive
<1>. QED
  BY <1>1, <1>2, <1>3, StepCases

\* A request scores with the model that is active when it asks: the caches are
\* asked for the id of the row, and what they hold otherwise is not used.
THEOREM ScoredWasActiveAlways ==
    ASSUME NoModel \notin Models
    PROVE  Spec => ScoredWasActive
<1>. QED
  BY ScoreStep, TypeCorrect, PTL DEF Spec, ScoredWasActive
=============================================================================
