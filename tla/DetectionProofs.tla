-------------------------- MODULE DetectionProofs --------------------------
(***************************************************************************)
(* Proofs about Detection, for any number of runs, submissions and rules.  *)
(***************************************************************************)
EXTENDS Detection, FiniteSetTheorems, TLAPS

\* Every step is the step of one run, an edit of a rule, the clock's or none.
LEMMA StepCases ==
    ASSUME [Next]_vars
    PROVE  \/ \E r \in Runs : Begin(r) \/ ReadReplay(r) \/ ReadBurst(r)
           \/ \E r \in Runs : CommitEvent(r)
           \/ \E r \in Runs : CommitAlert(r) \/ Broadcast(r) \/ Fails(r)
           \/ \E r \in Runs : ReadRecent(r)
           \/ \E r \in Runs : JoinIncident(r)
           \/ \E r \in Runs : OpenIncident(r)
           \/ \E k \in Codes : PatchRule(k)
           \/ Tick
           \/ UNCHANGED vars
BY DEF Next, Step

\* The severity of an alert is the highest among its findings.
LEMMA WorstExists ==
    ASSUME NEW F, F # {}, \A f \in F : f.severity \in Severities
    PROVE  /\ AlertSeverity(F) \in Severities
           /\ \E f \in F : f.severity = AlertSeverity(F)
<1>1. \E f \in F : \A g \in F : Rank[g.severity] <= Rank[f.severity]
  <2>. DEFINE has(s) == \E f \in F : f.severity = s
  <2>1. CASE has("critical")
    BY <2>1 DEF Severities, Rank
  <2>2. CASE ~has("critical") /\ has("high")
    BY <2>2 DEF Severities, Rank
  <2>3. CASE ~has("critical") /\ ~has("high") /\ has("medium")
    BY <2>3 DEF Severities, Rank
  <2>4. CASE ~has("critical") /\ ~has("high") /\ ~has("medium") /\ has("low")
    BY <2>4 DEF Severities, Rank
  <2>5. CASE ~has("critical") /\ ~has("high") /\ ~has("medium") /\ ~has("low")
    BY <2>5 DEF Severities, Rank
  <2>. QED
    BY <2>1, <2>2, <2>3, <2>4, <2>5
<1>. QED
  BY <1>1 DEF AlertSeverity

-----------------------------------------------------------------------------
(* Types, stages, and what the tables hold. *)

LEMMA InitInv == Init => Inv
BY RunsAssumption, TimeAssumption, SubmissionAssumption
   DEF Init, Inv, TypeOK, Graded, Stages, PastEnded, Labels, Ended, IncidentRow, Rules,
       NoIncident, Severities

\* The two findings of the history rules are graded, and so is all a run keeps.
LEMMA GradedStep ==
    ASSUME TypeOK, Graded, [Next]_vars
    PROVE  Graded'
<1> USE DEF TypeOK, Graded, vars, request, tables, Goto
<1>1. ASSUME NEW r \in Runs, Begin(r) \/ ReadReplay(r) \/ ReadBurst(r)
      PROVE  Graded'
  <2>1. \/ history' = history
        \/ \E s \in {"high", "critical"} :
              history' = [history EXCEPT ![r] = {Finding("T14", s)}]
        \/ \E B \in {{}, {Finding("T15", "medium")}} :
              history' = [history EXCEPT ![r] = @ \cup B]
    <3>. HIDE DEF TypeOK, Graded
    <3>1. CASE Begin(r)
      BY <3>1 DEF Begin
    <3>2. CASE ReadReplay(r)
      BY <3>2 DEF ReadReplay
    <3>3. CASE ReadBurst(r)
      <4>. DEFINE B == {Finding("T15", "medium")}
      <4>1. \/ history' = [history EXCEPT ![r] = @ \cup B]
            \/ history' = [history EXCEPT ![r] = @ \cup {}]
        BY <3>3 DEF ReadBurst
      <4>. QED
        BY <4>1
    <3>. QED
      BY <1>1, <3>1, <3>2, <3>3
  <2>2. UNCHANGED <<sub, findings>>
    BY <1>1 DEF Begin, ReadReplay, ReadBurst
  <2>. QED
    BY <2>1, <2>2 DEF Finding, Severities
<1>2. ASSUME NEW r \in Runs, CommitEvent(r)
      PROVE  Graded'
  BY <1>2 DEF CommitEvent
<1>3. ASSUME NEW r \in Runs, CommitAlert(r) \/ Broadcast(r) \/ Fails(r)
      PROVE  Graded'
  BY <1>3 DEF CommitAlert, Broadcast, Fails
<1>4. ASSUME NEW r \in Runs, ReadRecent(r) \/ JoinIncident(r) \/ OpenIncident(r)
      PROVE  Graded'
  BY <1>4 DEF ReadRecent, JoinIncident, OpenIncident
<1>5. ASSUME NEW k \in Codes, PatchRule(k)
      PROVE  Graded'
  BY <1>5 DEF PatchRule
<1>6. CASE Tick \/ UNCHANGED vars
  BY <1>6 DEF Tick
<1>. QED
  BY <1>1, <1>2, <1>3, <1>4, <1>5, <1>6, StepCases

LEMMA TypeStep ==
    ASSUME Inv, [Next]_vars
    PROVE  TypeOK'
<1> USE DEF TypeOK, vars, request, tables, Goto, Labels, Ended
<1>0. TypeOK /\ Graded /\ Stages
  BY DEF Inv
<1> HIDE DEF Inv
<1>1. ASSUME NEW r \in Runs, Begin(r) \/ ReadReplay(r) \/ ReadBurst(r)
      PROVE  TypeOK'
  <2>1. CASE Begin(r)
    BY <1>0, <2>1 DEF Begin
  <2>2. CASE ReadReplay(r)
    BY <1>0, <2>2 DEF ReadReplay
  <2>3. CASE ReadBurst(r)
    BY <1>0, <2>3 DEF ReadBurst
  <2>. QED
    BY <1>1, <2>1, <2>2, <2>3
<1>2. ASSUME NEW r \in Runs, CommitEvent(r)
      PROVE  TypeOK'
  BY <1>0, <1>2 DEF CommitEvent
<1>3. ASSUME NEW r \in Runs, CommitAlert(r) \/ Broadcast(r) \/ Fails(r)
      PROVE  TypeOK'
  BY <1>0, <1>3 DEF CommitAlert, Broadcast, Fails, Stages
<1>4. ASSUME NEW r \in Runs, ReadRecent(r)
      PROVE  TypeOK'
  <2>1. choice' \in [Runs -> [since : Int, incident : Runs \cup {None}, row : IncidentRow]]
    <3>1. CASE choice' = [choice EXCEPT ![r].since = now - 1]
      BY <1>0, <3>1, TimeAssumption
    <3>2. ASSUME NEW best \in Runs, incidentOf[best] # None,
                 choice' = [choice EXCEPT ![r] =
                            [since |-> now - 1, incident |-> incidentOf[best],
                             row |-> incidents[incidentOf[best]]]]
          PROVE  choice' \in [Runs -> [since : Int, incident : Runs \cup {None},
                                       row : IncidentRow]]
      BY <1>0, <3>2, TimeAssumption
    <3>. QED
      BY <1>0, <1>4, <3>1, <3>2 DEF ReadRecent
  <2>. QED
    BY <1>0, <1>4, <2>1 DEF ReadRecent
<1>5. ASSUME NEW r \in Runs, JoinIncident(r) \/ OpenIncident(r)
      PROVE  TypeOK'
  <2>1. AlertSeverity(findings[r]) \in Severities
    BY <1>0, <1>5, WorstExists DEF JoinIncident, OpenIncident, Stages, Graded, AlertWorthy
  <2>2. choice[r].row \in IncidentRow /\ choice[r].incident \in Runs \cup {None}
    BY <1>0
  <2>3. incidents' \in [Runs -> IncidentRow]
    <3>1. CASE OpenIncident(r)
      BY <1>0, <3>1, <2>1 DEF OpenIncident, IncidentRow
    <3>2. CASE JoinIncident(r)
      <4>. DEFINE i == choice[r].incident
                  mine == AlertSeverity(findings[r])
                  n == choice[r].row.count + 1
      <4>1. \E s \in {mine, incidents[i].severity} :
               incidents' = [incidents EXCEPT ![i].count = n, ![i].severity = s]
        BY <3>2 DEF JoinIncident
      <4>2. n \in Nat
        BY <2>2 DEF IncidentRow
      <4>3. CASE i \in Runs
        BY <1>0, <4>1, <4>2, <4>3, <2>1 DEF IncidentRow
      <4>4. CASE i \notin Runs
        BY <1>0, <4>1, <4>4, ZenonT(40)
      <4>. QED
        BY <4>3, <4>4
    <3>. QED
      BY <1>5, <3>1, <3>2
  <2>. QED
    BY <1>0, <1>5, <2>2, <2>3, SMTT(30) DEF JoinIncident, OpenIncident
<1>6. ASSUME NEW k \in Codes, PatchRule(k)
      PROVE  TypeOK'
  BY <1>0, <1>6 DEF PatchRule, Rules
<1>7. CASE Tick
  BY <1>0, <1>7, TimeAssumption DEF Tick
<1>8. CASE UNCHANGED vars
  BY <1>0, <1>8
<1>. QED
  BY <1>1, <1>2, <1>3, <1>4, <1>5, <1>6, <1>7, <1>8, StepCases

\* A step leaves the stages of other runs alone; each moves its own on in order.
LEMMA StagesStep ==
    ASSUME Inv, [Next]_vars
    PROVE  Stages'
<1> USE DEF vars, request, tables, Goto, Labels, Ended
<1>0. TypeOK /\ Stages /\ None \notin Runs
  BY RunsAssumption DEF Inv
<1> DEFINE Stage(q) ==
        /\ pc[q] \in {"idle", "replay", "burst", "event"} => q \notin events
        /\ pc[q] \in {"idle", "replay", "burst", "event", "alert"} => q \notin alerts
        /\ pc[q] = "alert" => q \in events /\ AlertWorthy(findings[q], cfg[q])
        /\ pc[q] \in {"correlate", "open", "join", "publish"} => q \in alerts
        /\ q \in alerts => AlertWorthy(findings[q], cfg[q])
        /\ pc[q] = "join" => choice[q].incident \in Runs
        /\ incidentOf[q] # None => q \in alerts /\ pc[q] \in Ended \cup {"publish"}
        /\ pc[q] = "publish" \/ q \in announced => incidentOf[q] # None
        /\ pc[q] = "done" /\ q \in alerts => q \in announced
<1>1. \A q \in Runs : Stage(q)
  BY <1>0 DEF Stages
<1>2. SUFFICES ASSUME NEW q \in Runs
               PROVE  Stage(q)'
  BY DEF Stages
<1>3. CASE /\ pc'[q] = pc[q] /\ findings'[q] = findings[q] /\ cfg'[q] = cfg[q]
           /\ incidentOf'[q] = incidentOf[q] /\ choice'[q] = choice[q]
           /\ q \in events' <=> q \in events
           /\ q \in alerts' <=> q \in alerts
           /\ q \in announced' <=> q \in announced
  <2>1. AlertWorthy(findings[q], cfg[q])' <=> AlertWorthy(findings[q], cfg[q])
    BY <1>3
  <2>. QED
    BY <1>1, <1>3, <2>1
<1>4. ASSUME NEW r \in Runs, Step(r), r # q
      PROVE  Stage(q)'
  <2>1. /\ pc'[q] = pc[q] /\ findings'[q] = findings[q] /\ cfg'[q] = cfg[q]
        /\ incidentOf'[q] = incidentOf[q] /\ choice'[q] = choice[q]
        /\ q \in events' <=> q \in events
        /\ q \in alerts' <=> q \in alerts
        /\ q \in announced' <=> q \in announced
    BY <1>0, <1>4 DEF Step, Begin, ReadReplay, ReadBurst, CommitEvent, CommitAlert,
         ReadRecent, JoinIncident, OpenIncident, Broadcast, Fails, TypeOK
  <2>. QED
    BY <1>3, <2>1
<1>5. ASSUME Step(q)
      PROVE  Stage(q)'
  <2>1. CASE Begin(q)
    BY <1>0, <1>1, <2>1 DEF Begin, TypeOK
  <2>2. CASE ReadReplay(q) \/ ReadBurst(q) \/ ReadRecent(q) \/ Broadcast(q) \/ Fails(q)
    <3>1. /\ UNCHANGED <<events, alerts, findings, cfg, incidentOf>>
          /\ announced \subseteq announced'
      BY <2>2 DEF ReadReplay, ReadBurst, ReadRecent, Broadcast, Fails
    <3>2. AlertWorthy(findings[q], cfg[q])' <=> AlertWorthy(findings[q], cfg[q])
      BY <3>1
    <3>3. \/ pc[q] = "replay" /\ pc'[q] = "burst" /\ announced' = announced
          \/ pc[q] = "burst" /\ pc'[q] = "event" /\ announced' = announced
          \/ pc[q] = "correlate" /\ pc'[q] = "open" /\ announced' = announced
          \/ pc[q] = "correlate" /\ pc'[q] = "join" /\ announced' = announced
                /\ choice'[q].incident \in Runs
          \/ pc[q] = "publish" /\ pc'[q] = "done" /\ announced' = announced \cup {q}
          \/ pc'[q] = "failed" /\ announced' = announced
      BY <1>0, <2>2 DEF ReadReplay, ReadBurst, ReadRecent, Broadcast, Fails, TypeOK
    <3>. QED
      BY <1>1, <3>1, <3>2, <3>3
  <2>3. CASE CommitEvent(q)
    <3>1. /\ pc[q] = "event" /\ UNCHANGED <<alerts, cfg, incidentOf, announced>>
          /\ events' = events \cup {q}
          /\ pc'[q] = IF AlertWorthy(findings'[q], cfg'[q]) THEN "alert" ELSE "done"
      BY <1>0, <2>3 DEF CommitEvent, TypeOK
    <3>. QED
      BY <1>1, <3>1
  <2>4. CASE CommitAlert(q)
    <3>1. /\ pc[q] = "alert" /\ pc'[q] = "correlate" /\ alerts' = alerts \cup {q}
          /\ UNCHANGED <<events, findings, cfg, incidentOf, announced>>
      BY <1>0, <2>4 DEF CommitAlert, TypeOK
    <3>2. AlertWorthy(findings[q], cfg[q])'
      BY <1>1, <3>1
    <3>. QED
      BY <1>1, <3>1, <3>2
  <2>5. CASE JoinIncident(q) \/ OpenIncident(q)
    <3>1. /\ pc'[q] = "publish" /\ incidentOf'[q] # None /\ q \in alerts
          /\ UNCHANGED <<events, alerts, findings, cfg, announced>>
      BY <1>0, <1>1, <2>5 DEF JoinIncident, OpenIncident, TypeOK
    <3>2. AlertWorthy(findings[q], cfg[q])' <=> AlertWorthy(findings[q], cfg[q])
      BY <3>1
    <3>. QED
      BY <1>1, <3>1, <3>2
  <2>. QED
    BY <1>5, <2>1, <2>2, <2>3, <2>4, <2>5 DEF Step
<1>6. CASE Tick \/ UNCHANGED vars \/ \E k \in Codes : PatchRule(k)
  <2>1. UNCHANGED <<pc, findings, cfg, incidentOf, choice, events, alerts, announced>>
    BY <1>6 DEF Tick, PatchRule
  <2>. QED
    BY <1>3, <2>1
<1>. QED
  BY <1>4, <1>5, <1>6 DEF Next

LEMMA PastEndedStep ==
    ASSUME Inv, [Next]_vars
    PROVE  PastEnded'
<1> USE DEF vars, request, tables, Goto, Ended
<1>0. TypeOK /\ PastEnded
  BY DEF Inv
<1>1. ASSUME NEW q \in Runs, pc[q] \in Ended
      PROVE  pc'[q] = pc[q]
  BY <1>0, <1>1, ZenonT(40) DEF Next, Step, Begin, ReadReplay, ReadBurst, CommitEvent, CommitAlert,
       ReadRecent, JoinIncident, OpenIncident, Broadcast, Fails, PatchRule, Tick, TypeOK
<1>2. ASSUME NEW q \in Runs
      PROVE  past'[q] = past[q] \/ past'[q] = {p \in Runs : pc[p] \in Ended}
  BY <1>0, <1>2, ZenonT(40) DEF Next, Step, Begin, ReadReplay, ReadBurst, CommitEvent, CommitAlert,
       ReadRecent, JoinIncident, OpenIncident, Broadcast, Fails, PatchRule, Tick, TypeOK
<1>. QED
  BY <1>0, <1>1, <1>2 DEF PastEnded

LEMMA Invariant == Spec => []Inv
<1>1. Inv /\ [Next]_vars => Inv'
  BY TypeStep, GradedStep, StagesStep, PastEndedStep DEF Inv
<1>. QED
  BY InitInv, <1>1, PTL DEF Spec

\* A run, its rows and what it read keep their types, for any number of runs.
THEOREM TypeCorrect == Spec => []TypeOK
<1>1. Inv => TypeOK
  BY DEF Inv
<1>. QED
  BY Invariant, <1>1, PTL

\* Nothing is announced that is not committed with its incident, and no alert
\* of a run that came to its end goes without being announced.
THEOREM AnnouncedIsDurableAlways == Spec => []AnnouncedIsDurable
<1>1. Inv => AnnouncedIsDurable
  BY DEF Inv, TypeOK, Stages, AnnouncedIsDurable
<1>. QED
  BY Invariant, <1>1, PTL

-----------------------------------------------------------------------------
(* What is written stays, and counts and severities stay within bounds. *)

\* Rows are written once, but for the incident of an alert.
LEMMA Kept ==
    ASSUME Inv, [Next]_vars
    PROVE  /\ sub' = sub /\ events \subseteq events' /\ alerts \subseteq alerts'
           /\ \A q \in Runs :
                /\ q \in events => findings'[q] = findings[q] /\ at'[q] = at[q]
                /\ incidentOf[q] # None => incidentOf'[q] = incidentOf[q]
                /\ pc[q] # "idle" => past'[q] = past[q] /\ at'[q] = at[q]
                /\ pc[q] \in Ended => incidentOf'[q] = incidentOf[q]
                /\ pc[q] # "alert" /\ q \in alerts' => q \in alerts
                /\ pc[q] # "correlate" => choice'[q] = choice[q]
<1> USE DEF vars, request, tables, Goto, Ended
<1>0. TypeOK /\ Stages
  BY DEF Inv
<1>1. sub' = sub /\ events \subseteq events' /\ alerts \subseteq alerts'
  BY DEF Next, Step, Begin, ReadReplay, ReadBurst, CommitEvent, CommitAlert,
       ReadRecent, JoinIncident, OpenIncident, Broadcast, Fails, PatchRule, Tick
<1> DEFINE Keeps(q) ==
        /\ q \in events => findings'[q] = findings[q] /\ at'[q] = at[q]
        /\ incidentOf[q] # None => incidentOf'[q] = incidentOf[q]
        /\ pc[q] # "idle" => past'[q] = past[q] /\ at'[q] = at[q]
        /\ pc[q] \in Ended => incidentOf'[q] = incidentOf[q]
        /\ pc[q] # "alert" /\ q \in alerts' => q \in alerts
        /\ pc[q] # "correlate" => choice'[q] = choice[q]
<1>2. ASSUME NEW q \in Runs
      PROVE  Keeps(q)
  <2>1. /\ pc[q] \in {"idle", "event"} => q \notin events
        /\ incidentOf[q] # None => pc[q] \notin {"join", "open"}
    BY <1>0 DEF Stages
  <2>2. TypeOK
    BY <1>0
  <2>3. ASSUME NEW r \in Runs, Begin(r) \/ ReadReplay(r) \/ ReadBurst(r) \/ CommitEvent(r)
                               \/ CommitAlert(r) \/ Broadcast(r) \/ Fails(r)
        PROVE  Keeps(q)
    BY <2>1, <2>2, <2>3 DEF Begin, ReadReplay, ReadBurst, CommitEvent, CommitAlert,
         Broadcast, Fails, TypeOK
  <2>4. ASSUME NEW r \in Runs, ReadRecent(r) \/ JoinIncident(r) \/ OpenIncident(r)
        PROVE  Keeps(q)
    BY <2>1, <2>2, <2>4 DEF ReadRecent, JoinIncident, OpenIncident, TypeOK
  <2>5. CASE Tick \/ UNCHANGED vars \/ \E k \in Codes : PatchRule(k)
    BY <2>1, <2>5 DEF Tick, PatchRule
  <2>. QED
    BY <2>3, <2>4, <2>5 DEF Next, Step
<1>. QED
  BY <1>1, <1>2

\* What an incident has, it keeps.
LEMMA MembersGrow ==
    ASSUME Inv, [Next]_vars, NEW i \in Runs
    PROVE  /\ Members(i) \subseteq Members(i)'
           /\ IsFiniteSet(Members(i)) /\ IsFiniteSet(Members(i)')
           /\ Cardinality(Members(i)) \in Nat /\ Cardinality(Members(i)') \in Nat
           /\ Cardinality(Members(i)) <= Cardinality(Members(i)')
           /\ \A r \in Members(i) : AlertSeverity(findings[r])' = AlertSeverity(findings[r])
<1>1. alerts \subseteq Runs /\ alerts' \subseteq Runs /\ alerts \subseteq events
  <2>1. TypeOK /\ TypeOK'
    BY TypeStep DEF Inv
  <2>. QED
    BY <2>1 DEF TypeOK
<1>2. Members(i) \subseteq Members(i)' /\ Members(i)' \subseteq Runs
  BY <1>1, Kept, RunsAssumption DEF Members
<1>3. IsFiniteSet(Members(i)')
  BY <1>2, RunsAssumption, FS_Subset
<1>4. IsFiniteSet(Members(i)) /\ Cardinality(Members(i)) <= Cardinality(Members(i)')
  BY <1>2, <1>3, FS_Subset
<1>5. Cardinality(Members(i)) \in Nat /\ Cardinality(Members(i)') \in Nat
  BY <1>3, <1>4, FS_CardinalityType
<1>6. \A r \in Members(i) : AlertSeverity(findings[r])' = AlertSeverity(findings[r])
  <2>1. \A r \in Members(i) : findings'[r] = findings[r]
    BY <1>1, Kept DEF Members
  <2>. QED
    BY <2>1
<1>. QED
  BY <1>2, <1>3, <1>4, <1>5, <1>6

LEMMA AlertsAreGraded ==
    ASSUME Inv, NEW r \in alerts
    PROVE  AlertSeverity(findings[r]) \in Severities
BY WorstExists DEF Inv, TypeOK, Stages, Graded, AlertWorthy

LEMMA RankIsInt == \A s \in Severities : Rank[s] \in Int
BY DEF Severities, Rank

\* Only joining and opening touch an incident, and only the run's own.
LEMMA RowsWritten ==
    ASSUME Inv, [Next]_vars
    PROVE  \/ UNCHANGED <<incidents, incidentOf, alerts>>
           \/ UNCHANGED <<incidents, incidentOf>> /\ \E r \in Runs : alerts' = alerts \cup {r}
           \/ \E r \in Runs : JoinIncident(r) \/ OpenIncident(r)
BY DEF Next, Step, Begin, ReadReplay, ReadBurst, CommitEvent, CommitAlert, ReadRecent,
   Broadcast, Fails, PatchRule, Tick, vars, request, tables

\* A join adds one alert to an incident and at most one to what it had counted;
\* every other step leaves an incident's row and members as they are.
LEMMA IncidentStep ==
    ASSUME Inv, IncidentBounds, JoinBounds, [Next]_vars
    PROVE  IncidentBounds'
<1>0. /\ TypeOK /\ Stages /\ TypeOK' /\ None \notin Runs
      /\ \A i \in Runs : incidentOf[i] # None => incidentOf'[i] = incidentOf[i]
  BY TypeStep, RunsAssumption, Kept DEF Inv
<1>1. SUFFICES ASSUME NEW i \in Runs
               PROVE  IF incidentOf'[i] = i
                      THEN /\ incidents'[i].count \in 1 .. Cardinality(Members(i)')
                           /\ \E r \in Members(i)' :
                                incidents'[i].severity = AlertSeverity(findings[r])'
                           /\ Rank[incidents'[i].severity] >= Rank[AlertSeverity(findings[i])']
                      ELSE Members(i)' = {} /\ incidents'[i] = NoIncident
  BY DEF IncidentBounds
<1>2. /\ Members(i) \subseteq Members(i)'
      /\ Cardinality(Members(i)) \in Nat /\ Cardinality(Members(i)') \in Nat
      /\ Cardinality(Members(i)) <= Cardinality(Members(i)')
      /\ \A r \in Members(i) : AlertSeverity(findings[r])' = AlertSeverity(findings[r])
  BY MembersGrow
<1>3. incidentOf[i] = i => i \in Members(i)
  BY <1>0 DEF Stages, Members
<1>4. CASE /\ incidentOf[i] = i /\ incidents'[i] = incidents[i]
  <2>1. incidentOf'[i] = i
    BY <1>0, <1>4
  <2>2. /\ incidents[i].count \in 1 .. Cardinality(Members(i))
        /\ \E r \in Members(i) : incidents[i].severity = AlertSeverity(findings[r])
        /\ Rank[incidents[i].severity] >= Rank[AlertSeverity(findings[i])]
    BY <1>4 DEF IncidentBounds
  <2>3. incidents'[i].count \in 1 .. Cardinality(Members(i)')
    BY <1>2, <1>4, <2>2
  <2>. QED
    BY <1>2, <1>3, <1>4, <2>1, <2>2, <2>3
<1>5. CASE /\ incidentOf[i] # i /\ incidentOf'[i] # i /\ incidents'[i] = incidents[i]
           /\ Members(i)' = Members(i)
  BY <1>5 DEF IncidentBounds
<1>6. CASE UNCHANGED <<incidents, incidentOf, alerts>>
  BY <1>4, <1>5, <1>6 DEF Members
<1>7. ASSUME UNCHANGED <<incidents, incidentOf>>, NEW r \in Runs, alerts' = alerts \cup {r}
      PROVE  \/ /\ incidentOf[i] = i /\ incidents'[i] = incidents[i]
             \/ /\ incidentOf[i] # i /\ incidentOf'[i] # i /\ incidents'[i] = incidents[i]
                /\ Members(i)' = Members(i)
  BY <1>0, <1>7 DEF Members, Stages
<1>8. ASSUME NEW r \in Runs, JoinIncident(r)
      PROVE  \/ /\ incidentOf[i] = i /\ incidents'[i] = incidents[i]
             \/ /\ incidentOf[i] # i /\ incidentOf'[i] # i /\ incidents'[i] = incidents[i]
                /\ Members(i)' = Members(i)
             \/ i = choice[r].incident
  <2>1. /\ choice[r].incident \in Runs /\ incidentOf[r] = None /\ r \in alerts
        /\ incidentOf' = [incidentOf EXCEPT ![r] = choice[r].incident]
        /\ alerts' = alerts
    BY <1>0, <1>8 DEF JoinIncident, Stages, Ended
  <2>2. i # choice[r].incident => incidents'[i] = incidents[i]
    BY <1>0, <1>8 DEF JoinIncident, TypeOK
  <2>3. i # choice[r].incident => Members(i)' = Members(i) /\ (incidentOf'[i] = i <=> incidentOf[i] = i)
    BY <1>0, <2>1 DEF Members, TypeOK
  <2>. QED
    BY <2>2, <2>3
<1>9. ASSUME NEW r \in Runs, JoinIncident(r), i = choice[r].incident
      PROVE  /\ incidentOf'[i] = i
             /\ incidents'[i].count \in 1 .. Cardinality(Members(i)')
             /\ \E q \in Members(i)' : incidents'[i].severity = AlertSeverity(findings[q])'
             /\ Rank[incidents'[i].severity] >= Rank[AlertSeverity(findings[i])']
  <2>1. /\ incidentOf[i] = i
        /\ choice[r].row.count \in 1 .. Cardinality(Members(i))
        /\ Rank[choice[r].row.severity] >= Rank[AlertSeverity(findings[i])]
    BY <1>9 DEF JoinBounds, JoinIncident
  <2>2. /\ r \in alerts /\ incidentOf[r] = None /\ alerts' = alerts
        /\ incidentOf' = [incidentOf EXCEPT ![r] = i]
    BY <1>0, <1>9 DEF JoinIncident, Stages, Ended
  <2>3. incidentOf'[i] = i
    BY <1>0, <2>1
  <2>4. Members(i)' = Members(i) \cup {r} /\ r \notin Members(i)
    BY <1>0, <2>2 DEF Members, TypeOK
  <2>5. Cardinality(Members(i)') = Cardinality(Members(i)) + 1
    BY <2>4, FS_AddElement, MembersGrow
  <2>6. incidents'[i].count = choice[r].row.count + 1
    BY <1>0, <1>9 DEF JoinIncident, TypeOK, IncidentRow
  <2>7. incidents'[i].count \in 1 .. Cardinality(Members(i)')
    BY <1>2, <2>1, <2>5, <2>6
  <2>8. UNCHANGED findings
    BY <1>9 DEF JoinIncident
  <2>9. /\ AlertSeverity(findings[r])' = AlertSeverity(findings[r])
        /\ AlertSeverity(findings[i])' = AlertSeverity(findings[i])
    BY <2>8
  <2>10. /\ AlertSeverity(findings[r]) \in Severities
         /\ AlertSeverity(findings[i]) \in Severities
         /\ choice[r].row.severity \in Severities
    BY <1>0, <1>3, <2>1, <2>2, AlertsAreGraded DEF Members, TypeOK, IncidentRow
  <2>11. CASE Rank[AlertSeverity(findings[r])] > Rank[choice[r].row.severity]
    <3>1. incidents'[i].severity = AlertSeverity(findings[r])
      BY <1>0, <1>9, <2>11 DEF JoinIncident, TypeOK, IncidentRow
    <3>2. Rank[AlertSeverity(findings[r])] >= Rank[AlertSeverity(findings[i])]
      BY <2>1, <2>10, <2>11, RankIsInt
    <3>. QED
      BY <2>3, <2>4, <2>7, <2>9, <3>1, <3>2
  <2>12. CASE ~(Rank[AlertSeverity(findings[r])] > Rank[choice[r].row.severity])
    <3>1. incidents'[i].severity = incidents[i].severity
      BY <1>0, <1>9, <2>12 DEF JoinIncident, TypeOK, IncidentRow
    <3>2. /\ \E q \in Members(i) : incidents[i].severity = AlertSeverity(findings[q])
          /\ Rank[incidents[i].severity] >= Rank[AlertSeverity(findings[i])]
      BY <2>1 DEF IncidentBounds
    <3>. QED
      BY <1>2, <2>3, <2>7, <2>9, <3>1, <3>2
  <2>. QED
    BY <2>11, <2>12
<1>10. ASSUME NEW r \in Runs, OpenIncident(r)
       PROVE  \/ /\ incidentOf[i] = i /\ incidents'[i] = incidents[i]
              \/ /\ incidentOf[i] # i /\ incidentOf'[i] # i /\ incidents'[i] = incidents[i]
                 /\ Members(i)' = Members(i)
              \/ i = r
  BY <1>0, <1>10 DEF OpenIncident, Members, TypeOK
<1>11. CASE OpenIncident(i)
  <2>1. /\ incidentOf'[i] = i /\ i \in Members(i)'
        /\ incidents'[i] = [count |-> 1, severity |-> AlertSeverity(findings[i])]
        /\ UNCHANGED findings
    BY <1>0, <1>11 DEF OpenIncident, Members, TypeOK, Stages
  <2>2. Cardinality(Members(i)') >= 1
    <3>1. IsFiniteSet(Members(i)') /\ Members(i)' # {}
      BY <2>1, MembersGrow
    <3>. QED
      BY <1>2, <3>1, FS_EmptySet
  <2>3. AlertSeverity(findings[i])' = AlertSeverity(findings[i])
    BY <2>1
  <2>4. Rank[AlertSeverity(findings[i])] \in Int
    BY <1>0, <1>11, AlertsAreGraded, RankIsInt DEF OpenIncident, Stages
  <2>. QED
    BY <1>2, <2>1, <2>2, <2>3, <2>4
<1>. QED
  BY <1>4, <1>5, <1>6, <1>7, <1>8, <1>9, <1>10, <1>11, RowsWritten

\* Only reading the recent alerts decides.
LEMMA Decides ==
    ASSUME Inv, [Next]_vars, NEW r \in Runs,
           pc'[r] \in {"open", "join"}, pc'[r] # pc[r]
    PROVE  ReadRecent(r)
<1> USE DEF vars, request, tables, Goto
<1>0. TypeOK
  BY DEF Inv
<1>1. ASSUME NEW q \in Runs, Step(q)
      PROVE  ReadRecent(r)
  <2>1. q # r => pc'[r] = pc[r]
    BY <1>0, <1>1 DEF Step, Begin, ReadReplay, ReadBurst, CommitEvent, CommitAlert,
         ReadRecent, JoinIncident, OpenIncident, Broadcast, Fails, TypeOK
  <2>2. ~(Begin(r) \/ ReadReplay(r) \/ ReadBurst(r) \/ CommitAlert(r) \/ JoinIncident(r)
            \/ OpenIncident(r) \/ Broadcast(r) \/ Fails(r))
    BY <1>0 DEF Begin, ReadReplay, ReadBurst, CommitAlert, JoinIncident, OpenIncident,
         Broadcast, Fails, TypeOK
  <2>3. ~CommitEvent(r)
    BY <1>0 DEF CommitEvent, TypeOK
  <2>. QED
    BY <1>1, <2>1, <2>2, <2>3 DEF Step
<1>2. CASE Tick \/ UNCHANGED vars \/ \E k \in Codes : PatchRule(k)
  BY <1>2 DEF Tick, PatchRule
<1>. QED
  BY <1>1, <1>2 DEF Next

\* What was read of an incident stays within the bounds of its growing members.
LEMMA JoinBoundsStep ==
    ASSUME Inv, IncidentBounds, JoinBounds, [Next]_vars
    PROVE  JoinBounds'
<1>0. TypeOK /\ Stages /\ None \notin Runs
  BY RunsAssumption DEF Inv
<1> DEFINE Within(i, row) ==
        /\ i \in Runs /\ incidentOf[i] = i
        /\ row.count \in 1 .. Cardinality(Members(i))
        /\ Rank[row.severity] >= Rank[AlertSeverity(findings[i])]
       WithinNext(i, row) ==
        /\ i \in Runs /\ incidentOf'[i] = i
        /\ row.count \in 1 .. Cardinality({q \in alerts' : incidentOf'[q] = i})
        /\ Rank[row.severity] >= Rank[AlertSeverity(findings'[i])]
<1>1. ASSUME NEW i \in Runs, NEW row, Within(i, row)
      PROVE  WithinNext(i, row)
  <2>1. incidentOf'[i] = i /\ i \in Members(i)
    BY <1>0, <1>1, Kept DEF Stages, Members
  <2>2. row.count \in 1 .. Cardinality({q \in alerts' : incidentOf'[q] = i})
    <3>1. Members(i)' = {q \in alerts' : incidentOf'[q] = i}
      BY DEF Members
    <3>. QED
      BY <1>1, <3>1, MembersGrow
  <2>3. findings'[i] = findings[i]
    BY <1>0, <2>1, Kept DEF TypeOK, Members
  <2>. QED
    BY <1>1, <2>1, <2>2, <2>3
<1>2. SUFFICES ASSUME NEW r \in Runs, pc'[r] = "join"
               PROVE  WithinNext(choice'[r].incident, choice'[r].row)
  BY DEF JoinBounds, Members
<1>3. CASE pc[r] = "join"
  <2>1. choice'[r] = choice[r]
    BY <1>3, Kept
  <2>2. Within(choice[r].incident, choice[r].row)
    BY <1>3 DEF JoinBounds
  <2>. QED
    BY <1>1, <2>1, <2>2
<1>4. CASE pc[r] # "join"
  <2>1. ReadRecent(r)
    BY <1>2, <1>4, Decides
  <2>2. PICK best \in alerts :
          /\ incidentOf[best] # None
          /\ choice'[r].incident = incidentOf[best]
          /\ choice'[r].row = incidents[incidentOf[best]]
    BY <1>0, <1>2, <2>1 DEF ReadRecent, Goto, TypeOK
  <2>3. incidentOf[best] \in Runs /\ best \in Members(incidentOf[best])
    BY <1>0, <2>2 DEF TypeOK, Members
  <2>4. Within(incidentOf[best], incidents[incidentOf[best]])
    BY <2>3 DEF IncidentBounds
  <2>. QED
    BY <1>1, <2>2, <2>3, <2>4
<1>. QED
  BY <1>3, <1>4

LEMMA BoundsInvariant == Spec => [](Inv /\ IncidentBounds /\ JoinBounds)
<1>1. Init => IncidentBounds /\ JoinBounds
  BY RunsAssumption DEF Init, IncidentBounds, JoinBounds, Members
<1>2. Inv /\ IncidentBounds /\ JoinBounds /\ [Next]_vars => IncidentBounds' /\ JoinBounds'
  BY IncidentStep, JoinBoundsStep
<1>. QED
  BY Invariant, <1>1, <1>2, PTL DEF Spec

\* However joins interleave, an incident never counts more alerts than it has,
\* and its severity is one of theirs and no lower than that of the first.
THEOREM IncidentBoundsAlways == Spec => []IncidentBounds
BY BoundsInvariant, PTL

-----------------------------------------------------------------------------
(* Alike alerts are linked. *)

\* Similarity depends on nothing that a committed run may still change.
LEMMA SimilarityKept ==
    ASSUME Inv, [Next]_vars, NEW q \in alerts, NEW r \in alerts
    PROVE  Similar(r, q)' <=> Similar(r, q)
<1>1. q \in Runs /\ r \in Runs /\ q \in events /\ r \in events
  BY DEF Inv, TypeOK
<1>2. /\ sub' = sub
      /\ findings'[q] = findings[q] /\ at'[q] = at[q]
      /\ findings'[r] = findings[r] /\ at'[r] = at[r]
  BY <1>1, Kept
<1>. QED
  BY <1>2 DEF Similar, Similarity, Shares, RuleCodes

LEMMA DecisionStep ==
    ASSUME Inv, DecisionHolds, [Next]_vars
    PROVE  DecisionHolds'
<1>0. TypeOK /\ Stages /\ PastEnded /\ None \notin Runs
  BY RunsAssumption DEF Inv
<1>1. ASSUME NEW r \in Runs, pc[r] \in {"open", "join"}
      PROVE  r \in alerts /\ r \notin past[r]
  BY <1>0, <1>1 DEF Stages, PastEnded, Ended
<1>2. ASSUME NEW r \in Runs, pc'[r] = "open", NEW q \in alerts' \cap past'[r],
             incidentOf'[q] # None, at'[q] >= choice'[r].since
      PROVE  ~Similar(r, q)'
  <2>1. pc[r] \in {"open", "correlate"}
    BY <1>2, Decides DEF ReadRecent
  <2>2. /\ past'[r] = past[r] /\ r \in alerts /\ q \in Runs /\ pc[q] \in Ended /\ q # r
    BY <1>0, <1>2, <2>1, Kept DEF Stages, PastEnded, TypeOK, Ended
  <2>3. q \in alerts /\ incidentOf'[q] = incidentOf[q] /\ at'[q] = at[q]
    BY <1>2, <2>2, Kept DEF Ended
  <2>4. CASE pc[r] = "open"
    <3>1. choice'[r] = choice[r]
      BY <2>4, Kept
    <3>2. ~Similar(r, q)
      BY <1>2, <2>2, <2>3, <2>4, <3>1 DEF DecisionHolds
    <3>. QED
      BY <2>2, <2>3, <3>2, SimilarityKept
  <2>5. CASE pc[r] = "correlate"
    <3>1. ReadRecent(r)
      BY <1>2, <2>5, Decides
    <3>2. /\ choice'[r].since = now - 1
          /\ \A p \in alerts \ {r} : at[p] >= now - 1 /\ incidentOf[p] # None => ~Similar(r, p)
      BY <1>0, <1>2, <3>1 DEF ReadRecent, Goto, TypeOK
    <3>3. ~Similar(r, q)
      BY <1>2, <2>2, <2>3, <3>2
    <3>. QED
      BY <2>2, <2>3, <3>3, SimilarityKept
  <2>. QED
    BY <2>1, <2>4, <2>5
<1>3. ASSUME NEW r \in Runs, pc'[r] = "join"
      PROVE  \E q \in alerts' \ {r} :
                incidentOf'[q] = choice'[r].incident /\ Similar(r, q)'
  <2>1. \E q \in Members(choice'[r].incident) \ {r} : Similar(r, q)
    <3>1. CASE pc[r] = "join"
      BY <1>3, <3>1, Kept DEF DecisionHolds
    <3>2. CASE pc[r] # "join"
      <4>1. ReadRecent(r)
        BY <1>3, <3>2, Decides
      <4>2. PICK best \in alerts \ {r} :
              /\ incidentOf[best] # None /\ Similar(r, best)
              /\ choice'[r].incident = incidentOf[best]
        BY <1>0, <1>3, <4>1 DEF ReadRecent, Goto, TypeOK
      <4>. QED
        BY <4>2 DEF Members
    <3>. QED
      BY <3>1, <3>2
  <2>2. r \in alerts
    BY <1>0, <1>3, Decides DEF ReadRecent, Stages
  <2>3. choice'[r].incident \in Runs
    BY <1>3, StagesStep DEF Stages
  <2>4. PICK q \in Members(choice'[r].incident) \ {r} : Similar(r, q)
    BY <2>1
  <2>5. q \in alerts /\ q \in alerts' /\ incidentOf'[q] = choice'[r].incident
    BY <2>3, <2>4, MembersGrow DEF Members
  <2>. QED
    BY <2>2, <2>4, <2>5, SimilarityKept
<1>. QED
  BY <1>2, <1>3 DEF DecisionHolds, Members

LEMMA AlikeStep ==
    ASSUME Inv, JoinBounds, DecisionHolds, AlikeAreLinked, [Next]_vars
    PROVE  AlikeAreLinked'
<1>0. TypeOK /\ Stages /\ PastEnded /\ TypeOK' /\ None \notin Runs
  BY TypeStep, RunsAssumption DEF Inv
<1>1. ASSUME NEW r \in alerts', incidentOf'[r] # incidentOf[r]
      PROVE  JoinIncident(r) \/ OpenIncident(r)
  <2>1. r \in Runs
    BY <1>0 DEF TypeOK
  <2>2. PICK q \in Runs : JoinIncident(q) \/ OpenIncident(q)
    BY <1>1, RowsWritten
  <2>3. q # r => incidentOf'[r] = incidentOf[r]
    BY <1>0, <2>1, <2>2 DEF JoinIncident, OpenIncident, TypeOK
  <2>. QED
    BY <1>1, <2>2, <2>3
<1>2. ASSUME NEW r \in alerts', incidentOf'[r] = r, NEW q \in alerts' \cap past'[r],
             incidentOf'[q] # None, at'[q] >= choice'[r].since
      PROVE  ~Similar(r, q)'
  <2>1. r \in Runs /\ pc[r] \notin {"idle", "correlate", "alert"} /\ r \in alerts
    <3>1. CASE incidentOf'[r] = incidentOf[r]
      BY <1>0, <1>2, <3>1 DEF TypeOK, Stages, Ended
    <3>2. CASE incidentOf'[r] # incidentOf[r]
      BY <1>0, <1>1, <1>2, <3>2 DEF TypeOK, Stages, JoinIncident, OpenIncident
    <3>. QED
      BY <3>1, <3>2
  <2>2. past'[r] = past[r] /\ choice'[r] = choice[r]
    BY <2>1, Kept
  <2>3. q \in Runs /\ pc[q] \in Ended
    BY <1>0, <1>2, <2>1, <2>2 DEF TypeOK, PastEnded
  <2>4. q \in alerts /\ incidentOf'[q] = incidentOf[q] /\ at'[q] = at[q]
    BY <1>2, <2>3, Kept DEF Ended
  <2>5. ~Similar(r, q)
    <3>1. CASE incidentOf[r] = r
      BY <1>2, <2>1, <2>2, <2>4, <3>1 DEF AlikeAreLinked
    <3>2. CASE incidentOf[r] # r
      <4>1. pc[r] = "open"
        <5>1. JoinIncident(r) \/ OpenIncident(r)
          BY <1>1, <1>2, <3>2
        <5>2. ~JoinIncident(r)
          BY <1>0, <1>2, <2>1 DEF JoinIncident, JoinBounds, Stages, TypeOK, Ended
        <5>. QED
          BY <5>1, <5>2 DEF OpenIncident
      <4>. QED
        BY <1>2, <2>1, <2>2, <2>4, <4>1 DEF DecisionHolds
    <3>. QED
      BY <3>1, <3>2
  <2>. QED
    BY <2>1, <2>4, <2>5, SimilarityKept
<1>3. ASSUME NEW r \in alerts', incidentOf'[r] \notin {r, None}
      PROVE  \E q \in alerts' \ {r} : incidentOf'[q] = incidentOf'[r] /\ Similar(r, q)'
  <2>1. /\ r \in Runs /\ r \in alerts
        /\ \E q \in alerts \ {r} : incidentOf[q] = incidentOf'[r] /\ Similar(r, q)
    <3>1. CASE incidentOf'[r] = incidentOf[r]
      <4>1. r \in Runs /\ r \in alerts
        BY <1>0, <1>3, <3>1 DEF TypeOK, Stages
      <4>. QED
        BY <1>3, <3>1, <4>1 DEF AlikeAreLinked, Members
    <3>2. CASE incidentOf'[r] # incidentOf[r]
      <4>1. JoinIncident(r) /\ r \in Runs
        BY <1>0, <1>1, <1>3, <3>2 DEF OpenIncident, TypeOK
      <4>2. pc[r] = "join" /\ r \in alerts /\ incidentOf'[r] = choice[r].incident
        BY <1>0, <4>1 DEF JoinIncident, Stages, TypeOK
      <4>. QED
        BY <4>1, <4>2 DEF DecisionHolds, Members
    <3>. QED
      BY <3>1, <3>2
  <2>2. PICK q \in alerts \ {r} : incidentOf[q] = incidentOf'[r] /\ Similar(r, q)
    BY <2>1
  <2>3. q \in alerts' /\ incidentOf'[q] = incidentOf[q]
    BY <1>0, <1>3, <2>2, Kept DEF TypeOK
  <2>. QED
    BY <2>1, <2>2, <2>3, SimilarityKept
<1>. QED
  BY <1>2, <1>3 DEF AlikeAreLinked, Members

\* An alert that could have been linked when its run began is linked, and one
\* that joined an incident has its like there.
THEOREM AlikeAreLinkedAlways == Spec => []AlikeAreLinked
<1>1. Init => DecisionHolds /\ AlikeAreLinked
  BY DEF Init, DecisionHolds, AlikeAreLinked
<1>2. Inv /\ JoinBounds /\ DecisionHolds /\ AlikeAreLinked /\ [Next]_vars
        => DecisionHolds' /\ AlikeAreLinked'
  BY DecisionStep, AlikeStep
<1>. QED
  BY BoundsInvariant, <1>1, <1>2, PTL DEF Spec

-----------------------------------------------------------------------------
(* Incidents whose runs came one after the other. *)

Serial(i) == \A q, r \in Members(i) : q # r => ~Overlap(q, r)

Exact(i) ==
    /\ incidents[i].count = Cardinality(Members(i))
    /\ \A r \in Members(i) :
          Rank[incidents[i].severity] >= Rank[AlertSeverity(findings[r])]

\* What a run is about to join is as it read it, if all who joined before had
\* ended when it began.
JoinCurrent ==
    \A r \in Runs :
        pc[r] = "join" /\ Members(choice[r].incident) \subseteq past[r]
            => choice[r].row = incidents[choice[r].incident]

\* No step takes an alert out of an incident, or makes its runs serial.
LEMMA SerialBefore ==
    ASSUME Inv, [Next]_vars, NEW i \in Runs, Serial(i)'
    PROVE  Serial(i)
<1>1. Members(i) \subseteq Members(i)'
  BY MembersGrow
<1>2. \A q \in Members(i) : q \in Runs /\ pc[q] # "idle"
  BY RunsAssumption DEF Inv, TypeOK, Stages, Members, Ended
<1>3. \A q \in Members(i) : past'[q] = past[q]
  BY <1>2, Kept
<1>. QED
  BY <1>1, <1>3 DEF Serial, Overlap

\* A run that joins, and its incident, before and after.
LEMMA Joins ==
    ASSUME Inv, JoinBounds, NEW r \in Runs, JoinIncident(r), NEW i, i = choice[r].incident
    PROVE  /\ i \in Runs /\ incidentOf[i] = i /\ pc[r] = "join" /\ r \notin past[r]
           /\ r \in alerts /\ incidentOf[r] = None /\ UNCHANGED <<alerts, findings, choice, past>>
           /\ incidentOf' = [incidentOf EXCEPT ![r] = i]
           /\ \A j \in Runs \ {i} : incidents'[j] = incidents[j] /\ Members(j)' = Members(j)
           /\ Members(i)' = Members(i) \cup {r} /\ r \notin Members(i)
           /\ \A q \in Runs \ {r} : pc'[q] = pc[q]
           /\ pc'[r] = "publish"
<1>0. TypeOK /\ Stages /\ PastEnded /\ None \notin Runs
  BY RunsAssumption DEF Inv
<1>1. /\ i \in Runs /\ incidentOf[i] = i /\ pc[r] = "join" /\ r \notin past[r]
      /\ r \in alerts /\ incidentOf[r] = None /\ UNCHANGED <<alerts, findings, choice, past>>
      /\ incidentOf' = [incidentOf EXCEPT ![r] = i]
      /\ \A j \in Runs \ {i} : incidents'[j] = incidents[j]
      /\ \A q \in Runs \ {r} : pc'[q] = pc[q]
      /\ pc'[r] = "publish"
  BY <1>0 DEF JoinIncident, JoinBounds, TypeOK, Stages, PastEnded, Ended, Goto, request
<1>. QED
  BY <1>0, <1>1 DEF Members, TypeOK

LEMMA Opens ==
    ASSUME Inv, IncidentBounds, NEW r \in Runs, OpenIncident(r)
    PROVE  /\ pc[r] = "open" /\ r \in alerts /\ incidentOf[r] = None
           /\ UNCHANGED <<alerts, findings, choice, past>>
           /\ incidents'[r] = [count |-> 1, severity |-> AlertSeverity(findings[r])]
           /\ \A j \in Runs \ {r} : incidents'[j] = incidents[j] /\ Members(j)' = Members(j)
           /\ Members(r)' = {r}
           /\ \A q \in Runs \ {r} : pc'[q] = pc[q]
           /\ pc'[r] = "publish"
<1>0. TypeOK /\ Stages /\ None \notin Runs
  BY RunsAssumption DEF Inv
<1>1. /\ pc[r] = "open" /\ r \in alerts /\ incidentOf[r] = None
      /\ UNCHANGED <<alerts, findings, choice, past>>
      /\ incidentOf' = [incidentOf EXCEPT ![r] = r]
      /\ incidents'[r] = [count |-> 1, severity |-> AlertSeverity(findings[r])]
      /\ \A j \in Runs \ {r} : incidents'[j] = incidents[j]
      /\ \A q \in Runs \ {r} : pc'[q] = pc[q]
      /\ pc'[r] = "publish"
  BY <1>0 DEF OpenIncident, TypeOK, Stages, Ended, Goto, request
<1>2. Members(r) = {}
  BY <1>0, <1>1 DEF IncidentBounds
<1>. QED
  BY <1>0, <1>1, <1>2 DEF Members, TypeOK

\* Any other step leaves the incidents alone.
LEMMA RowsAlone ==
    ASSUME Inv, [Next]_vars, ~(\E r \in Runs : JoinIncident(r) \/ OpenIncident(r))
    PROVE  UNCHANGED incidents /\ \A i \in Runs : Members(i)' = Members(i)
<1>0. TypeOK /\ Stages /\ None \notin Runs /\ TypeOK'
  BY RunsAssumption, TypeStep DEF Inv
<1>1. UNCHANGED <<incidents, incidentOf>>
  BY RowsWritten
<1>2. \A q \in Runs : incidentOf[q] # None => q \in alerts
  BY <1>0 DEF Stages
<1>3. alerts \subseteq alerts' /\ alerts' \subseteq Runs
  BY <1>0, Kept DEF TypeOK
<1>. QED
  BY <1>0, <1>1, <1>2, <1>3 DEF Members

LEMMA JoinCurrentStep ==
    ASSUME Inv, IncidentBounds, JoinBounds, JoinCurrent, [Next]_vars
    PROVE  JoinCurrent'
<1>0. TypeOK /\ PastEnded /\ Stages
  BY DEF Inv
<1>3. SUFFICES ASSUME NEW r \in Runs, pc'[r] = "join",
                    {q \in alerts' : incidentOf'[q] = choice'[r].incident} \subseteq past'[r]
             PROVE  choice'[r].row = incidents'[choice'[r].incident]
  BY DEF JoinCurrent, Members
<1>1. CASE pc[r] # "join"
  <2>1. ReadRecent(r)
    BY <1>1, <1>3, Decides
  <2>. QED
    <3>1. choice'[r].row = incidents[choice'[r].incident] /\ incidents' = incidents
      <4>1. \E best \in Runs :
              choice' = [choice EXCEPT ![r] =
                            [since |-> now - 1, incident |-> incidentOf[best],
                             row |-> incidents[incidentOf[best]]]]
        BY <1>0, <1>3, <2>1 DEF ReadRecent, Goto, TypeOK
      <4>. QED
        BY <1>0, <2>1, <4>1 DEF ReadRecent, TypeOK, tables
    <3>. QED
      BY <3>1
<1>2. CASE pc[r] = "join"
  <2>0. PICK i : i = choice[r].incident
    OBVIOUS
  <2>1. choice'[r] = choice[r] /\ past'[r] = past[r] /\ i \in Runs /\ incidentOf[i] = i
    BY <1>2, <2>0, Kept DEF JoinBounds
  <2>2. Members(i) \subseteq Members(i)'
    BY <2>1, MembersGrow
  <2>3. choice[r].row = incidents[i]
    <3>1. Members(i)' \subseteq past[r]
      BY <1>3, <2>0, <2>1 DEF Members
    <3>. QED
      BY <1>2, <1>3, <2>0, <2>2, <3>1 DEF JoinCurrent
  <2>4. ASSUME NEW s \in Runs, JoinIncident(s), choice[s].incident = i PROVE FALSE
    <3>1. s \in Members(i)' /\ pc[s] = "join"
      <4>1. Members(i)' = Members(i) \cup {s} /\ pc[s] = "join"
        BY <2>4, Joins
      <4>. QED
        BY <4>1
    <3>2. s \notin past[r]
      BY <1>0, <3>1 DEF PastEnded, Ended
    <3>3. Members(i)' \subseteq past[r]
      BY <1>3, <2>0, <2>1 DEF Members
    <3>. QED
      BY <3>1, <3>2, <3>3
  <2>5. ASSUME NEW s \in Runs, JoinIncident(s), choice[s].incident # i PROVE incidents'[i] = incidents[i]
    BY <2>1, <2>5, Joins
  <2>6. ASSUME NEW s \in Runs, OpenIncident(s) PROVE incidents'[i] = incidents[i]
    BY <1>0, <2>1, <2>6, Opens, RunsAssumption
  <2>7. incidents'[i] = incidents[i]
    BY <2>1, <2>4, <2>5, <2>6, RowsAlone
  <2>. QED
    BY <2>0, <2>1, <2>3, <2>7
<1>. QED
  BY <1>1, <1>2

LEMMA ExactStep ==
    ASSUME Inv, IncidentBounds, JoinBounds, JoinCurrent, [Next]_vars,
           NEW i \in Runs, incidentOf[i] = i /\ Serial(i) => Exact(i),
           incidentOf'[i] = i, Serial(i)'
    PROVE  Exact(i)'
<1>0. TypeOK /\ PastEnded /\ Stages /\ None \notin Runs
  BY RunsAssumption DEF Inv
<1>1. Serial(i)
  BY SerialBefore
<1>2. /\ IsFiniteSet(Members(i)) /\ Cardinality(Members(i)) \in Nat
      /\ \A r \in Members(i) : AlertSeverity(findings[r])' = AlertSeverity(findings[r])
  BY MembersGrow
<1>3. ASSUME incidentOf[i] = i, incidents'[i] = incidents[i], Members(i)' = Members(i)
      PROVE  Exact(i)'
  BY <1>1, <1>2, <1>3 DEF Exact
<1>4. ASSUME NEW r \in Runs, OpenIncident(r)
      PROVE  Exact(i)'
  <2>1. CASE i = r
    <3>1. /\ Members(i)' = {i} /\ incidents'[i] = [count |-> 1, severity |-> AlertSeverity(findings[i])]
          /\ i \in alerts /\ AlertSeverity(findings[i])' = AlertSeverity(findings[i])
      BY <1>4, <2>1, Opens
    <3>2. Rank[AlertSeverity(findings[i])] \in Int
      BY <3>1, AlertsAreGraded, RankIsInt
    <3>. QED
      BY <3>1, <3>2, FS_Singleton DEF Exact
  <2>2. CASE i # r
    <3>1. incidentOf[i] = i
      BY <1>0, <1>4, <2>2 DEF OpenIncident, TypeOK
    <3>. QED
      BY <1>3, <1>4, <2>2, <3>1, Opens
  <2>. QED
    BY <2>1, <2>2
<1>5. ASSUME NEW r \in Runs, JoinIncident(r), choice[r].incident # i
      PROVE  Exact(i)'
  <2>1. incidentOf[i] = i
    BY <1>0, <1>5, Joins DEF TypeOK
  <2>. QED
    BY <1>3, <1>5, <2>1, Joins
<1>6. ASSUME NEW r \in Runs, JoinIncident(r), choice[r].incident = i
      PROVE  Exact(i)'
  <2>1. /\ incidentOf[i] = i /\ r \in alerts /\ Members(i)' = Members(i) \cup {r}
        /\ r \notin Members(i) /\ pc[r] = "join" /\ past' = past
        /\ findings' = findings
    BY <1>6, Joins
  <2>2. Members(i) \subseteq past[r]
    <3>1. SUFFICES ASSUME NEW q \in Members(i) PROVE q \in past[r]
      OBVIOUS
    <3>2. ~Overlap(q, r)' /\ q \in Runs
      BY <1>0, <2>1 DEF Serial, Members, TypeOK
    <3>3. r \notin past[q]
      BY <1>0, <2>1, <3>2 DEF PastEnded, Ended
    <3>. QED
      BY <2>1, <3>2, <3>3 DEF Overlap
  <2>3. choice[r].row = incidents[i] /\ Exact(i)
    BY <1>1, <1>6, <2>1, <2>2 DEF JoinCurrent
  <2>4. Cardinality(Members(i)') = Cardinality(Members(i)) + 1
    BY <1>2, <2>1, FS_AddElement
  <2> DEFINE mine == AlertSeverity(findings[r])
             worse == Rank[mine] > Rank[incidents[i].severity]
  <2>5. /\ incidents'[i].count = incidents[i].count + 1
        /\ incidents'[i].severity = IF worse THEN mine ELSE incidents[i].severity
    BY <1>0, <1>6, <2>3 DEF JoinIncident, TypeOK, IncidentRow
  <2>6. /\ mine \in Severities /\ incidents[i].severity \in Severities
        /\ Rank[mine] \in Int /\ Rank[incidents[i].severity] \in Int
        /\ \A q \in Members(i) : Rank[AlertSeverity(findings[q])] \in Int
    BY <1>0, <2>1, AlertsAreGraded, RankIsInt DEF TypeOK, IncidentRow, Members
  <2>7. \A q \in Members(i)' : Rank[incidents'[i].severity] >= Rank[AlertSeverity(findings[q])]
    BY <2>1, <2>3, <2>5, <2>6 DEF Exact
  <2>8. \A q : AlertSeverity(findings'[q]) = AlertSeverity(findings[q])
    BY <2>1
  <2>. QED
    BY <2>3, <2>4, <2>5, <2>7, <2>8 DEF Exact
<1>7. CASE ~(\E r \in Runs : JoinIncident(r) \/ OpenIncident(r))
  <2>1. incidentOf' = incidentOf
    BY <1>7, RowsWritten
  <2>. QED
    BY <1>3, <1>7, <2>1, RowsAlone
<1>. QED
  BY <1>4, <1>5, <1>6, <1>7

\* When nothing of an incident's runs overlapped, no join lost an alert that
\* another counted or a severity that another raised.
THEOREM SerialIncidentsExactAlways == Spec => []SerialIncidentsExact
<1>1. Init => JoinCurrent /\ SerialIncidentsExact
  BY RunsAssumption DEF Init, JoinCurrent, SerialIncidentsExact
<1>2. Inv /\ IncidentBounds /\ JoinBounds /\ JoinCurrent /\ SerialIncidentsExact /\ [Next]_vars
        => JoinCurrent' /\ SerialIncidentsExact'
  <2> SUFFICES ASSUME Inv, IncidentBounds, JoinBounds, JoinCurrent, SerialIncidentsExact, [Next]_vars
               PROVE  SerialIncidentsExact'
    BY JoinCurrentStep
  <2>1. \A i \in Runs : incidentOf[i] = i /\ Serial(i) => Exact(i)
    BY DEF SerialIncidentsExact, Serial, Exact
  <2>2. \A i \in Runs : incidentOf'[i] = i /\ Serial(i)' => Exact(i)'
    BY <2>1, ExactStep
  <2>. QED
    BY <2>2 DEF SerialIncidentsExact, Serial, Exact
<1>. QED
  BY BoundsInvariant, <1>1, <1>2, PTL DEF Spec

-----------------------------------------------------------------------------
(* What was committed before a run began is seen by it. *)

SameSignature(r) == {q \in events \cap past[r] : Shares(q, r, "signature")}

Failures(r) ==
    {q \in events \cap past[r] : /\ Shares(q, r, "source")
                                 /\ sub[q].verdict = "invalid"
                                 /\ at[q] >= at[r]}

Bursts(r) ==
    /\ Cardinality(Failures(r)) + 1 >= Threshold
    /\ sub[r].verdict = "invalid" /\ sub[r].source # None

Found(r, code) == \E f \in history[r] : f.code = code

\* A run that has looked for a replay, or a burst, holds what it had to find.
LookedUp ==
    \A r \in Runs :
        /\ pc[r] \in {"burst", "event"} /\ SameSignature(r) # {} => Found(r, "T14")
        /\ pc[r] = "event" /\ Bursts(r) => Found(r, "T15")

\* Once a run has begun, what it can be late for is settled.
LEMMA EarlierSettled ==
    ASSUME Inv, [Next]_vars, NEW r \in Runs, pc[r] # "idle"
    PROVE  /\ SameSignature(r)' = SameSignature(r)
           /\ Bursts(r)' <=> Bursts(r)
<1>0. TypeOK /\ PastEnded
  BY DEF Inv
<1>1. /\ past'[r] = past[r] /\ at'[r] = at[r] /\ sub' = sub /\ events \subseteq events'
      /\ \A q \in events : at'[q] = at[q]
  BY <1>0, Kept DEF TypeOK
<1>2. \A q \in Runs : q \in events' /\ q \notin events => pc[q] = "event"
  BY <1>0 DEF Next, Step, Begin, ReadReplay, ReadBurst, CommitEvent, CommitAlert, ReadRecent,
       JoinIncident, OpenIncident, Broadcast, Fails, PatchRule, Tick, vars, tables
<1>3. events' \cap past'[r] = events \cap past[r]
  BY <1>0, <1>1, <1>2 DEF PastEnded, Ended
<1>4. SameSignature(r)' = SameSignature(r)
  BY <1>1, <1>3 DEF SameSignature, Shares
<1>5. Failures(r)' = Failures(r)
  BY <1>1, <1>3 DEF Failures, Shares
<1>. QED
  BY <1>1, <1>4, <1>5 DEF Bursts

\* A run that stays where it is keeps what it found and what it read.
LEMMA HistoryKept ==
    ASSUME Inv, [Next]_vars, NEW r \in Runs, pc'[r] = pc[r]
    PROVE  history'[r] = history[r] /\ cfg'[r] = cfg[r]
<1> USE DEF vars, request, tables, Goto, Ended
<1>0. TypeOK
  BY DEF Inv
<1>1. ASSUME NEW q \in Runs, Step(q), q # r
      PROVE  history'[r] = history[r] /\ cfg'[r] = cfg[r]
  BY <1>0, <1>1 DEF Step, Begin, ReadReplay, ReadBurst, CommitEvent, CommitAlert, ReadRecent,
       JoinIncident, OpenIncident, Broadcast, Fails, TypeOK
<1>2. ~Step(r)
  <2>1. ~(Begin(r) \/ ReadReplay(r) \/ ReadBurst(r) \/ CommitAlert(r) \/ JoinIncident(r)
            \/ OpenIncident(r) \/ Broadcast(r) \/ Fails(r) \/ ReadRecent(r))
    BY <1>0 DEF Begin, ReadReplay, ReadBurst, CommitAlert, JoinIncident, OpenIncident,
         Broadcast, Fails, ReadRecent, TypeOK
  <2>2. ~CommitEvent(r)
    BY <1>0 DEF CommitEvent, TypeOK
  <2>. QED
    BY <2>1, <2>2 DEF Step
<1>3. CASE Tick \/ UNCHANGED vars \/ \E k \in Codes : PatchRule(k)
  BY <1>3 DEF Tick, PatchRule
<1>. QED
  BY <1>1, <1>2, <1>3 DEF Next

\* Which step takes a run to where it looks next.
LEMMA LooksUp ==
    ASSUME Inv, [Next]_vars, NEW r \in Runs, pc'[r] # pc[r]
    PROVE  /\ pc'[r] = "burst" => ReadReplay(r)
           /\ pc'[r] = "event" => ReadBurst(r)
<1> USE DEF vars, request, tables, Goto, Ended
<1>0. TypeOK
  BY DEF Inv
<1>1. ASSUME NEW q \in Runs, Step(q), q # r
      PROVE  FALSE
  BY <1>0, <1>1 DEF Step, Begin, ReadReplay, ReadBurst, CommitEvent, CommitAlert, ReadRecent,
       JoinIncident, OpenIncident, Broadcast, Fails, TypeOK
<1>2. ASSUME Step(r), pc'[r] \in {"burst", "event"}
      PROVE  /\ pc'[r] = "burst" => ReadReplay(r)
             /\ pc'[r] = "event" => ReadBurst(r)
  <2>1. pc'[r] = "burst" => ~ReadBurst(r)
    BY <1>0 DEF ReadBurst, TypeOK
  <2>2. pc'[r] = "event" => ~ReadReplay(r)
    BY <1>0 DEF ReadReplay, TypeOK
  <2>3. ~(Begin(r) \/ CommitAlert(r) \/ ReadRecent(r) \/ JoinIncident(r) \/ OpenIncident(r)
            \/ Broadcast(r) \/ Fails(r))
    BY <1>0, <1>2 DEF Begin, CommitAlert, ReadRecent, JoinIncident, OpenIncident, Broadcast,
         Fails, TypeOK
  <2>4. ~CommitEvent(r)
    BY <1>0, <1>2 DEF CommitEvent, TypeOK
  <2>. QED
    BY <1>2, <2>1, <2>2, <2>3, <2>4 DEF Step
<1>3. CASE Tick \/ UNCHANGED vars \/ \E k \in Codes : PatchRule(k)
  BY <1>3 DEF Tick, PatchRule
<1>. QED
  BY <1>1, <1>2, <1>3 DEF Next

LEMMA LookedUpStep ==
    ASSUME Inv, LookedUp, [Next]_vars
    PROVE  LookedUp'
<1>0. TypeOK
  BY DEF Inv
<1>1. ASSUME NEW r \in Runs, ReadReplay(r), SameSignature(r) # {}
      PROVE  \E f \in history'[r] : f.code = "T14"
  <2> DEFINE same == {q \in events : Shares(q, r, "signature")}
  <2>1. SameSignature(r) \subseteq same
    BY DEF SameSignature
  <2>2. PICK s : history' = [history EXCEPT ![r] = {Finding("T14", s)}]
    BY <1>1, <2>1 DEF ReadReplay
  <2>3. history'[r] = {Finding("T14", s)}
    BY <1>0, <2>2 DEF TypeOK
  <2>. QED
    BY <2>3 DEF Finding
<1>2. ASSUME NEW r \in Runs, ReadBurst(r)
      PROVE  /\ \A f \in history[r] : f \in history'[r]
             /\ Bursts(r) => \E f \in history'[r] : f.code = "T15"
  <2> DEFINE all == {q \in events : /\ Shares(q, r, "source")
                                    /\ sub[q].verdict = "invalid"
                                    /\ at[q] >= at[r]}
             burst == /\ sub[r].verdict = "invalid" /\ sub[r].source # None
                      /\ Cardinality(all) + 1 >= Threshold
  <2>1. Bursts(r) => burst
    <3>1. Failures(r) \subseteq all /\ all \subseteq Runs
      BY <1>0 DEF Failures, TypeOK
    <3>2. Cardinality(Failures(r)) <= Cardinality(all)
          /\ Cardinality(Failures(r)) \in Nat /\ Cardinality(all) \in Nat
      BY <3>1, RunsAssumption, FS_Subset, FS_CardinalityType
    <3>. HIDE DEF all
    <3>. QED
      BY <3>2, ThresholdAssumption DEF Bursts
  <2>2. history'[r] = history[r] \cup IF burst THEN {Finding("T15", "medium")} ELSE {}
    BY <1>0, <1>2 DEF ReadBurst, TypeOK
  <2>. HIDE DEF burst
  <2>3. Finding("T15", "medium").code = "T15"
    BY DEF Finding
  <2>4. Bursts(r) => Finding("T15", "medium") \in history'[r]
    BY <2>1, <2>2
  <2>5. \A f \in history[r] : f \in history'[r]
    BY <2>2
  <2>. QED
    BY <2>3, <2>4, <2>5
<1>3. ASSUME NEW r \in Runs, pc'[r] \in {"burst", "event"}
      PROVE  /\ pc[r] # "idle"
             /\ pc'[r] # pc[r] /\ pc'[r] = "burst" => ReadReplay(r)
             /\ pc'[r] # pc[r] /\ pc'[r] = "event" => ReadBurst(r) /\ pc[r] = "burst"
  BY <1>3, LooksUp DEF ReadReplay, ReadBurst
<1>4. ASSUME NEW r \in Runs, pc'[r] \in {"burst", "event"}, SameSignature(r)' # {}
      PROVE  Found(r, "T14")'
  <2>1. SameSignature(r) # {}
    BY <1>3, <1>4, EarlierSettled
  <2>2. CASE pc'[r] = pc[r]
    BY <1>4, <2>1, <2>2, HistoryKept DEF LookedUp, Found
  <2>3. CASE pc'[r] # pc[r] /\ pc'[r] = "burst"
    BY <1>1, <1>3, <1>4, <2>1, <2>3 DEF Found
  <2>4. CASE pc'[r] # pc[r] /\ pc'[r] = "event"
    BY <1>2, <1>3, <1>4, <2>1, <2>4 DEF LookedUp, Found
  <2>. QED
    BY <1>4, <2>2, <2>3, <2>4
<1>5. ASSUME NEW r \in Runs, pc'[r] = "event", Bursts(r)'
      PROVE  Found(r, "T15")'
  <2>1. Bursts(r)
    BY <1>3, <1>5, EarlierSettled
  <2>2. CASE pc'[r] = pc[r]
    BY <1>5, <2>1, <2>2, HistoryKept DEF LookedUp, Found
  <2>3. CASE pc'[r] # pc[r]
    BY <1>2, <1>3, <1>5, <2>1, <2>3 DEF Found
  <2>. QED
    BY <2>2, <2>3
<1>. QED
  BY <1>4, <1>5 DEF LookedUp

Reports(r, code) == code \in RuleCodes(r) \cup Disabled(cfg[r])

SeenBy(r) ==
    /\ SameSignature(r) # {} => Reports(r, "T14")
    /\ Bursts(r) => Reports(r, "T15")

LEMMA SeenStep ==
    ASSUME Inv, LookedUp, [Next]_vars, NEW r \in events', r \in events => SeenBy(r)
    PROVE  SeenBy(r)'
<1>0. TypeOK /\ Stages /\ r \in Runs
  BY TypeStep DEF Inv, TypeOK
<1>1. CASE r \in events
  <2>1. pc[r] # "idle"
    BY <1>0, <1>1 DEF Stages
  <2>2. findings'[r] = findings[r]
    BY <1>0, <1>1, Kept
  <2>3. cfg'[r] = cfg[r]
    BY <1>0, <2>1 DEF Next, Step, Begin, ReadReplay, ReadBurst, CommitEvent, CommitAlert,
         ReadRecent, JoinIncident, OpenIncident, Broadcast, Fails, PatchRule, Tick, vars,
         request, TypeOK
  <2>4. Reports(r, "T14")' = Reports(r, "T14") /\ Reports(r, "T15")' = Reports(r, "T15")
    BY <2>2, <2>3 DEF Reports, RuleCodes, Disabled
  <2>. QED
    BY <1>0, <1>1, <2>1, <2>4, EarlierSettled DEF SeenBy
<1>2. CASE r \notin events
  <2>1. CommitEvent(r)
    BY <1>0, <1>2 DEF Next, Step, Begin, ReadReplay, ReadBurst, CommitEvent, CommitAlert,
         ReadRecent, JoinIncident, OpenIncident, Broadcast, Fails, PatchRule, Tick, vars,
         tables
  <2>2. /\ pc[r] = "event" /\ cfg' = cfg
        /\ findings'[r] = {f \in sub[r].found \cup history[r] : f.code \notin Disabled(cfg[r])}
    BY <1>0, <2>1 DEF CommitEvent, request, TypeOK
  <2>3. \A code : Found(r, code) => Reports(r, code)'
    BY <2>2 DEF Found, Reports, RuleCodes, Disabled
  <2>. QED
    BY <1>0, <2>2, <2>3, EarlierSettled DEF SeenBy, LookedUp
<1>. QED
  BY <1>1, <1>2

\* Whatever else runs, a run that began after an event with its signature was
\* committed reports the replay, and one that completes a burst reports it,
\* unless the rule was off when it began.
THEOREM EarlierEventsAreSeenAlways == Spec => []EarlierEventsAreSeen
<1>1. Init => LookedUp /\ EarlierEventsAreSeen
  BY DEF Init, LookedUp, EarlierEventsAreSeen
<1>2. EarlierEventsAreSeen <=> \A r \in events : SeenBy(r)
  BY DEF EarlierEventsAreSeen, SeenBy, Reports, SameSignature, Bursts, Failures
<1>3. Inv /\ LookedUp /\ EarlierEventsAreSeen /\ [Next]_vars
        => LookedUp' /\ EarlierEventsAreSeen'
  <2> SUFFICES ASSUME Inv, LookedUp, EarlierEventsAreSeen, [Next]_vars
               PROVE  EarlierEventsAreSeen'
    BY LookedUpStep
  <2>1. \A r \in events' : SeenBy(r)'
    BY <1>2, SeenStep
  <2>. QED
    BY <2>1 DEF EarlierEventsAreSeen, SeenBy, Reports, SameSignature, Bursts, Failures
<1>. QED
  BY Invariant, <1>1, <1>3, PTL DEF Spec
=============================================================================
