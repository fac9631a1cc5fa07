----------------------------- MODULE Detection -----------------------------
(***************************************************************************)
(* From a verification result to an incident: run_detection of             *)
(* services/detection/engine.py with history_rules.py, scoring.py and      *)
(* correlation.py, and the analyst's edits of the rules.                   *)
(*                                                                         *)
(* A run is one call of run_detection on any worker.  It awaits the        *)
(* database many times: each SELECT sees what is committed then, each      *)
(* commit is one step, and no lock spans two of them.  A run names the     *)
(* event, the alert and the incident it inserts.                           *)
(*                                                                         *)
(* Time stands still for less than ten minutes, then jumps by some hours:  *)
(* two moments with the same `now` are within the burst window of T15 and  *)
(* the 900 seconds of similarity, moments one apart are within the six     *)
(* hours of correlation, and moments further apart are not.  The advisory  *)
(* anomaly score is switched off; the 200 newest alerts are all there are. *)
(***************************************************************************)
EXTENDS Integers, FiniteSets, FiniteSetsExt

CONSTANTS
    Runs,           \* calls of run_detection (each runs once)
    Submissions,    \* what they are called with
    Codes,          \* rows of detection_rules
    Weights,        \* weights an analyst may give a rule, whole numbers here
    Threshold,      \* invalid verifications that make a burst (5 by default)
    MaxTime,        \* bound of the clock
    None            \* an absent field

VARIABLES
    now,        \* the clock
    rules,      \* detection_rules: code -> enabled, weight
    pc,         \* run -> where it stands
    sub,        \* run -> what it was called with
    at,         \* run -> when it began, the created_at of its event
    cfg,        \* run -> the rules it read
    history,    \* run -> findings of the history rules
    events,     \* runs whose event is committed
    findings,   \* run -> findings committed with its event
    alerts,     \* runs whose alert is committed
    incidentOf, \* run -> incident_id of its alert
    incidents,  \* run -> the incident it opened, alert_count 0 if none
    choice,     \* run -> the incident correlate() chose, as it read it
    announced,  \* runs whose alert was published
    past        \* run -> the runs that had ended when it began

request == <<sub, at, cfg, past>>
tables == <<events, findings, alerts, incidentOf, incidents>>
vars == <<now, rules, pc, request, history, tables, choice, announced>>

-----------------------------------------------------------------------------
(* Scoring. *)

Severities == {"info", "low", "medium", "high", "critical"}

\* What a caller hands over is graded (further fields may tell apart several
\* findings of one rule), and runs are no field's value.
ASSUME SubmissionAssumption ==
    \A s \in Submissions : \A f \in s.found : f.severity \in Severities
ASSUME RunsAssumption == IsFiniteSet(Runs) /\ None \notin Runs
ASSUME TimeAssumption == MaxTime \in Nat
ASSUME ThresholdAssumption == Threshold \in Nat

Rank == [info |-> 0, low |-> 1, medium |-> 2, high |-> 3, critical |-> 4]

Weight == [info |-> 2, low |-> 8, medium |-> 20, high |-> 45, critical |-> 90]

Disabled(c) == {k \in Codes : ~c[k].enabled}

\* What a finding contributes, in percent.
Contribution(f, c) ==
    Min({99, Weight[f.severity] * IF f.code \in Codes THEN c[f.code].weight ELSE 1})

\* The score in tenths, rounded: 1 - (1 - c1)(1 - c2)...
RiskScore(found, c) ==
    LET remaining == FoldSet(LAMBDA f, rest : rest * (100 - Contribution(f, c)), 1, found)
        full == 100 ^ Cardinality(found)
    IN  (2000 * (full - remaining) + full) \div (2 * full)

DEFAULT_ALERT_THRESHOLD == 400

AlertWorthy(found, c) ==
    /\ found # {}
    /\ \/ RiskScore(found, c) >= DEFAULT_ALERT_THRESHOLD
       \/ \E f \in found : f.severity = "critical"

AlertSeverity(found) ==
    (CHOOSE f \in found : \A g \in found : Rank[g.severity] <= Rank[f.severity]).severity

RuleCodes(r) == {f.code : f \in findings[r]}

-----------------------------------------------------------------------------
(* Similarity, in hundredths. *)

_LINK_THRESHOLD == 34

Shares(q, r, field) == sub[q][field] # None /\ sub[q][field] = sub[r][field]

Similarity(q, r) ==
    LET shared == RuleCodes(q) \cap RuleCodes(r)
        total == (IF Shares(q, r, "signer") THEN 40 ELSE 0)
               + (IF Shares(q, r, "source") THEN 30 ELSE 0)
               + (IF Shares(q, r, "payload") THEN 20 ELSE 0)
               + (IF shared = {} THEN 0
                  ELSE (20 * Cardinality(shared))
                           \div Cardinality(RuleCodes(q) \cup RuleCodes(r)))
               + (IF at[q] = at[r] THEN 10 ELSE 0)
    IN  Min({100, total})

Similar(q, r) == Similarity(q, r) >= _LINK_THRESHOLD

-----------------------------------------------------------------------------

NoIncident == [count |-> 0, severity |-> "info"]

Ended == {"done", "failed"}

Init ==
    /\ now = 0
    /\ rules = [k \in Codes |-> [enabled |-> TRUE, weight |-> 1]]
    /\ pc = [r \in Runs |-> "idle"]
    /\ sub \in [Runs -> Submissions]
    /\ at = [r \in Runs |-> 0]
    /\ cfg = [r \in Runs |-> [k \in Codes |-> [enabled |-> TRUE, weight |-> 1]]]
    /\ history = [r \in Runs |-> {}]
    /\ events = {} /\ alerts = {} /\ announced = {}
    /\ findings = [r \in Runs |-> {}]
    /\ incidentOf = [r \in Runs |-> None]
    /\ incidents = [r \in Runs |-> NoIncident]
    /\ choice = [r \in Runs |-> [since |-> 0, incident |-> None, row |-> NoIncident]]
    /\ past = [r \in Runs |-> {}]

Goto(r, label) == pc' = [pc EXCEPT ![r] = label]

-----------------------------------------------------------------------------
(* run_detection, up to the event. *)

\* The rule configuration is read first; the transaction that will insert the
\* event begins here, and so does its created_at.
Begin(r) ==
    /\ pc[r] = "idle"
    /\ at' = [at EXCEPT ![r] = now]
    /\ cfg' = [cfg EXCEPT ![r] = rules]
    /\ past' = [past EXCEPT ![r] = {q \in Runs : pc[q] \in Ended}]
    /\ Goto(r, "replay")
    /\ UNCHANGED <<now, rules, sub, history, tables, choice, announced>>

Finding(code, severity) == [code |-> code, severity |-> severity]

\* Mutant: a replay is only looked for under the same payload.
ReadReplaySamePayload(r) ==
    /\ pc[r] = "replay"
    /\ LET same == {q \in events : /\ Shares(q, r, "signature")
                                   /\ sub[q].payload = sub[r].payload}
       IN  history' = [history EXCEPT ![r] =
                         IF same = {} THEN {} ELSE {Finding("T14", "high")}]
    /\ Goto(r, "burst")
    /\ UNCHANGED <<now, rules, request, tables, choice, announced>>

\* _replay: the newest event with these signature bytes tells a replay from a
\* reuse on another payload.
ReadReplay(r) ==
    /\ pc[r] = "replay"
    /\ LET same == {q \in events : Shares(q, r, "signature")}
       IN  \/ same = {} /\ UNCHANGED history
           \/ \E prior \in same :
                /\ \A q \in same : at[q] <= at[prior]
                /\ history' = [history EXCEPT ![r] =
                     {Finding("T14", IF sub[prior].payload = sub[r].payload
                                     THEN "high" ELSE "critical")}]
    /\ Goto(r, "burst")
    /\ UNCHANGED <<now, rules, request, tables, choice, announced>>

\* _failure_burst counts the source's invalid events, plus this one.
ReadBurst(r) ==
    /\ pc[r] = "burst"
    /\ LET failures == {q \in events : /\ Shares(q, r, "source")
                                       /\ sub[q].verdict = "invalid"
                                       /\ at[q] >= at[r]}
           burst == /\ sub[r].verdict = "invalid" /\ sub[r].source # None
                    /\ Cardinality(failures) + 1 >= Threshold
       IN  history' = [history EXCEPT ![r] =
                         @ \cup IF burst THEN {Finding("T15", "medium")} ELSE {}]
    /\ Goto(r, "event")
    /\ UNCHANGED <<now, rules, request, tables, choice, announced>>

\* The event and its findings in one commit; an alert comes in another.
CommitEvent(r) ==
    /\ pc[r] = "event"
    /\ events' = events \cup {r}
    /\ LET kept == {f \in sub[r].found \cup history[r] : f.code \notin Disabled(cfg[r])}
       IN  /\ findings' = [findings EXCEPT ![r] = kept]
           /\ Goto(r, IF AlertWorthy(kept, cfg[r]) THEN "alert" ELSE "done")
    /\ history' = [history EXCEPT ![r] = {}]
    /\ UNCHANGED <<now, rules, request, alerts, incidentOf, incidents>>
    /\ UNCHANGED <<choice, announced>>

-----------------------------------------------------------------------------
(* The alert and correlate(). *)

\* Mutant: the alert is announced before it is correlated.
CommitAlertAndAnnounce(r) ==
    /\ pc[r] = "alert"
    /\ alerts' = alerts \cup {r}
    /\ announced' = announced \cup {r}
    /\ Goto(r, "correlate")
    /\ UNCHANGED <<now, rules, request, history, events, findings, incidentOf>>
    /\ UNCHANGED <<incidents, choice>>

CommitAlert(r) ==
    /\ pc[r] = "alert"
    /\ alerts' = alerts \cup {r}
    /\ Goto(r, "correlate")
    /\ UNCHANGED <<now, rules, request, history, events, findings, incidentOf>>
    /\ UNCHANGED <<incidents, choice, announced>>

\* Mutant: the window is counted in minutes.
ReadRecentOfNow(r) ==
    LET linkable == {q \in alerts \ {r} : /\ at[q] >= now
                                          /\ incidentOf[q] # None
                                          /\ Similar(r, q)}
    IN
    /\ pc[r] = "correlate"
    /\ \/ /\ linkable = {} /\ Goto(r, "open")
          /\ choice' = [choice EXCEPT ![r].since = now - 1]
       \/ \E best \in linkable :
            /\ \A q \in linkable : Similarity(r, q) <= Similarity(r, best)
            /\ choice' = [choice EXCEPT ![r] =
                            [since |-> now - 1, incident |-> incidentOf[best],
                             row |-> incidents[incidentOf[best]]]]
            /\ Goto(r, "join")
    /\ UNCHANGED <<now, rules, request, history, tables, announced>>

\* The recent alerts with their incidents; the most similar one decides, and
\* of several the newest, which time does not tell apart here.
ReadRecent(r) ==
    LET linkable == {q \in alerts \ {r} : /\ at[q] >= now - 1
                                          /\ incidentOf[q] # None
                                          /\ Similar(r, q)}
    IN
    /\ pc[r] = "correlate"
    /\ \/ /\ linkable = {} /\ Goto(r, "open")
          /\ choice' = [choice EXCEPT ![r].since = now - 1]
       \/ \E best \in linkable :
            /\ \A q \in linkable : Similarity(r, q) <= Similarity(r, best)
            /\ choice' = [choice EXCEPT ![r] =
                            [since |-> now - 1, incident |-> incidentOf[best],
                             row |-> incidents[incidentOf[best]]]]
            /\ Goto(r, "join")
    /\ UNCHANGED <<now, rules, request, history, tables, announced>>

\* Mutant: the incident takes the severity of its latest alert.
JoinTakesSeverity(r) ==
    LET i == choice[r].incident IN
    /\ pc[r] = "join"
    /\ incidents' = [incidents EXCEPT ![i] =
                       [count |-> choice[r].row.count + 1,
                        severity |-> AlertSeverity(findings[r])]]
    /\ incidentOf' = [incidentOf EXCEPT ![r] = i]
    /\ Goto(r, "publish")
    /\ UNCHANGED <<now, rules, request, history, events, findings, alerts>>
    /\ UNCHANGED <<choice, announced>>

\* Only changed columns are written: alert_count from the row as it was read,
\* severity only if the alert's is higher than the one read.
JoinIncident(r) ==
    LET i == choice[r].incident
        mine == AlertSeverity(findings[r])
        worse == Rank[mine] > Rank[choice[r].row.severity]
    IN
    /\ pc[r] = "join"
    /\ incidents' = [incidents EXCEPT
                       ![i].count = choice[r].row.count + 1,
                       ![i].severity = IF worse THEN mine ELSE @]
    /\ incidentOf' = [incidentOf EXCEPT ![r] = i]
    /\ Goto(r, "publish")
    /\ UNCHANGED <<now, rules, request, history, events, findings, alerts>>
    /\ UNCHANGED <<choice, announced>>

\* Mutant: alert_count starts from the column's default and is counted up by
\* the alerts that join.
OpenIncidentUncounted(r) ==
    /\ pc[r] = "open"
    /\ incidents' = [incidents EXCEPT ![r] =
                       [count |-> 0, severity |-> AlertSeverity(findings[r])]]
    /\ incidentOf' = [incidentOf EXCEPT ![r] = r]
    /\ Goto(r, "publish")
    /\ UNCHANGED <<now, rules, request, history, events, findings, alerts>>
    /\ UNCHANGED <<choice, announced>>

OpenIncident(r) ==
    /\ pc[r] = "open"
    /\ incidents' = [incidents EXCEPT ![r] =
                       [count |-> 1, severity |-> AlertSeverity(findings[r])]]
    /\ incidentOf' = [incidentOf EXCEPT ![r] = r]
    /\ Goto(r, "publish")
    /\ UNCHANGED <<now, rules, request, history, events, findings, alerts>>
    /\ UNCHANGED <<choice, announced>>

\* _broadcast never raises.
Broadcast(r) ==
    /\ pc[r] = "publish"
    /\ announced' = announced \cup {r}
    /\ Goto(r, "done")
    /\ UNCHANGED <<now, rules, request, history, tables, choice>>

\* The worker dies, or the database refuses a statement: what was committed
\* stays, and nobody takes the run up again.
Fails(r) ==
    /\ pc[r] \notin Ended \cup {"idle"}
    /\ Goto(r, "failed")
    /\ history' = [history EXCEPT ![r] = {}]
    /\ UNCHANGED <<now, rules, request, tables, choice, announced>>

-----------------------------------------------------------------------------

\* patch_rule, and apply_tuning for the weights.
PatchRule(k) ==
    /\ \E on \in BOOLEAN, w \in Weights :
         rules' = [rules EXCEPT ![k] = [enabled |-> on, weight |-> w]]
    /\ rules' # rules
    /\ UNCHANGED <<now, pc, request, history, tables, choice, announced>>

Tick ==
    /\ now < MaxTime
    /\ now' = now + 1
    /\ UNCHANGED <<rules, pc, request, history, tables, choice, announced>>

Step(r) ==
    \/ Begin(r) \/ ReadReplay(r) \/ ReadBurst(r) \/ CommitEvent(r)
    \/ CommitAlert(r) \/ ReadRecent(r) \/ JoinIncident(r) \/ OpenIncident(r)
    \/ Broadcast(r) \/ Fails(r)

Next == (\E r \in Runs : Step(r)) \/ (\E k \in Codes : PatchRule(k)) \/ Tick

Spec == Init /\ [][Next]_vars

-----------------------------------------------------------------------------
(* Properties. *)

Labels == Ended \cup {"idle", "replay", "burst", "event", "alert", "correlate",
                      "join", "open", "publish"}

IncidentRow == [count : Nat, severity : Severities]

Rules == [Codes -> [enabled : BOOLEAN, weight : Weights \cup {1}]]

TypeOK ==
    /\ now \in 0 .. MaxTime
    /\ pc \in [Runs -> Labels]
    /\ sub \in [Runs -> Submissions]
    /\ at \in [Runs -> 0 .. MaxTime]
    /\ rules \in Rules /\ cfg \in [Runs -> Rules]
    /\ past \in [Runs -> SUBSET Runs]
    /\ DOMAIN history = Runs /\ DOMAIN findings = Runs
    /\ events \subseteq Runs /\ alerts \subseteq events /\ announced \subseteq alerts
    /\ incidentOf \in [Runs -> Runs \cup {None}]
    /\ incidents \in [Runs -> IncidentRow]
    /\ choice \in [Runs -> [since : Int, incident : Runs \cup {None}, row : IncidentRow]]

Members(i) == {r \in alerts : incidentOf[r] = i}

Overlap(q, r) == q \notin past[r] /\ r \notin past[q]

\* DEMO.md:71 "same payload digest and signature seen again": a run that begins
\* after an event with the same signature was committed reports T14, and one
\* that completes a burst reports T15, unless the rule is switched off.
EarlierEventsAreSeen ==
    \A r \in events :
        LET earlier == events \cap past[r]
            reports(k) == k \in RuleCodes(r) \cup Disabled(cfg[r])
        IN  /\ (\E q \in earlier : Shares(q, r, "signature")) => reports("T14")
            /\ Cardinality({q \in earlier : /\ Shares(q, r, "source")
                                            /\ sub[q].verdict = "invalid"
                                            /\ at[q] >= at[r]}) + 1 >= Threshold
               /\ sub[r].verdict = "invalid" /\ sub[r].source # None
                  => reports("T15")

\* Concurrent joins lose counts and severities of each other, but an incident
\* never claims more alerts than it has, nor a severity none of them has, nor
\* one below that of the alert that opened it.
IncidentBounds ==
    \A i \in Runs :
        LET row == incidents[i] IN
        IF incidentOf[i] = i
        THEN /\ row.count \in 1 .. Cardinality(Members(i))
             /\ \E r \in Members(i) : row.severity = AlertSeverity(findings[r])
             /\ Rank[row.severity] >= Rank[AlertSeverity(findings[i])]
        ELSE Members(i) = {} /\ row = NoIncident

\* When the runs of an incident came one after the other its row is exact.
SerialIncidentsExact ==
    \A i \in Runs :
        /\ incidentOf[i] = i
        /\ \A q, r \in Members(i) : q # r => ~Overlap(q, r)
        => /\ incidents[i].count = Cardinality(Members(i))
           /\ \A r \in Members(i) :
                Rank[incidents[i].severity] >= Rank[AlertSeverity(findings[r])]

\* An alert opens an incident of its own only if no alert that was there when
\* its run began, with an incident and within the window, is similar enough;
\* one that joined has a similar alert in its incident.
AlikeAreLinked ==
    \A r \in alerts :
        /\ incidentOf[r] = r =>
             \A q \in alerts \cap past[r] :
                incidentOf[q] # None /\ at[q] >= choice[r].since
                    => ~Similar(r, q)
        /\ incidentOf[r] \notin {r, None} =>
             \E q \in Members(incidentOf[r]) \ {r} :
                Similar(r, q)

\* Whatever was announced can be looked up: the alert is durable, it was worth
\* an alert, and it has its incident.
AnnouncedIsDurable ==
    /\ \A r \in announced : r \in alerts /\ incidentOf[r] # None
    /\ \A r \in alerts : AlertWorthy(findings[r], cfg[r])
    /\ \A r \in Runs : pc[r] = "done" /\ r \in alerts => r \in announced
-----------------------------------------------------------------------------
(* The inductive strengthening of the invariants above. *)

\* Every finding is graded.
Graded ==
    \A r \in Runs : \A f \in sub[r].found \cup history[r] \cup findings[r] :
        f.severity \in Severities

\* Where a run stands decides what of it is in the tables.
Stages ==
    \A r \in Runs :
        /\ pc[r] \in {"idle", "replay", "burst", "event"} => r \notin events
        /\ pc[r] \in {"idle", "replay", "burst", "event", "alert"} => r \notin alerts
        /\ pc[r] = "alert" => r \in events /\ AlertWorthy(findings[r], cfg[r])
        /\ pc[r] \in {"correlate", "open", "join", "publish"} => r \in alerts
        /\ r \in alerts => AlertWorthy(findings[r], cfg[r])
        /\ pc[r] = "join" => choice[r].incident \in Runs
        /\ incidentOf[r] # None => r \in alerts /\ pc[r] \in Ended \cup {"publish"}
        /\ pc[r] = "publish" \/ r \in announced => incidentOf[r] # None
        /\ pc[r] = "done" /\ r \in alerts => r \in announced

PastEnded == \A r \in Runs : past[r] \subseteq {q \in Runs : pc[q] \in Ended}

Inv == TypeOK /\ Graded /\ Stages /\ PastEnded

\* What a run is about to join is an incident, with at least what it read of it.
JoinBounds ==
    \A r \in Runs : pc[r] = "join" =>
        LET i == choice[r].incident
            row == choice[r].row
        IN  /\ i \in Runs /\ incidentOf[i] = i
            /\ row.count \in 1 .. Cardinality(Members(i))
            /\ Rank[row.severity] >= Rank[AlertSeverity(findings[i])]

\* What a run decided from the recent alerts still holds when it writes it.
DecisionHolds ==
    \A r \in Runs :
        /\ pc[r] = "open" =>
             \A q \in alerts \cap past[r] :
                incidentOf[q] # None /\ at[q] >= choice[r].since
                    => ~Similar(r, q)
        /\ pc[r] = "join" =>
             \E q \in Members(choice[r].incident) \ {r} :
                Similar(r, q)
=============================================================================
