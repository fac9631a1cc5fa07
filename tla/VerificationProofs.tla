------------------------- MODULE VerificationProofs -------------------------
(***************************************************************************)
(* Proofs about Verification, for any requests, certificates and trust     *)
(* store, any depth and number of edits.                                   *)
(***************************************************************************)
EXTENDS Verification, FiniteSetTheorems, SequenceTheorems, TLAPS

\* The steps that leave the trust store alone, by the request that takes them.
Moves(r) ==
    \/ Submit(r) \/ Lookup(r) \/ ReadOthers(r) \/ Save(r) \/ ReadRoots(r)
    \/ ReachAnchor(r) \/ DeadEnd(r) \/ TakeIssuer(r) \/ TooLong(r)
    \/ CheckRevocation(r) \/ ReadAllowlist(r) \/ Answer(r) \/ Fails(r)

\* Every step is the step of one request, an edit of an anchor or of the
\* allow-list, or none.
LEMMA StepCases ==
    ASSUME [Next]_vars
    PROVE  \/ \E r \in Requests : Moves(r)
           \/ \E c \in Anchorable : \E state \in {"absent", "enabled", "disabled"} :
                EditAnchor(c, state)
           \/ EditAllowlist
           \/ UNCHANGED vars
BY DEF Next, Step, Proceed, Moves, Administrate, add_anchor, set_anchor_enabled, delete_anchor

\* The anchors a request reads form a sequence of the enabled ones.
LEMMA RootsAreEnabled ==
    ASSUME NEW order \in Bijection(1 .. Cardinality(Enabled), Enabled)
    PROVE  order \in Seq(Certs) /\ Range(order) \subseteq Enabled
<1>1. Enabled \subseteq Certs
  BY DEF Enabled
<1>2. Cardinality(Enabled) \in Nat
  BY <1>1, CertsAssumption, FS_Subset, FS_CardinalityType
<1>3. order \in [1 .. Cardinality(Enabled) -> Enabled]
  BY DEF Bijection, Injection
<1>. QED
  BY <1>1, <1>2, <1>3 DEF Range

LEMMA PoolIsSeq ==
    ASSUME TypeOK, NEW r \in Requests
    PROVE  Pool(r) \in Seq(Certs)
<1>1. input[r].extra \in Seq(Certs)
  <2>1. CASE input[r] = Idle
    BY <2>1 DEF Idle
  <2>2. CASE input[r] \in Inputs
    BY <2>2, InputsAssumption
  <2>. QED
    BY <2>1, <2>2 DEF TypeOK
<1>2. roots[r] \in Seq(Certs)
  BY DEF TypeOK
<1>. QED
  BY <1>1, <1>2, ConcatProperties DEF Pool

-----------------------------------------------------------------------------
(* Types. *)

LEMMA InitTypeOK == Init => TypeOK
BY CertsAssumption, BoundsAssumption DEF Init, TypeOK, Labels, Ended

LEMMA ForgetTypeOK ==
    ASSUME TypeOK, NEW r \in Requests, Forget(r)
    PROVE  /\ pc' \in [Requests -> Labels]
           /\ input' \in [Requests -> Inputs \cup {Idle}]
           /\ read' \in [Requests -> Nat]
           /\ roots' \in [Requests -> Seq(Certs)]
           /\ path' \in [Requests -> Seq(Certs)]
           /\ \A q \in Requests : Len(path'[q]) <= MaxDepth + 1
           /\ status' \in [Requests -> {None, "trusted", "untrusted", "incomplete", "error"}]
           /\ revocation' \in [Requests -> {None, "not_checked", "good", "revoked", "unknown"}]
           /\ DOMAIN findings' = Requests
           /\ known' \in [Requests -> SUBSET Certs]
           /\ offered' \in [Requests -> SUBSET Certs]
           /\ UNCHANGED verdict
<1>1. <<>> \in Seq(Certs) /\ Len(<<>>) <= MaxDepth + 1
  BY BoundsAssumption
<1>. QED
  BY <1>1 DEF TypeOK, Forget, Goto, Labels, Ended

LEMMA EndWalkTypeOK ==
    ASSUME TypeOK, NEW r \in Requests, NEW outcome, NEW new, EndWalk(r, outcome, new),
           outcome \in {"trusted", "untrusted", "incomplete", "error"}
    PROVE  TypeOK'
BY DEF TypeOK, EndWalk, Add, Goto, Labels, store, seen, given

\* Who looks a certificate up was called with one.
LEMMA LeafIsCert ==
    ASSUME TypeOK, NEW r \in Requests,
           Stage(r),
           pc[r] \in {"lookup", "others", "save", "walk", "revocation", "allowlist"}
    PROVE  input[r].leaf \in Certs
<1>1. input[r].kind \in {"signature", "certificate"}
  BY DEF Stage, WithCertificate
<1>2. Idle.kind = "unsigned"
  BY DEF Idle
<1>3. input[r] \in Inputs
  BY <1>1, <1>2 DEF TypeOK
<1>. QED
  BY <1>1, <1>3, InputsAssumption

LEMMA NextTypeOK == TypeOK /\ (\A r \in Requests : Stage(r)) /\ [Next]_vars => TypeOK'
<1> SUFFICES ASSUME TypeOK, \A r \in Requests : Stage(r), [Next]_vars PROVE TypeOK'
  OBVIOUS
<1> USE DEF store, seen, chain, given
<1>1. ASSUME NEW r \in Requests, Moves(r) PROVE TypeOK'
  <2>1. CASE Submit(r)
    BY <2>1 DEF TypeOK, Submit, Add, Goto, Labels, Enabled
  <2>2. CASE Lookup(r)
    <3>1. timesSeen[input[r].leaf] \in Nat
      BY <2>2, LeafIsCert DEF TypeOK, Lookup
    <3>. QED
      BY <2>2, <3>1 DEF TypeOK, Lookup, Goto, Labels
  <2>3. CASE ReadOthers(r)
    BY <2>3 DEF TypeOK, ReadOthers, Add, Goto, Labels
  <2>4. CASE Save(r)
    <3>1. CASE Forget(r) /\ UNCHANGED <<seen, store>>
      BY <3>1, ForgetTypeOK DEF TypeOK
    <3>2. CASE ~(Forget(r) /\ UNCHANGED <<seen, store>>)
      <4> DEFINE leaf == input[r].leaf
      <4>1. /\ timesSeen' = [timesSeen EXCEPT ![leaf] = read[r] + 1]
            /\ insertedBy' = [insertedBy EXCEPT ![leaf] = IF read[r] = 0 THEN r ELSE @]
            /\ pc' = [pc EXCEPT ![r] = "roots"]
            /\ UNCHANGED <<store, given, read, chain, revocation, findings, verdict, offered>>
        BY <2>4, <3>2 DEF Save, Goto
      <4>2. /\ timesSeen' \in [Certs -> Nat]
            /\ insertedBy' \in [Certs -> Requests \cup {None}]
        <5>1. leaf \in Certs /\ read[r] + 1 \in Nat
          BY <2>4, LeafIsCert DEF Save, TypeOK
        <5>2. timesSeen' \in [Certs -> Nat]
          BY <4>1, <5>1 DEF TypeOK
        <5>3. insertedBy' \in [Certs -> Requests \cup {None}]
          BY <4>1, <5>1 DEF TypeOK
        <5>. QED
          BY <5>2, <5>3
      <4>. QED
        BY <4>1, <4>2 DEF TypeOK, Labels
    <3>. QED
      BY <3>1, <3>2
  <2>5. CASE ReadRoots(r)
    <3>1. PICK order \in Bijection(1 .. Cardinality(Enabled), Enabled) :
             roots' = [roots EXCEPT ![r] = order]
      BY <2>5 DEF ReadRoots
    <3>2. roots' \in [Requests -> Seq(Certs)]
      BY <3>1, RootsAreEnabled DEF TypeOK
    <3>3. /\ path' \in [Requests -> Seq(Certs)]
          /\ \A q \in Requests : Len(path'[q]) <= MaxDepth + 1
      <4>1. CASE UNCHANGED path
        BY <4>1 DEF TypeOK
      <4>2. CASE path' = [path EXCEPT ![r] = <<input[r].leaf>>] /\ input[r].kind # "pdf"
        <5>1. input[r].leaf \in Certs
          <6>1. input[r].kind \in {"signature", "certificate"}
            BY <2>5, <4>2 DEF ReadRoots, Stage, WithCertificate
          <6>2. input[r] \in Inputs
            BY <6>1 DEF TypeOK, Idle
          <6>. QED
            BY <6>1, <6>2, InputsAssumption
        <5>. QED
          BY <4>2, <5>1, BoundsAssumption DEF TypeOK
      <4>. QED
        BY <2>5, <4>1, <4>2 DEF ReadRoots
    <3>. QED
      BY <2>5, <3>2, <3>3, ZenonT(40) DEF TypeOK, ReadRoots, Goto, Labels
  <2>6. CASE ReachAnchor(r) \/ DeadEnd(r) \/ TooLong(r)
    BY <2>6, EndWalkTypeOK DEF ReachAnchor, DeadEnd, TooLong
  <2>7. CASE TakeIssuer(r)
    <3>1. PICK i \in Issuers(r) : path' = [path EXCEPT ![r] = Append(@, Pool(r)[i])]
      BY <2>7 DEF TakeIssuer
    <3>2. Pool(r)[i] \in Certs
      BY <3>1, PoolIsSeq DEF Issuers
    <3>3. path[r] \in Seq(Certs) /\ Len(path[r]) <= MaxDepth
      BY <2>7 DEF TakeIssuer, Walking, TypeOK
    <3>4. /\ Append(path[r], Pool(r)[i]) \in Seq(Certs)
          /\ Len(Append(path[r], Pool(r)[i])) <= MaxDepth + 1
      BY <3>2, <3>3, BoundsAssumption
    <3>. QED
      BY <2>7, <3>1, <3>4 DEF TypeOK, TakeIssuer, Add
  <2>8. CASE CheckRevocation(r)
    BY <2>8 DEF TypeOK, CheckRevocation, Add, Goto, Labels
  <2>9. CASE ReadAllowlist(r)
    BY <2>9 DEF TypeOK, ReadAllowlist, Add, Goto, Labels
  <2>10. CASE Answer(r)
    <3>1. Verdict(r) \in {"valid", "invalid", "indeterminate"}
      BY DEF Verdict, _decide, CertificateVerdict, PdfVerdict
    <3>. QED
      BY <2>10, <3>1 DEF TypeOK, Answer, Add, Goto, Labels, Ended
  <2>11. CASE Fails(r)
    BY <2>11, ForgetTypeOK DEF Fails, TypeOK
  <2>. QED
    BY <1>1, <2>1, <2>2, <2>3, <2>4, <2>5, <2>6, <2>7, <2>8, <2>9, <2>10, <2>11 DEF Moves
<1>2. ASSUME NEW c \in Anchorable, NEW state \in {"absent", "enabled", "disabled"},
             EditAnchor(c, state)
      PROVE  TypeOK'
  BY <1>2, CertsAssumption, BoundsAssumption DEF TypeOK, EditAnchor
<1>3. CASE EditAllowlist
  BY <1>3, BoundsAssumption DEF TypeOK, EditAllowlist
<1>4. CASE UNCHANGED vars
  BY <1>4 DEF TypeOK, vars
<1>. QED
  BY <1>1, <1>2, <1>3, <1>4, StepCases


-----------------------------------------------------------------------------
(* What a step does not touch. *)

LEMMA MovesKeepStore ==
    ASSUME NEW r \in Requests, Moves(r)
    PROVE  UNCHANGED store
BY DEF Moves, Submit, Lookup, ReadOthers, Save, ReadRoots, ReachAnchor, DeadEnd, TakeIssuer,
       TooLong, EndWalk, CheckRevocation, ReadAllowlist, Answer, Fails

\* A step of one request leaves what another holds alone.
LEMMA OthersStay ==
    ASSUME TypeOK, NEW r \in Requests, Moves(r), NEW q \in Requests \ {r}
    PROVE  /\ pc'[q] = pc[q] /\ input'[q] = input[q] /\ known'[q] = known[q]
           /\ read'[q] = read[q] /\ roots'[q] = roots[q] /\ path'[q] = path[q]
           /\ status'[q] = status[q] /\ revocation'[q] = revocation[q]
           /\ findings'[q] = findings[q] /\ verdict'[q] = verdict[q]
           /\ offered'[q] = offered[q]
<1> USE DEF TypeOK, store, seen, chain, given, Add, Goto
<1>1. CASE Submit(r)
  BY <1>1 DEF Submit
<1>2. CASE Lookup(r)
  BY <1>2 DEF Lookup
<1>3. CASE ReadOthers(r)
  BY <1>3 DEF ReadOthers
<1>4. CASE Save(r)
  BY <1>4 DEF Save, Forget
<1>5. CASE ReadRoots(r)
  BY <1>5 DEF ReadRoots
<1>6. CASE ReachAnchor(r) \/ DeadEnd(r) \/ TooLong(r)
  BY <1>6 DEF ReachAnchor, DeadEnd, TooLong, EndWalk
<1>7. CASE TakeIssuer(r)
  BY <1>7 DEF TakeIssuer
<1>8. CASE CheckRevocation(r)
  BY <1>8 DEF CheckRevocation
<1>9. CASE ReadAllowlist(r)
  BY <1>9 DEF ReadAllowlist
<1>10. CASE Answer(r)
  BY <1>10 DEF Answer
<1>11. CASE Fails(r)
  BY <1>11 DEF Fails, Forget
<1>. QED
  BY <1>1, <1>2, <1>3, <1>4, <1>5, <1>6, <1>7, <1>8, <1>9, <1>10, <1>11 DEF Moves

\* An edit of the trust store touches no request but for what it was offered.
LEMMA EditsKeepRequests ==
    ASSUME \/ \E c \in Anchorable : \E state \in {"absent", "enabled", "disabled"} :
                EditAnchor(c, state)
           \/ EditAllowlist
           \/ UNCHANGED vars
    PROVE  UNCHANGED <<seen, pc, given, read, chain, revocation, findings, verdict>>
BY DEF EditAnchor, EditAllowlist, vars

LEMMA SeenStays ==
    ASSUME NEW r \in Requests, Moves(r), ~Save(r)
    PROVE  UNCHANGED seen
BY DEF Moves, Submit, Lookup, ReadOthers, ReadRoots, ReachAnchor, DeadEnd, TakeIssuer,
       TooLong, EndWalk, CheckRevocation, ReadAllowlist, Answer, Fails

\* What is saved: a row, or nothing by a request that is refused.
LEMMA SaveCases ==
    ASSUME NEW r \in Requests, Save(r)
    PROVE  \/ Forget(r) /\ UNCHANGED seen
           \/ /\ timesSeen' = [timesSeen EXCEPT ![input[r].leaf] = read[r] + 1]
              /\ insertedBy' = [insertedBy EXCEPT ![input[r].leaf] =
                                  IF read[r] = 0 THEN r ELSE @]
              /\ pc' = [pc EXCEPT ![r] = "roots"]
              /\ UNCHANGED <<given, read, chain, revocation, findings, verdict, offered>>
BY DEF Save, Goto

\* No row is ever removed.
LEMMA RowsStay ==
    ASSUME TypeOK, \A r \in Requests : Stage(r), [Next]_vars
    PROVE  Rows \subseteq Rows'
<1>1. ASSUME NEW r \in Requests, Save(r) PROVE Rows \subseteq Rows'
  <2>1. CASE UNCHANGED seen
    BY <2>1 DEF Rows, seen
  <2>2. CASE timesSeen' = [timesSeen EXCEPT ![input[r].leaf] = read[r] + 1]
    <3>1. read[r] + 1 > 0
      BY DEF TypeOK
    <3>. QED
      BY <2>2, <3>1 DEF Rows, TypeOK
  <2>. QED
    BY <1>1, <2>1, <2>2, SaveCases
<1>. QED
  BY <1>1, SeenStays, StepCases, EditsKeepRequests DEF Rows, seen

-----------------------------------------------------------------------------
(* Stages. *)

LEMMA ForgottenIsClean ==
    ASSUME TypeOK, NEW r \in Requests, Forget(r)
    PROVE  /\ pc'[r] = "failed" /\ status'[r] = None /\ revocation'[r] = None
           /\ findings'[r] = {} /\ known'[r] = {} /\ path'[r] = <<>> /\ roots'[r] = <<>>
           /\ offered'[r] = {} /\ verdict'[r] = verdict[r]
BY DEF TypeOK, Forget, Goto

LEMMA StageStep ==
    ASSUME TypeOK, \A q \in Requests : Stage(q), [Next]_vars, NEW q \in Requests
    PROVE  Stage(q)'
<1>1. ASSUME NEW r \in Requests, Moves(r), q # r PROVE Stage(q)'
  BY <1>1, OthersStay DEF Stage
<1>2. CASE Moves(q)
  <2> USE DEF TypeOK, store, seen, chain, given, Add, Goto, Ended, WithCertificate
  <2>1. CASE Submit(q)
    <3>1. PICK i \in Inputs :
            /\ input'[q] = i
            /\ pc'[q] = CASE i.kind \in {"signature", "certificate"} -> "lookup"
                         [] i.kind = "pdf" -> "roots"
                         [] OTHER -> "decide"
            /\ findings'[q] = findings[q] \cup IF i.kind \in {"signature", "key"} /\ ~i.ok
                                               THEN {Finding("forged", i.leaf)} ELSE {}
      BY <2>1 DEF Submit
    <3>2. status'[q] = status[q] /\ revocation'[q] = revocation[q] /\ verdict'[q] = verdict[q]
      BY <2>1 DEF Submit
    <3>3. pc[q] = "idle"
      BY <2>1 DEF Submit
    <3>4. i.kind \in {"signature", "certificate", "key", "pdf", "unsigned"}
      BY InputsAssumption
    <3>. QED
      BY <3>1, <3>2, <3>3, <3>4 DEF Stage
  <2>2. CASE Lookup(q)
    BY <2>2 DEF Lookup, Stage
  <2>3. CASE ReadOthers(q)
    BY <2>3 DEF ReadOthers, Stage
  <2>4. CASE Save(q)
    <3>1. CASE Forget(q)
      BY <2>4, <3>1, ForgottenIsClean DEF Save, Stage
    <3>2. CASE ~Forget(q)
      BY <2>4, <3>2 DEF Save, Stage
    <3>. QED
      BY <3>1, <3>2
  <2>5. CASE ReadRoots(q)
    BY <2>5 DEF ReadRoots, Stage
  <2>6. CASE ReachAnchor(q) \/ DeadEnd(q) \/ TooLong(q)
    <3>1. PICK outcome \in {"trusted", "untrusted", "incomplete", "error"} :
             \E new : EndWalk(q, outcome, new)
      BY <2>6 DEF ReachAnchor, DeadEnd, TooLong
    <3>2. outcome # None
      BY StatusAssumption
    <3>3. pc[q] = "walk"
      BY <2>6 DEF ReachAnchor, DeadEnd, TooLong, Walking
    <3>. QED
      BY <3>1, <3>2, <3>3 DEF EndWalk, Stage
  <2>7. CASE TakeIssuer(q)
    BY <2>7 DEF TakeIssuer, Walking, Stage
  <2>8. CASE CheckRevocation(q)
    BY <2>8 DEF CheckRevocation, Stage
  <2>9. CASE ReadAllowlist(q)
    BY <2>9 DEF ReadAllowlist, Stage
  <2>10. CASE Answer(q)
    BY <2>10 DEF Answer, Stage
  <2>11. CASE Fails(q)
    BY <2>11, ForgottenIsClean DEF Fails, Stage
  <2>. QED
    BY <1>2, <2>1, <2>2, <2>3, <2>4, <2>5, <2>6, <2>7, <2>8, <2>9, <2>10, <2>11 DEF Moves
<1>3. CASE UNCHANGED <<seen, pc, given, read, chain, revocation, findings, verdict>>
  BY <1>3 DEF Stage, seen, given, chain
<1>. QED
  BY <1>1, <1>2, <1>3, StepCases, EditsKeepRequests

-----------------------------------------------------------------------------
(* Provenance. *)

LEMMA AppendAdds ==
    ASSUME NEW S, NEW s \in Seq(S), NEW e \in S
    PROVE  /\ Append(s, e) # <<>> /\ Append(s, e) \in Seq(S)
           /\ Len(Append(s, e)) = Len(s) + 1
           /\ Append(s, e)[Len(s) + 1] = e
           /\ \A k \in 1 .. Len(s) : Append(s, e)[k] = s[k]
OBVIOUS

LEMMA SingleSeq ==
    ASSUME NEW e, NEW s, s = <<e>>
    PROVE  Len(s) = 1 /\ s[1] = e /\ s # <<>>
<1>1. <<e>> \in Seq({e})
  OBVIOUS
<1>2. s \in Seq({e})
  BY <1>1
<1>. QED
  BY <1>2

LEMMA EmptySeqHasNone ==
    ASSUME NEW s, s = <<>>
    PROVE  Len(s) = 0
<1>1. <<>> \in Seq({})
  OBVIOUS
<1>2. s \in Seq({})
  BY <1>1
<1>. QED
  BY <1>2

LEMMA AnchoredInMore ==
    ASSUME NEW c, NEW few, NEW more, few \subseteq more, Anchored(c, few)
    PROVE  Anchored(c, more)
BY DEF Anchored

LEMMA EndWalkKeepsProvenance ==
    ASSUME TypeOK, NEW r \in Requests, Provenance(r), pc[r] = "walk",
           NEW outcome, NEW new, EndWalk(r, outcome, new),
           outcome = "trusted" => AtAnchor(r)
    PROVE  Provenance(r)'
<1>1. /\ path' = path /\ roots' = roots /\ input' = input /\ offered' = offered
      /\ anchors' = anchors
      /\ pc'[r] = "revocation" /\ status'[r] = outcome
  BY DEF EndWalk, Goto, TypeOK, store, given
<1>2. outcome = "trusted" => Anchored(Current(r), offered[r])
  BY AnchoredInMore DEF AtAnchor, Provenance
<1>3. InFlight(r)
  BY DEF InFlight, Ended
<1>. QED
  BY <1>1, <1>2, <1>3 DEF Provenance, InFlight, Ended, Enabled, Current

LEMMA ProvenanceStep ==
    ASSUME TypeOK, \A q \in Requests : Stage(q) /\ Provenance(q), [Next]_vars,
           NEW q \in Requests
    PROVE  Provenance(q)'
<1>0. Stage(q) /\ Provenance(q)
  OBVIOUS
<1>1. ASSUME NEW r \in Requests, Moves(r), q # r PROVE Provenance(q)'
  <2>1. anchors' = anchors
    BY <1>1, MovesKeepStore DEF store
  <2>. QED
    BY <1>0, <1>1, <2>1, OthersStay DEF Provenance, Current, InFlight, Enabled
<1>2. CASE Moves(q)
  <2>1. anchors' = anchors
    BY <1>2, MovesKeepStore DEF store
  <2>2. CASE Submit(q)
    <3>1. /\ roots'[q] = roots[q] /\ path'[q] = path[q] /\ status'[q] = status[q]
          /\ offered'[q] = Enabled /\ pc[q] = "idle" /\ path[q] = <<>> /\ roots[q] = <<>>
          /\ status[q] = None /\ pc'[q] \notin {"walk", "revocation", "allowlist"}
      BY <1>0, <2>2, InputsAssumption DEF Submit, Goto, TypeOK, chain, Stage, Provenance
    <3>2. Enabled' = Enabled
      BY <2>1 DEF Enabled
    <3>. QED
      BY <3>1, <3>2, StatusAssumption DEF Provenance, Range
  <2>3. CASE \/ Lookup(q) \/ ReadOthers(q) \/ CheckRevocation(q) \/ ReadAllowlist(q)
             \/ (Save(q) /\ ~Forget(q)) \/ Answer(q)
    <3>1. /\ roots' = roots /\ path' = path /\ status' = status /\ offered' = offered
          /\ input' = input /\ InFlight(q)
          /\ \/ pc'[q] \in {"others", "save", "roots"} /\ pc[q] \in {"lookup", "others", "save"}
             \/ pc'[q] \in {"allowlist", "decide"} /\ pc[q] \in {"revocation", "allowlist"}
             \/ pc'[q] = "answered"
      <4>1. CASE Save(q) /\ ~Forget(q)
        BY <4>1 DEF Save, Goto, TypeOK, chain, given, InFlight, Ended
      <4>2. CASE Lookup(q) \/ ReadOthers(q)
        BY <4>2 DEF Lookup, ReadOthers, Goto, TypeOK, chain, given, InFlight, Ended
      <4>3. CASE CheckRevocation(q) \/ ReadAllowlist(q)
        BY <4>3 DEF CheckRevocation, ReadAllowlist, Goto, TypeOK, chain, given, InFlight, Ended
      <4>4. CASE Answer(q)
        BY <4>4 DEF Answer, Goto, TypeOK, chain, given, InFlight, Ended
      <4>. QED
        BY <2>3, <4>1, <4>2, <4>3, <4>4
    <3>. QED
      BY <1>0, <2>1, <3>1 DEF Provenance, Current, InFlight, Enabled, Ended
  <2>4. CASE Fails(q) \/ (Save(q) /\ Forget(q))
    <3>1. /\ pc'[q] = "failed" /\ path'[q] = <<>> /\ roots'[q] = <<>>
          /\ status'[q] = None /\ offered'[q] = {}
      BY <2>4, ForgottenIsClean DEF Fails
    <3>. QED
      BY <3>1, StatusAssumption DEF Provenance, InFlight, Ended, Range
  <2>5. CASE ReadRoots(q)
    <3>1. PICK order \in Bijection(1 .. Cardinality(Enabled), Enabled) :
             roots' = [roots EXCEPT ![q] = order]
      BY <2>5 DEF ReadRoots
    <3>2. Range(roots'[q]) \subseteq offered[q]
      BY <1>0, <2>5, <3>1, RootsAreEnabled
         DEF TypeOK, ReadRoots, Provenance, InFlight, Ended
    <3>3. /\ offered' = offered /\ status' = status /\ input' = input /\ InFlight(q)
          /\ pc[q] = "roots" /\ path[q] = <<>> /\ status[q] = None
          /\ \/ pc'[q] = "decide" /\ path' = path
             \/ pc'[q] = "walk" /\ path'[q] = <<input[q].leaf>>
      BY <1>0, <2>5 DEF ReadRoots, Goto, TypeOK, given, Provenance, Stage, InFlight, Ended
    <3>4. path'[q] = <<>> \/ path'[q] = <<input[q].leaf>>
      BY <3>3
    <3>5. /\ \A k \in 1 .. Len(path'[q]) - 1 : FALSE
          /\ path'[q] # <<>> => path'[q][1] = input[q].leaf
      <4>1. CASE path'[q] = <<>>
        <5>1. Len(path'[q]) = 0
          BY <4>1, EmptySeqHasNone
        <5>. QED
          BY <4>1, <5>1
      <4>2. CASE path'[q] = <<input[q].leaf>>
        <5>1. Len(path'[q]) = 1 /\ path'[q][1] = input[q].leaf
          BY <4>2, SingleSeq
        <5>. QED
          BY <5>1
      <4>. QED
        BY <3>4, <4>1, <4>2
    <3>6. Range(roots'[q]) \subseteq offered'[q] /\ Enabled' \subseteq offered'[q]
      BY <1>0, <2>1, <3>2, <3>3 DEF Provenance, Enabled
    <3>7. pc'[q] = "walk" => path'[q] # <<>>
      BY <3>3, SingleSeq
    <3>8. status'[q] # "trusted" /\ pc'[q] \in {"walk", "decide"}
      BY <3>3, StatusAssumption
    <3>. QED
      BY <3>3, <3>5, <3>6, <3>7, <3>8 DEF Provenance
  <2>6. CASE ReachAnchor(q) \/ DeadEnd(q) \/ TooLong(q)
    <3>1. pc[q] = "walk"
      BY <2>6 DEF ReachAnchor, DeadEnd, TooLong, Walking
    <3>2. CASE ReachAnchor(q)
      BY <1>0, <3>1, <3>2, EndWalkKeepsProvenance DEF ReachAnchor
    <3>3. CASE TooLong(q)
      BY <1>0, <3>1, <3>3, EndWalkKeepsProvenance DEF TooLong
    <3>4. CASE DeadEnd(q)
      <4> DEFINE root == {Finding("untrusted_root", Current(q))}
                 gap == {Finding("no_issuer", Current(q))}
      <4>1. EndWalk(q, "untrusted", root) \/ EndWalk(q, "incomplete", gap)
        BY <3>4 DEF DeadEnd
      <4> HIDE DEF root, gap
      <4>. QED
        BY <1>0, <3>1, <4>1, EndWalkKeepsProvenance
    <3>. QED
      BY <2>6, <3>2, <3>3, <3>4
  <2>7. CASE TakeIssuer(q)
    <3>1. PICK i \in Issuers(q) : path' = [path EXCEPT ![q] = Append(@, Pool(q)[i])]
      BY <2>7 DEF TakeIssuer
    <3>2. Pool(q)[i] \in Certs /\ Issued(Current(q), Pool(q)[i])
      BY <3>1, PoolIsSeq DEF Issuers
    <3>3. /\ path[q] \in Seq(Certs) /\ path[q] # <<>> /\ status[q] = None /\ pc[q] = "walk"
          /\ path'[q] = Append(path[q], Pool(q)[i])
      BY <1>0, <2>7, <3>1 DEF TakeIssuer, Walking, TypeOK, Provenance, Stage
    <3>4. /\ roots' = roots /\ status' = status /\ offered' = offered /\ input' = input
          /\ pc' = pc
      BY <2>7 DEF TakeIssuer, given
    <3>5. ASSUME NEW k \in 1 .. Len(path'[q]) - 1
          PROVE  Issued(path'[q][k], path'[q][k + 1])
      <4>1. CASE k = Len(path[q])
        BY <3>2, <3>3, <4>1, AppendAdds DEF Current
      <4>2. CASE k # Len(path[q])
        <5>1. k \in 1 .. Len(path[q]) - 1
          BY <3>2, <3>3, <3>5, <4>2, AppendAdds
        <5>2. path'[q][k] = path[q][k] /\ path'[q][k + 1] = path[q][k + 1]
          BY <3>2, <3>3, <5>1, AppendAdds
        <5>. QED
          BY <1>0, <5>1, <5>2 DEF Provenance
      <4>. QED
        BY <4>1, <4>2
    <3>6. path'[q] # <<>> /\ path'[q][1] = input[q].leaf
      BY <1>0, <3>2, <3>3, AppendAdds DEF Provenance
    <3>. QED
      BY <1>0, <2>1, <3>3, <3>4, <3>5, <3>6, StatusAssumption
         DEF Provenance, InFlight, Enabled
  <2>. QED
    BY <1>2, <2>2, <2>3, <2>4, <2>5, <2>6, <2>7 DEF Moves
<1>3. ASSUME NEW c \in Anchorable, NEW state \in {"absent", "enabled", "disabled"},
             EditAnchor(c, state)
      PROVE  Provenance(q)'
  <2>1. UNCHANGED <<pc, input, roots, path, status>> /\ offered[q] \subseteq offered'[q]
    BY <1>3 DEF EditAnchor, chain, given, TypeOK
  <2>2. InFlight(q) => Enabled' \subseteq offered'[q]
    BY <1>0, <1>3 DEF EditAnchor, Enabled, InFlight, TypeOK, Provenance, Ended
  <2>3. status[q] = "trusted" => Anchored(Current(q), offered'[q])
    BY <1>0, <2>1, AnchoredInMore DEF Provenance
  <2>. QED
    BY <1>0, <2>1, <2>2, <2>3 DEF Provenance, InFlight, Current
<1>4. CASE EditAllowlist \/ UNCHANGED vars
  <2>1. UNCHANGED <<pc, input, roots, path, status, offered, anchors>>
    BY <1>4 DEF EditAllowlist, vars, chain, given, store
  <2>. QED
    BY <1>0, <2>1 DEF Provenance, InFlight, Current, Enabled
<1>. QED
  BY <1>1, <1>2, <1>3, <1>4, StepCases

-----------------------------------------------------------------------------
(* Sightings. *)

Early == {"idle", "lookup", "others", "save"}

\* Nobody goes back to the certificates.
LEMMA NeverBack ==
    ASSUME TypeOK, NEW r \in Requests, Moves(r), pc[r] \notin Early
    PROVE  pc'[r] \notin Early
BY DEF Moves, Submit, Lookup, ReadOthers, Save, ReadRoots, ReachAnchor, DeadEnd, TakeIssuer,
       TooLong, EndWalk, Walking, CheckRevocation, ReadAllowlist, Answer, Fails, Forget,
       Goto, Early, TypeOK

LEMMA SightedStep ==
    ASSUME TypeOK, Sighted, \A q \in Requests : Stage(q) /\ Sighting(q), [Next]_vars
    PROVE  Sighted'
<1>0. Sighted <=> \A c \in Rows : insertedBy[c] \in Requests /\ pc[insertedBy[c]] \notin Early
  BY DEF Sighted, Early
<1>1. ASSUME NEW r \in Requests, Moves(r) PROVE Sighted'
  <2>1. \A q \in Requests : pc[q] \notin Early => pc'[q] \notin Early
    BY <1>1, NeverBack, OthersStay
  <2>2. CASE UNCHANGED seen
    BY <1>0, <2>1, <2>2 DEF Sighted, Rows, seen, Early
  <2>3. CASE Save(r) /\ ~UNCHANGED seen
    <3> DEFINE leaf == input[r].leaf
    <3>1. /\ timesSeen' = [timesSeen EXCEPT ![leaf] = read[r] + 1]
          /\ insertedBy' = [insertedBy EXCEPT ![leaf] = IF read[r] = 0 THEN r ELSE @]
          /\ pc' = [pc EXCEPT ![r] = "roots"]
      BY <2>3, SaveCases
    <3>2. pc[r] = "save" /\ leaf \in Certs /\ read[r] \in Nat
      BY <2>3, LeafIsCert DEF Save, TypeOK
    <3>3. ASSUME NEW c \in Rows'
          PROVE  insertedBy'[c] \in Requests /\ pc'[insertedBy'[c]] \notin Early
      <4>1. CASE c = leaf /\ read[r] = 0
        <5>1. insertedBy'[c] = r
          BY <3>1, <3>2, <4>1 DEF TypeOK
        <5>2. pc'[r] = "roots"
          BY <3>1 DEF TypeOK
        <5>. QED
          BY <5>1, <5>2 DEF Early
      <4>2. CASE ~(c = leaf /\ read[r] = 0)
        <5>1. insertedBy'[c] = insertedBy[c]
          BY <3>1, <3>2, <4>2 DEF Rows, TypeOK
        <5>2. c \in Rows
          <6>1. CASE c = leaf
            <7>1. Sighting(r) /\ read[r] > 0
              BY <3>2, <4>2, <6>1
            <7>. QED
              BY <3>2, <6>1, <7>1 DEF Sighting, Rows
          <6>2. CASE c # leaf
            BY <3>1, <6>2 DEF Rows, TypeOK
          <6>. QED
            BY <6>1, <6>2
        <5>. QED
          BY <1>0, <2>1, <5>1, <5>2
      <4>. QED
        BY <4>1, <4>2
    <3>. QED
      BY <3>3 DEF Sighted, Early
  <2>. QED
    BY <1>1, <2>2, <2>3, SeenStays
<1>2. CASE UNCHANGED <<seen, pc>>
  BY <1>2 DEF Sighted, Rows, seen
<1>. QED
  BY <1>1, <1>2, StepCases, EditsKeepRequests

LEMMA SightingStep ==
    ASSUME TypeOK, \A q \in Requests : Stage(q) /\ Sighting(q), [Next]_vars, NEW q \in Requests
    PROVE  Sighting(q)'
<1> DEFINE leaf == input[q].leaf
<1>0. Stage(q) /\ Sighting(q)
  OBVIOUS
<1>1. Rows \subseteq Rows'
  BY RowsStay
<1>2. ASSUME UNCHANGED <<pc[q], input[q], known[q], read[q], findings[q]>>
      PROVE  Sighting(q)'
  <2>1. pc[q] = "save" /\ read[q] > 0 => leaf \in Rows'
    BY <1>0, <1>1, LeafIsCert DEF Sighting, Rows
  <2>. QED
    BY <1>0, <1>1, <1>2, <2>1 DEF Sighting, Rows
<1>3. CASE Moves(q)
  <2>1. CASE Submit(q)
    <3>1. known'[q] = Rows
      BY <2>1 DEF Submit, Rows, TypeOK
    <3>2. pc'[q] \notin {"others", "save"}
      BY <2>1 DEF Submit, Goto, TypeOK
    <3>. QED
      BY <1>1, <3>1, <3>2 DEF Sighting
  <2>2. CASE Lookup(q)
    <3>1. /\ read'[q] = timesSeen[leaf] /\ timesSeen' = timesSeen
          /\ known' = known /\ input' = input
          /\ pc'[q] = IF timesSeen[leaf] = 0 THEN "others" ELSE "save"
      BY <2>2 DEF Lookup, Goto, TypeOK, given, seen
    <3>2. timesSeen[leaf] \in Nat
      BY <2>2, LeafIsCert DEF Lookup, TypeOK
    <3>. QED
      BY <1>0, <1>1, <3>1, <3>2 DEF Sighting
  <2>3. CASE ReadOthers(q)
    <3>1. /\ read'[q] = 0 /\ known'[q] = known[q] /\ input'[q] = input[q]
          /\ pc'[q] = "save"
      BY <1>0, <2>3 DEF ReadOthers, Goto, TypeOK, given, Sighting
    <3>2. ASSUME NEW c \in known[q], Key[c] = Key[leaf], Subject[c] # Subject[leaf]
          PROVE  Finding("key_reuse", leaf) \in findings'[q]
      <4>1. c \in Rows
        BY <1>0, <3>2 DEF Sighting
      <4>. QED
        BY <2>3, <3>2, <4>1 DEF ReadOthers, Add, TypeOK
    <3>3. known'[q] \subseteq Rows'
      BY <1>0, <1>1, <3>1 DEF Sighting
    <3>4. ~(read'[q] > 0)
      BY <3>1
    <3>. QED
      BY <3>1, <3>2, <3>3, <3>4 DEF Sighting
  <2>4. CASE ~Submit(q) /\ ~Lookup(q) /\ ~ReadOthers(q) /\ pc'[q] # "failed"
    <3>1. known' = known /\ pc'[q] \notin {"others", "save"}
      <4>1. CASE Save(q)
        BY <2>4, <4>1, SaveCases, ForgottenIsClean DEF given, TypeOK
      <4>2. CASE ReadRoots(q)
        BY <4>2 DEF ReadRoots, Goto, given, TypeOK
      <4>3. CASE ReachAnchor(q) \/ DeadEnd(q) \/ TooLong(q) \/ TakeIssuer(q)
        BY <4>3 DEF ReachAnchor, DeadEnd, TooLong, TakeIssuer, EndWalk, Walking, Goto, given, TypeOK
      <4>4. CASE CheckRevocation(q) \/ ReadAllowlist(q) \/ Answer(q)
        BY <4>4 DEF CheckRevocation, ReadAllowlist, Answer, Goto, given, TypeOK
      <4>5. CASE Fails(q)
        BY <2>4, <4>5, ForgottenIsClean DEF Fails
      <4>. QED
        BY <1>3, <2>4, <4>1, <4>2, <4>3, <4>4, <4>5 DEF Moves
    <3>. QED
      BY <1>0, <1>1, <3>1 DEF Sighting
  <2>5. CASE pc'[q] = "failed"
    <3>1. Forget(q)
      <4>1. CASE Submit(q) \/ Lookup(q) \/ ReadOthers(q) \/ ReadRoots(q)
        BY <2>5, <4>1, InputsAssumption, ZenonT(40) DEF Submit, Lookup, ReadOthers, ReadRoots, Goto, TypeOK
      <4>2. CASE Save(q)
        BY <2>5, <4>2, SaveCases DEF TypeOK
      <4>3. CASE ReachAnchor(q) \/ DeadEnd(q) \/ TooLong(q) \/ TakeIssuer(q)
        BY <2>5, <4>3
           DEF ReachAnchor, DeadEnd, TooLong, TakeIssuer, EndWalk, Walking, Goto, TypeOK
      <4>4. CASE CheckRevocation(q) \/ ReadAllowlist(q) \/ Answer(q)
        BY <2>5, <4>4 DEF CheckRevocation, ReadAllowlist, Answer, Goto, TypeOK
      <4>5. CASE Fails(q)
        BY <4>5 DEF Fails
      <4>. QED
        BY <1>3, <4>1, <4>2, <4>3, <4>4, <4>5 DEF Moves
    <3>. QED
      BY <2>5, <3>1, ForgottenIsClean DEF Sighting
  <2>. QED
    BY <2>1, <2>2, <2>3, <2>4, <2>5
<1>4. ASSUME NEW r \in Requests \ {q}, Moves(r)
      PROVE  UNCHANGED <<pc[q], input[q], known[q], read[q], findings[q]>>
  BY <1>4, OthersStay
<1>. QED
  BY <1>2, <1>3, <1>4, StepCases, EditsKeepRequests DEF given

-----------------------------------------------------------------------------
(* Reasons. *)

LEMMA CodesGrow ==
    ASSUME TypeOK, NEW r \in Requests, NEW new, Add(r, new)
    PROVE  /\ findings'[r] = findings[r] \cup new
           /\ Codes(r)' = Codes(r) \cup {f.code : f \in new}
<1>1. findings'[r] = findings[r] \cup new
  BY DEF Add, TypeOK
<1>. QED
  BY <1>1 DEF Codes

LEMMA CodeAdded ==
    ASSUME TypeOK, NEW r \in Requests, NEW code, NEW cert, Add(r, {Finding(code, cert)})
    PROVE  Codes(r)' = Codes(r) \cup {code}
<1>1. {f.code : f \in {Finding(code, cert)}} = {code}
  BY DEF Finding
<1>. QED
  BY <1>1, CodesGrow

Deciding == {"forged", "revoked", "untrusted_root", "no_issuer"}

\* Findings of other codes change no reason.
LEMMA NeutralFindings ==
    ASSUME TypeOK, NEW r \in Requests, Reasons(r), InFlight(r),
           NEW new, Add(r, new), \A f \in new : f.code \notin Deciding,
           input'[r] = input[r], revocation'[r] = revocation[r],
           status'[r] \in {"untrusted", "incomplete"} <=> status[r] \in {"untrusted", "incomplete"}
    PROVE  Reasons(r)'
<1>1. Codes(r)' \cap Deciding = Codes(r) \cap Deciding
  BY CodesGrow
<1>2. \A c \in Deciding : c \in Codes(r)' <=> c \in Codes(r)
  BY <1>1
<1>3. /\ "forged" \in Codes(r) <=> input[r].kind \in {"signature", "key"} /\ ~input[r].ok
      /\ "revoked" \in Codes(r) <=> revocation[r] = "revoked"
      /\ "untrusted_root" \in Codes(r) \/ "no_issuer" \in Codes(r)
           <=> status[r] \in {"untrusted", "incomplete"}
  BY DEF Reasons
<1>4. /\ "forged" \in Codes(r)' <=> input'[r].kind \in {"signature", "key"} /\ ~input'[r].ok
      /\ "revoked" \in Codes(r)' <=> revocation'[r] = "revoked"
      /\ "untrusted_root" \in Codes(r)' \/ "no_issuer" \in Codes(r)'
           <=> status'[r] \in {"untrusted", "incomplete"}
  BY <1>2, <1>3 DEF Deciding
<1>. QED
  BY <1>4 DEF Reasons

LEMMA ReasonsStep ==
    ASSUME TypeOK, \A q \in Requests : Stage(q) /\ Reasons(q), [Next]_vars, NEW q \in Requests
    PROVE  Reasons(q)'
<1>0. Stage(q) /\ Reasons(q)
  OBVIOUS
<1>1. ASSUME UNCHANGED <<pc[q], input[q], status[q], revocation[q], findings[q]>>
      PROVE  Reasons(q)'
  BY <1>0, <1>1 DEF Reasons, InFlight, Codes
<1>2. CASE Moves(q)
  <2>1. CASE Submit(q)
    <3>1. PICK i \in Inputs :
            /\ input' = [input EXCEPT ![q] = i]
            /\ Add(q, IF i.kind \in {"signature", "key"} /\ ~i.ok
                      THEN {Finding("forged", i.leaf)} ELSE {})
      BY <2>1 DEF Submit
    <3>2. /\ input'[q] = i /\ status'[q] = None /\ revocation'[q] = None /\ findings[q] = {}
      BY <1>0, <2>1, <3>1 DEF Submit, Stage, TypeOK, chain
    <3>3. Codes(q) = {}
      BY <3>2 DEF Codes
    <3>4. Codes(q)' = IF i.kind \in {"signature", "key"} /\ ~i.ok THEN {"forged"} ELSE {}
      <4>1. CASE i.kind \in {"signature", "key"} /\ ~i.ok
        BY <3>1, <3>3, <4>1, CodeAdded
      <4>2. CASE ~(i.kind \in {"signature", "key"} /\ ~i.ok)
        BY <3>1, <3>3, <4>2, CodesGrow
      <4>. QED
        BY <4>1, <4>2
    <3>. QED
      BY <3>2, <3>4, StatusAssumption DEF Reasons
  <2>2. CASE UNCHANGED <<findings, input, revocation, status>> /\ InFlight(q)
    BY <1>0, <2>2 DEF Reasons, Codes
  <2>3. CASE ~InFlight(q)'
    BY <2>3 DEF Reasons
  <2>4. CASE ReadOthers(q)
    <3> DEFINE others == {c \in Rows : /\ Key[c] = Key[input[q].leaf]
                                       /\ Subject[c] # Subject[input[q].leaf]}
               new == IF others # {} THEN {Finding("key_reuse", input[q].leaf)} ELSE {}
    <3>1. Add(q, new) /\ UNCHANGED <<input, revocation, status>> /\ InFlight(q)
      BY <2>4 DEF ReadOthers, InFlight, Ended, given, chain
    <3>2. \A f \in new : f.code \notin Deciding
      BY DEF Deciding, Finding
    <3> HIDE DEF new
    <3>. QED
      BY <1>0, <3>1, <3>2, NeutralFindings
  <2>5. CASE TakeIssuer(q)
    <3>1. PICK i \in Issuers(q) : Add(q, Violations(Pool(q)[i], Len(path[q]) - 1))
      BY <2>5 DEF TakeIssuer
    <3>2. \A f \in Violations(Pool(q)[i], Len(path[q]) - 1) : f.code \notin Deciding
      BY DEF Violations, Deciding, Finding
    <3>3. UNCHANGED <<input, revocation, status>> /\ InFlight(q)
      BY <2>5 DEF TakeIssuer, Walking, InFlight, Ended, given
    <3>. QED
      BY <1>0, <3>1, <3>2, <3>3, NeutralFindings
  <2>6. CASE ReadAllowlist(q)
    <3>1. PICK new \in {{}, {Finding("issuer", input[q].leaf)}} : Add(q, new)
      BY <2>6 DEF ReadAllowlist
    <3>2. \A f \in new : f.code \notin Deciding
      BY DEF Deciding, Finding
    <3>3. UNCHANGED <<input, revocation, status>> /\ InFlight(q)
      BY <2>6 DEF ReadAllowlist, InFlight, Ended, given, chain
    <3>. QED
      BY <1>0, <3>1, <3>2, <3>3, NeutralFindings
  <2>7. CASE ReachAnchor(q) \/ TooLong(q)
    <3>1. PICK new \in {{}, {Finding("expired", c) : c \in Range(path[q]) \cap input[q].expired}} :
             \E outcome \in {"trusted", "error"} : EndWalk(q, outcome, new)
      BY <2>7 DEF ReachAnchor, TooLong
    <3>2. \A f \in new : f.code \notin Deciding
      BY DEF Deciding, Finding
    <3>3. /\ UNCHANGED <<input, revocation>> /\ Add(q, new) /\ status'[q] \in {"trusted", "error"}
      BY <3>1 DEF EndWalk, given, TypeOK
    <3>4. InFlight(q) /\ status[q] = None
      BY <1>0, <2>7 DEF ReachAnchor, TooLong, Walking, InFlight, Ended, Stage
    <3>. QED
      BY <1>0, <3>2, <3>3, <3>4, NeutralFindings, StatusAssumption
  <2>8. CASE DeadEnd(q)
    <3>1. PICK code \in {"untrusted_root", "no_issuer"} :
             \E outcome \in {"untrusted", "incomplete"} :
                EndWalk(q, outcome, {Finding(code, Current(q))})
      BY <2>8 DEF DeadEnd
    <3>2. /\ UNCHANGED <<input, revocation>> /\ Add(q, {Finding(code, Current(q))})
          /\ status'[q] \in {"untrusted", "incomplete"}
      BY <3>1 DEF EndWalk, given, TypeOK
    <3>3. Codes(q)' = Codes(q) \cup {code}
      BY <3>2, CodeAdded
    <3>4. InFlight(q)
      BY <2>8 DEF DeadEnd, Walking, InFlight, Ended
    <3>5. /\ "forged" \in Codes(q)' <=> "forged" \in Codes(q)
          /\ "revoked" \in Codes(q)' <=> "revoked" \in Codes(q)
          /\ {"untrusted_root", "no_issuer"} \cap Codes(q)' # {}
      BY <3>3
    <3>. QED
      BY <1>0, <3>2, <3>4, <3>5 DEF Reasons
  <2>9. CASE CheckRevocation(q)
    <3>1. PICK s \in {"good", "revoked", "unknown", "not_checked"} :
            /\ revocation' = [revocation EXCEPT ![q] = s]
            /\ Add(q, IF s = "revoked" THEN {Finding("revoked", input[q].leaf)} ELSE {})
      BY <2>9 DEF CheckRevocation
    <3>2. /\ UNCHANGED <<input, status>> /\ revocation'[q] = s
          /\ InFlight(q) /\ revocation[q] # "revoked"
      BY <1>0, <2>9, <3>1, StatusAssumption
         DEF CheckRevocation, given, chain, InFlight, Ended, Stage, TypeOK
    <3>3. Codes(q)' = Codes(q) \cup IF s = "revoked" THEN {"revoked"} ELSE {}
      <4>1. CASE s = "revoked"
        BY <3>1, <4>1, CodeAdded
      <4>2. CASE s # "revoked"
        BY <3>1, <4>2, CodesGrow
      <4>. QED
        BY <4>1, <4>2
    <3>4. /\ "forged" \in Codes(q)' <=> "forged" \in Codes(q)
          /\ "revoked" \in Codes(q)' <=> s = "revoked"
          /\ {"untrusted_root", "no_issuer"} \cap Codes(q)'
               = {"untrusted_root", "no_issuer"} \cap Codes(q)
      BY <1>0, <3>2, <3>3 DEF Reasons
    <3>. QED
      BY <1>0, <3>2, <3>4 DEF Reasons
  <2>10. CASE Lookup(q) \/ ReadRoots(q) \/ (Save(q) /\ ~Forget(q))
    <3>1. UNCHANGED <<findings, input, revocation, status>> /\ InFlight(q)
      BY <2>10 DEF Lookup, ReadRoots, Save, given, chain, InFlight, Ended
    <3>. QED
      BY <2>2, <3>1
  <2>11. CASE Fails(q) \/ (Save(q) /\ Forget(q)) \/ Answer(q)
    <3>1. ~InFlight(q)'
      BY <2>11 DEF Fails, Forget, Answer, Goto, InFlight, Ended, TypeOK
    <3>. QED
      BY <2>3, <3>1
  <2>. QED
    BY <1>2, <2>1, <2>4, <2>5, <2>6, <2>7, <2>8, <2>9, <2>10, <2>11 DEF Moves
<1>3. ASSUME NEW r \in Requests \ {q}, Moves(r)
      PROVE  UNCHANGED <<pc[q], input[q], status[q], revocation[q], findings[q]>>
  BY <1>3, OthersStay
<1>. QED
  BY <1>1, <1>2, <1>3, StepCases, EditsKeepRequests DEF given, chain

-----------------------------------------------------------------------------
(* The invariant. *)

LEMMA InitInv == Init => Inv
<1> SUFFICES ASSUME Init PROVE Inv
  OBVIOUS
<1>1. TypeOK
  BY InitTypeOK
<1>2. Rows = {} /\ Sighted
  BY DEF Init, Rows, Sighted
<1>3. ASSUME NEW r \in Requests
      PROVE  Stage(r) /\ Provenance(r) /\ Sighting(r) /\ Reasons(r)
  <2>1. /\ pc[r] = "idle" /\ status[r] = None /\ revocation[r] = None /\ findings[r] = {}
        /\ verdict[r] = None /\ known[r] = {} /\ path[r] = <<>> /\ roots[r] = <<>>
        /\ input[r].kind = "unsigned" /\ offered[r] = {}
    BY <1>3 DEF Init, Idle
  <2>2. Stage(r)
    BY <2>1 DEF Stage
  <2>3. Sighting(r) /\ Reasons(r)
    BY <2>1 DEF Sighting, Reasons, InFlight
  <2>4. Provenance(r)
    <3>1. \A k \in 1 .. Len(path[r]) - 1 : FALSE
      <4>1. Len(path[r]) = 0
        BY <2>1, EmptySeqHasNone
      <4>. QED
        BY <4>1
    <3>2. Range(roots[r]) = {}
      BY <2>1 DEF Range
    <3>. QED
      BY <2>1, <3>1, <3>2, StatusAssumption DEF Provenance, InFlight, Ended
  <2>. QED
    BY <2>2, <2>3, <2>4
<1>. QED
  BY <1>1, <1>2, <1>3 DEF Inv

LEMMA NextInv == Inv /\ [Next]_vars => Inv'
<1> SUFFICES ASSUME Inv, [Next]_vars PROVE Inv'
  OBVIOUS
<1>1. TypeOK /\ Sighted /\ \A r \in Requests : Stage(r) /\ Provenance(r) /\ Sighting(r) /\ Reasons(r)
  BY DEF Inv
<1>2. TypeOK'
  BY <1>1, NextTypeOK
<1>3. Sighted'
  BY <1>1, SightedStep
<1>4. ASSUME NEW r \in Requests
      PROVE  Stage(r)' /\ Provenance(r)' /\ Sighting(r)' /\ Reasons(r)'
  BY <1>1, <1>4, StageStep, ProvenanceStep, SightingStep, ReasonsStep
<1>. QED
  BY <1>2, <1>3, <1>4 DEF Inv

LEMMA InvAlways == Spec => []Inv
BY InitInv, NextInv, PTL DEF Spec

\* The trust store, the certificates on file and what the requests of all
\* workers hold keep their types.
THEOREM TypeCorrect == Spec => []TypeOK
<1>1. Inv => TypeOK
  BY DEF Inv
<1>. QED
  BY <1>1, InvAlways, PTL

-----------------------------------------------------------------------------
(* What follows for the answers. *)

\* An answer is given once and stays as it was given.
LEMMA AnsweredStays ==
    ASSUME TypeOK, NEW q \in Requests, [Next]_vars, pc'[q] = "answered", ~Answer(q)
    PROVE  /\ pc[q] = "answered"
           /\ UNCHANGED <<input[q], verdict[q], findings[q], offered[q], status[q],
                        roots[q]>>
<1>1. ASSUME NEW r \in Requests \ {q}, Moves(r)
      PROVE  /\ pc[q] = "answered"
             /\ UNCHANGED <<input[q], verdict[q], findings[q], offered[q], status[q],
                        roots[q]>>
  BY <1>1, OthersStay
<1>2. ~Moves(q)
  <2>1. ~(Submit(q) \/ Lookup(q) \/ ReadOthers(q) \/ ReadRoots(q))
    BY InputsAssumption, ZenonT(40) DEF Submit, Lookup, ReadOthers, ReadRoots, Goto, TypeOK
  <2>2. ~(ReachAnchor(q) \/ DeadEnd(q) \/ TooLong(q) \/ TakeIssuer(q))
    BY DEF ReachAnchor, DeadEnd, TooLong, TakeIssuer, EndWalk, Walking, Goto, TypeOK
  <2>3. ~(CheckRevocation(q) \/ ReadAllowlist(q))
    BY DEF CheckRevocation, ReadAllowlist, Goto, TypeOK
  <2>4. ASSUME Save(q) PROVE FALSE
    <3>1. CASE Forget(q)
      BY <3>1, ForgottenIsClean
    <3>2. CASE pc' = [pc EXCEPT ![q] = "roots"]
      BY <3>2 DEF TypeOK
    <3>. QED
      BY <2>4, <3>1, <3>2, SaveCases
  <2>5. ~Fails(q)
    BY ForgottenIsClean DEF Fails
  <2>. QED
    BY <2>1, <2>2, <2>3, <2>4, <2>5 DEF Moves
<1>3. ASSUME UNCHANGED <<seen, pc, given, read, chain, revocation, findings, verdict>>,
             UNCHANGED offered \/ \E c \in Anchorable :
                \E state \in {"absent", "enabled", "disabled"} : EditAnchor(c, state)
      PROVE  /\ pc[q] = "answered"
             /\ UNCHANGED <<input[q], verdict[q], findings[q], offered[q], status[q],
                        roots[q]>>
  <2>1. pc[q] = "answered"
    BY <1>3
  <2>2. offered'[q] = offered[q]
    BY <1>3, <2>1 DEF EditAnchor, Ended
  <2>. QED
    BY <1>3, <2>1, <2>2 DEF given, chain
<1>. QED
  BY <1>1, <1>2, <1>3, StepCases, EditsKeepRequests DEF EditAllowlist, vars

\* The second half of TrustIsGenuine.
PdfGenuine(r) ==
    input[r].kind = "pdf" /\ verdict[r] = "valid" =>
        \A s \in input[r].signatures :
            /\ s.ok
            /\ \/ Anchored(s.root, offered[r])
               \/ roots[r] = <<>> /\ Anchored(s.root, DefaultRoots)

LEMMA PdfGenuineStep ==
    ASSUME Inv, NEW q \in Requests, PdfGenuine(q), [Next]_vars
    PROVE  PdfGenuine(q)'
<1>1. TypeOK /\ Stage(q) /\ Provenance(q)
  BY DEF Inv
<1>2. CASE Answer(q)
  <2>1. /\ input' = input /\ offered' = offered /\ roots' = roots
        /\ verdict'[q] = Verdict(q)
    BY <1>1, <1>2 DEF Answer, given, chain, TypeOK
  <2>2. ASSUME input[q].kind = "pdf", Verdict(q) = "valid", NEW s \in input[q].signatures
        PROVE  /\ s.ok
               /\ \/ Anchored(s.root, offered[q])
                  \/ roots[q] = <<>> /\ Anchored(s.root, DefaultRoots)
    <3>1. Broken(q) = {} /\ Untrusted(q) = {}
      BY <2>2 DEF Verdict, PdfVerdict
    <3>2. s.ok
      BY <2>2, <3>1 DEF Broken
    <3>3. Anchored(s.root, PdfRoots(q))
      BY <2>2, <3>1, <3>2 DEF Untrusted
    <3>4. Range(roots[q]) \subseteq offered[q]
      BY <1>1 DEF Provenance
    <3>5. CASE roots[q] = <<>>
      BY <3>2, <3>3, <3>5 DEF PdfRoots
    <3>6. CASE roots[q] # <<>>
      BY <3>2, <3>3, <3>4, <3>6, AnchoredInMore DEF PdfRoots
    <3>. QED
      BY <3>5, <3>6
  <2>. QED
    BY <2>1, <2>2 DEF PdfGenuine
<1>3. CASE verdict'[q] = "valid" /\ ~Answer(q)
  <2>1. pc'[q] = "answered"
    <3>1. Stage(q)'
      BY NextInv DEF Inv
    <3>. QED
      BY <1>3, <3>1, StatusAssumption DEF Stage
  <2>2. UNCHANGED <<input[q], verdict[q], offered[q], roots[q]>>
    BY <1>1, <1>3, <2>1, AnsweredStays
  <2>. QED
    BY <2>2 DEF PdfGenuine
<1>. QED
  BY <1>2, <1>3 DEF PdfGenuine

\* A trusted chain leads by issuance from the certificate asked about to the key
\* of an anchor that was enabled during the request, and every signature of a PDF
\* that is found valid to such a key or, when the request found no anchor enabled,
\* to one of pyHanko's default list, whatever that list is (build_and_validate,
\* _verify_pdf, validate_pdf).
THEOREM TrustIsGenuineAlways == Spec => []TrustIsGenuine
<1> DEFINE Pdfs == \A r \in Requests : PdfGenuine(r)
<1>1. Init => Pdfs
  BY DEF Init, PdfGenuine, Idle
<1>2. Inv /\ Pdfs /\ [Next]_vars => Pdfs'
  BY PdfGenuineStep
<1>3. Inv /\ Pdfs => TrustIsGenuine
  <2> SUFFICES ASSUME Inv, Pdfs, NEW r \in Requests
               PROVE  /\ status[r] = "trusted" =>
                          /\ path[r][1] = input[r].leaf
                          /\ \A k \in 1 .. Len(path[r]) - 1 : Issued(path[r][k], path[r][k + 1])
                          /\ Anchored(Current(r), offered[r])
                      /\ input[r].kind = "pdf" /\ verdict[r] = "valid" =>
                          \A s \in input[r].signatures :
                              /\ s.ok
                              /\ \/ Anchored(s.root, offered[r])
                                 \/ roots[r] = <<>> /\ Anchored(s.root, DefaultRoots)
    BY DEF TrustIsGenuine
  <2>1. Provenance(r) /\ PdfGenuine(r)
    BY DEF Inv
  <2>. QED
    BY <2>1 DEF Provenance, PdfGenuine
<1>. QED
  BY <1>1, <1>2, <1>3, InvAlways, PTL DEF Spec

\* A request that has inserted a row keeps its findings until it fails.
LEMMA FindingsStay ==
    ASSUME TypeOK, NEW r \in Requests, Moves(r), pc[r] \notin Early
    PROVE  \/ known'[r] = known[r] /\ findings[r] \subseteq findings'[r]
           \/ known'[r] = {}
<1> USE DEF TypeOK, given, Add
<1>1. CASE Submit(r) \/ Lookup(r) \/ ReadOthers(r) \/ Save(r)
  BY <1>1 DEF Submit, Lookup, ReadOthers, Save, Early
<1>2. CASE ReadRoots(r) \/ TakeIssuer(r)
  BY <1>2 DEF ReadRoots, TakeIssuer
<1>3. CASE ReachAnchor(r) \/ DeadEnd(r) \/ TooLong(r)
  BY <1>3 DEF ReachAnchor, DeadEnd, TooLong, EndWalk
<1>4. CASE CheckRevocation(r) \/ ReadAllowlist(r) \/ Answer(r)
  BY <1>4 DEF CheckRevocation, ReadAllowlist, Answer
<1>5. CASE Fails(r)
  BY <1>5, ForgottenIsClean DEF Fails
<1>. QED
  BY <1>1, <1>2, <1>3, <1>4, <1>5 DEF Moves

\* Of two certificates on file with one key and two subjects the one first seen
\* later was reported, unless the two sightings overlapped or the request that
\* made it failed (_persist_certificate).
THEOREM KeyReuseSeenAlways == Spec => []KeyReuseSeen
<1>1. Init => KeyReuseSeen
  BY DEF Init, KeyReuseSeen, Rows
<1>2. Inv /\ KeyReuseSeen /\ [Next]_vars => KeyReuseSeen'
  <2> SUFFICES ASSUME Inv, KeyReuseSeen, [Next]_vars PROVE KeyReuseSeen'
    OBVIOUS
  <2>1. /\ TypeOK /\ \A q \in Requests : Stage(q) /\ Sighting(q)
        /\ \A c \in Rows : insertedBy[c] \in Requests /\ pc[insertedBy[c]] \notin Early
    BY DEF Inv, Sighted, Early
  <2>2. CASE UNCHANGED <<seen, known, findings>>
    BY <2>2 DEF KeyReuseSeen, Rows, seen
  <2>3. ASSUME NEW r \in Requests, Moves(r), ~Save(r) PROVE KeyReuseSeen'
    <3> SUFFICES ASSUME NEW c \in Rows, NEW d \in Rows,
                        Key[c] = Key[d], Subject[c] # Subject[d], c \in known'[insertedBy[d]]
                 PROVE  Finding("key_reuse", d) \in findings'[insertedBy[d]]
      BY <2>3, SeenStays DEF KeyReuseSeen, Rows, seen
    <3> DEFINE w == insertedBy[d]
    <3>1. w \in Requests /\ pc[w] \notin Early
      BY <2>1
    <3>2. known'[w] = known[w] /\ findings[w] \subseteq findings'[w]
      <4>1. CASE w = r
        BY <2>1, <2>3, <3>1, <4>1, FindingsStay
      <4>2. CASE w # r
        BY <2>1, <2>3, <3>1, <4>2, OthersStay
      <4>. QED
        BY <4>1, <4>2
    <3>. QED
      BY <3>2 DEF KeyReuseSeen
  <2>4. ASSUME NEW r \in Requests, Save(r), ~UNCHANGED seen PROVE KeyReuseSeen'
    <3> DEFINE leaf == input[r].leaf
    <3>1. /\ timesSeen' = [timesSeen EXCEPT ![leaf] = read[r] + 1]
          /\ insertedBy' = [insertedBy EXCEPT ![leaf] = IF read[r] = 0 THEN r ELSE @]
          /\ UNCHANGED <<known, findings>>
      BY <2>4, SaveCases DEF given
    <3>2. pc[r] = "save" /\ leaf \in Certs /\ read[r] \in Nat
      BY <2>1, <2>4, LeafIsCert DEF Save, TypeOK
    <3>3. \A c \in Rows' : c \in Rows \/ c = leaf
      BY <3>1 DEF Rows, TypeOK
    <3>4. read[r] > 0 => leaf \in Rows
      BY <2>1, <3>2 DEF Sighting, Rows
    <3> SUFFICES ASSUME NEW c \in Rows', NEW d \in Rows',
                        Key[c] = Key[d], Subject[c] # Subject[d], c \in known[insertedBy'[d]]
                 PROVE  Finding("key_reuse", d) \in findings[insertedBy'[d]]
      BY <3>1 DEF KeyReuseSeen
    <3>5. CASE d = leaf /\ read[r] = 0
      <4>1. insertedBy'[d] = r
        BY <2>1, <3>1, <3>2, <3>5 DEF TypeOK
      <4>2. Sighting(r)
        BY <2>1
      <4>. QED
        BY <3>2, <3>5, <4>1, <4>2 DEF Sighting
    <3>6. CASE ~(d = leaf /\ read[r] = 0)
      <4>1. d \in Rows
        BY <3>2, <3>3, <3>4, <3>6
      <4>2. insertedBy'[d] = insertedBy[d]
        BY <2>1, <3>1, <3>2, <3>6 DEF Rows, TypeOK
      <4>3. c \in Rows
        BY <2>1, <4>1, <4>2 DEF Sighting
      <4>. QED
        BY <4>1, <4>2, <4>3 DEF KeyReuseSeen
    <3>. QED
      BY <3>5, <3>6
  <2>5. ASSUME NEW r \in Requests, Save(r), UNCHANGED seen, Moves(r) PROVE KeyReuseSeen'
    <3>1. CASE Forget(r)
      <4>1. /\ \A q \in Requests \ {r} : known'[q] = known[q] /\ findings'[q] = findings[q]
            /\ known'[r] = {}
        BY <2>1, <2>5, <3>1, OthersStay, ForgottenIsClean
      <4>. QED
        BY <2>1, <2>5, <4>1 DEF KeyReuseSeen, Rows, seen
    <3>2. CASE ~Forget(r)
      BY <2>2, <2>5, <3>2, SaveCases DEF given
    <3>. QED
      BY <3>1, <3>2
  <2>. QED
    BY <2>2, <2>3, <2>4, <2>5, StepCases, EditsKeepRequests DEF Moves, given
<1>3. Inv /\ KeyReuseSeen /\ [Next]_vars => KeyReuseSeen'
  BY <1>2
<1>. QED
  BY <1>1, <1>3, InvAlways, PTL DEF Spec

\* What an answer says, for one request.
Explained(r) ==
    pc[r] = "answered" =>
        LET kind == input[r].kind
            against == {"forged", "revoked"}
                         \cup IF kind = "certificate" THEN {"expired"} ELSE {}
            doubts == {"untrusted_root", "no_issuer"}
        IN  /\ verdict[r] = "invalid" <=> Codes(r) \cap against # {}
            /\ verdict[r] = "valid" => /\ kind # "unsigned"
                                       /\ Codes(r) \cap doubts = {}
            /\ verdict[r] = "indeterminate" =>
                 \/ Codes(r) \cap doubts # {} \/ status[r] = "error"
                 \/ kind = "unsigned"
                 \/ kind = "pdf" /\ input[r].signatures = {}

LEMMA AnswerIsExplained ==
    ASSUME TypeOK, NEW q \in Requests, Stage(q), Reasons(q), Answer(q)
    PROVE  Explained(q)'
<1> DEFINE kind == input[q].kind
           codes == Codes(q)
<1>1. /\ pc[q] = "decide" /\ InFlight(q) /\ input' = input /\ status' = status
      /\ verdict'[q] = Verdict(q)
  BY DEF Answer, InFlight, Ended, given, chain, TypeOK
<1>2. kind \in {"signature", "certificate", "key", "pdf", "unsigned"}
  <2>1. CASE input[q] = Idle
    BY <2>1 DEF Idle
  <2>2. CASE input[q] \in Inputs
    BY <2>2, InputsAssumption
  <2>. QED
    BY <2>1, <2>2 DEF TypeOK
<1>3. /\ "forged" \in codes <=> kind \in {"signature", "key"} /\ ~input[q].ok
      /\ "revoked" \in codes <=> revocation[q] = "revoked"
      /\ "untrusted_root" \in codes \/ "no_issuer" \in codes
           <=> status[q] \in {"untrusted", "incomplete"}
  BY <1>1 DEF Reasons
<1>4. IF kind \in {"signature", "certificate"} THEN status[q] # None
      ELSE status[q] = None /\ revocation[q] = None
  BY <1>1 DEF Stage, WithCertificate
<1>5. status[q] \in {None, "trusted", "untrusted", "incomplete", "error"}
  BY DEF TypeOK
<1>6. CASE kind # "pdf"
  <2>1. Codes(q)' = codes
    <3>1. findings'[q] = findings[q]
      BY <1>6 DEF Answer, Add, TypeOK
    <3>. QED
      BY <3>1 DEF Codes
  <2>2. CASE kind \in {"signature", "key"}
    <3>1. Verdict(q) = _decide(q)
      BY <2>2 DEF Verdict
    <3>2. /\ _decide(q) = "invalid" <=> "forged" \in codes \/ "revoked" \in codes
          /\ _decide(q) = "valid" => "untrusted_root" \notin codes /\ "no_issuer" \notin codes
          /\ _decide(q) = "indeterminate" =>
               "untrusted_root" \in codes \/ "no_issuer" \in codes \/ status[q] = "error"
      BY <1>3, <1>5, <2>2, StatusAssumption DEF _decide
    <3>. QED
      BY <1>1, <2>1, <2>2, <3>1, <3>2 DEF Explained
  <2>3. CASE kind = "certificate"
    <3>1. Verdict(q) = CertificateVerdict(q)
      BY <2>3 DEF Verdict
    <3>2. /\ CertificateVerdict(q) = "invalid" <=> "revoked" \in codes \/ "expired" \in codes
          /\ CertificateVerdict(q) = "valid" =>
               "untrusted_root" \notin codes /\ "no_issuer" \notin codes
          /\ CertificateVerdict(q) = "indeterminate" =>
               "untrusted_root" \in codes \/ "no_issuer" \in codes \/ status[q] = "error"
      BY <1>3, <1>4, <1>5, <2>3, StatusAssumption DEF CertificateVerdict
    <3>3. "forged" \notin codes
      BY <1>3, <2>3
    <3>. QED
      BY <1>1, <2>1, <2>3, <3>1, <3>2, <3>3 DEF Explained
  <2>4. CASE kind = "unsigned"
    <3>1. Verdict(q) = "indeterminate"
      BY <2>4 DEF Verdict
    <3>2. "forged" \notin codes /\ "revoked" \notin codes
      BY <1>3, <1>4, <2>4, StatusAssumption
    <3>. QED
      BY <1>1, <2>1, <2>4, <3>1, <3>2 DEF Explained
  <2>. QED
    BY <1>2, <1>6, <2>2, <2>3, <2>4
<1>7. CASE kind = "pdf"
  <2> DEFINE broken == {Finding("forged", s.root) : s \in Broken(q)}
             untrusted == {Finding("untrusted_root", s.root) : s \in Untrusted(q)}
  <2>1. Add(q, broken \cup untrusted) /\ findings[q] = {}
    BY <1>1, <1>7 DEF Answer, Stage
  <2>2. findings'[q] = broken \cup untrusted
    BY <2>1, CodesGrow
  <2>3. \A f \in broken : f.code = "forged"
    BY DEF Finding
  <2>4. \A f \in untrusted : f.code = "untrusted_root"
    BY DEF Finding
  <2>5. /\ "forged" \in Codes(q)' <=> broken # {}
        /\ "untrusted_root" \in Codes(q)' <=> untrusted # {}
        /\ "revoked" \notin Codes(q)' /\ "no_issuer" \notin Codes(q)'
    <3> HIDE DEF broken, untrusted
    <3>. QED
      BY <2>2, <2>3, <2>4 DEF Codes
  <2>6. (broken # {} <=> Broken(q) # {}) /\ (untrusted # {} <=> Untrusted(q) # {})
    OBVIOUS
  <2>7. Verdict(q) = PdfVerdict(q)
    BY <1>7 DEF Verdict
  <2>8. /\ PdfVerdict(q) = "invalid" <=> Broken(q) # {}
        /\ PdfVerdict(q) = "valid" => Untrusted(q) = {}
        /\ PdfVerdict(q) = "indeterminate" => input[q].signatures = {} \/ Untrusted(q) # {}
    BY DEF PdfVerdict
  <2> HIDE DEF broken, untrusted
  <2>. QED
    BY <1>1, <1>7, <2>5, <2>6, <2>7, <2>8 DEF Explained
<1>. QED
  BY <1>6, <1>7

\* The findings of an answer give the reason of its verdict when it is not
\* "valid", and none against it when it is (engine.py).
THEOREM VerdictExplainedAlways == Spec => []VerdictExplained
<1> DEFINE All == \A r \in Requests : Explained(r)
<1>1. Init => All
  BY DEF Init, Explained
<1>2. Inv /\ All /\ [Next]_vars => All'
  <2> SUFFICES ASSUME Inv, All, [Next]_vars, NEW q \in Requests PROVE Explained(q)'
    OBVIOUS
  <2>1. TypeOK /\ Stage(q) /\ Reasons(q) /\ Explained(q)
    BY DEF Inv
  <2>2. CASE Answer(q)
    BY <2>1, <2>2, AnswerIsExplained
  <2>3. CASE ~Answer(q) /\ pc'[q] = "answered"
    <3>1. pc[q] = "answered" /\ UNCHANGED <<input[q], verdict[q], findings[q], status[q]>>
      BY <2>1, <2>3, AnsweredStays
    <3>. QED
      BY <2>1, <3>1 DEF Explained, Codes
  <2>4. CASE pc'[q] # "answered"
    BY <2>4 DEF Explained
  <2>. QED
    BY <2>2, <2>3, <2>4
<1>3. All => VerdictExplained
  BY DEF VerdictExplained, Explained
<1>. QED
  BY <1>1, <1>2, <1>3, InvAlways, PTL DEF Spec

-----------------------------------------------------------------------------
(* The findings on a chain. *)

\* What the certificates of the chain so far break.
Reported(r) == UNION {Violations(path[r][k], k - 2) : k \in 2 .. Len(path[r])}

Exact(r) == {f \in findings[r] : f.code \in ConstraintCodes} = Reported(r)

LEMMA ViolationsAreConstraints ==
    ASSUME NEW i, NEW depth
    PROVE  \A f \in Violations(i, depth) : f.code \in ConstraintCodes
BY DEF Violations, ConstraintCodes, Finding

\* Other findings leave the report as it was.
LEMMA ExactKept ==
    ASSUME TypeOK, NEW r \in Requests, Exact(r), NEW new, Add(r, new),
           \A f \in new : f.code \notin ConstraintCodes, path'[r] = path[r]
    PROVE  Exact(r)'
<1>1. findings'[r] = findings[r] \cup new
  BY CodesGrow
<1>2. {f \in findings'[r] : f.code \in ConstraintCodes}
        = {f \in findings[r] : f.code \in ConstraintCodes}
  BY <1>1
<1>. QED
  BY <1>2 DEF Exact, Reported

LEMMA NothingToReport ==
    ASSUME NEW r \in Requests, path[r] = <<>>
    PROVE  Reported(r) = {}
<1>1. Len(path[r]) = 0
  BY EmptySeqHasNone
<1>. QED
  BY <1>1 DEF Reported

LEMMA TakeIssuerExact ==
    ASSUME TypeOK, NEW q \in Requests, Provenance(q), Exact(q), TakeIssuer(q)
    PROVE  Exact(q)'
<1>1. PICK i \in Issuers(q) : /\ path' = [path EXCEPT ![q] = Append(@, Pool(q)[i])]
                              /\ Add(q, Violations(Pool(q)[i], Len(path[q]) - 1))
  BY DEF TakeIssuer
<1> DEFINE new == Pool(q)[i]
           n == Len(path[q])
<1>2. new \in Certs
  BY <1>1, PoolIsSeq DEF Issuers
<1>3. path[q] \in Seq(Certs) /\ path[q] # <<>> /\ path'[q] = Append(path[q], new)
  BY <1>1 DEF TakeIssuer, Walking, TypeOK, Provenance
<1>4. n \in Nat \ {0} /\ Len(path'[q]) = n + 1 /\ path'[q][n + 1] = new
  BY <1>2, <1>3, AppendAdds
<1>5. \A k \in 2 .. n : path'[q][k] = path[q][k]
  BY <1>2, <1>3, <1>4, AppendAdds
<1> HIDE DEF new, n
<1>6. 2 .. n + 1 = (2 .. n) \cup {n + 1}
  BY <1>4
<1>7. Reported(q)' = Reported(q) \cup Violations(new, n - 1)
  <2>1. Reported(q)' = UNION {Violations(path'[q][k], k - 2) : k \in 2 .. n + 1}
    BY <1>4 DEF Reported
  <2>2. Reported(q) = UNION {Violations(path'[q][k], k - 2) : k \in 2 .. n}
    BY <1>5 DEF Reported, n
  <2>3. Violations(path'[q][n + 1], (n + 1) - 2) = Violations(new, n - 1)
    <3>1. (n + 1) - 2 = n - 1
      BY <1>4
    <3>. QED
      BY <1>4, <3>1
  <2>. QED
    BY <1>6, <2>1, <2>2, <2>3
<1>8. findings'[q] = findings[q] \cup Violations(new, n - 1)
  BY <1>1, CodesGrow DEF new, n
<1>9. {f \in findings'[q] : f.code \in ConstraintCodes}
        = {f \in findings[q] : f.code \in ConstraintCodes} \cup Violations(new, n - 1)
  BY <1>8, ViolationsAreConstraints
<1>. QED
  BY <1>7, <1>9 DEF Exact

LEMMA ExactStep ==
    ASSUME Inv, NEW q \in Requests, Exact(q), [Next]_vars
    PROVE  Exact(q)'
<1>1. TypeOK /\ Stage(q) /\ Provenance(q) /\ Provenance(q)'
  BY NextInv DEF Inv
<1>2. CASE UNCHANGED <<path[q], findings[q]>>
  BY <1>2 DEF Exact, Reported
<1>3. CASE Moves(q)
  <2>1. CASE Submit(q)
    <3>1. PICK new : Add(q, new) /\ \A f \in new : f.code = "forged"
      BY <2>1 DEF Submit, Finding
    <3>2. path'[q] = path[q]
      BY <2>1 DEF Submit, chain
    <3>. QED
      BY <1>1, <3>1, <3>2, ExactKept DEF ConstraintCodes
  <2>2. CASE Lookup(q) \/ (Save(q) /\ ~Forget(q))
    BY <1>2, <2>2 DEF Lookup, Save, chain
  <2>3. CASE Fails(q) \/ (Save(q) /\ Forget(q))
    <3>1. path'[q] = <<>> /\ findings'[q] = {}
      BY <1>1, <2>3, ForgottenIsClean DEF Fails
    <3>2. Len(path'[q]) = 0
      BY <3>1, EmptySeqHasNone
    <3>3. Reported(q)' = {}
      BY <3>2 DEF Reported
    <3>. QED
      BY <3>1, <3>3 DEF Exact
  <2>4. CASE ReadRoots(q)
    <3>1. path[q] = <<>> /\ findings' = findings
      BY <1>1, <2>4 DEF ReadRoots, Provenance
    <3>2. Len(path'[q]) \in Int /\ Len(path'[q]) <= 1
      <4>1. path'[q] = <<>> \/ path'[q] = <<input[q].leaf>>
        BY <1>1, <2>4, <3>1 DEF ReadRoots, TypeOK
      <4>2. CASE path'[q] = <<>>
        BY <4>2, EmptySeqHasNone
      <4>3. CASE path'[q] = <<input[q].leaf>>
        BY <4>3, SingleSeq
      <4>. QED
        BY <4>1, <4>2, <4>3
    <3>3. Reported(q)' = {}
      BY <3>2 DEF Reported
    <3>4. Reported(q) = {}
      BY <3>1, NothingToReport
    <3>. QED
      BY <3>1, <3>3, <3>4 DEF Exact
  <2>5. CASE TakeIssuer(q)
    BY <1>1, <2>5, TakeIssuerExact
  <2>6. CASE ReadOthers(q) \/ ReadAllowlist(q) \/ CheckRevocation(q)
    <3>1. PICK new : Add(q, new) /\ \A f \in new : f.code \in {"key_reuse", "issuer", "revoked"}
      BY <2>6 DEF ReadOthers, ReadAllowlist, CheckRevocation, Finding
    <3>2. path'[q] = path[q]
      BY <2>6 DEF ReadOthers, ReadAllowlist, CheckRevocation, chain
    <3>. QED
      BY <1>1, <3>1, <3>2, ExactKept DEF ConstraintCodes
  <2>7. CASE ReachAnchor(q) \/ DeadEnd(q) \/ TooLong(q)
    <3>1. PICK new : /\ Add(q, new)
                     /\ \A f \in new : f.code \in {"expired", "untrusted_root", "no_issuer"}
      BY <2>7 DEF ReachAnchor, DeadEnd, TooLong, EndWalk, Finding
    <3>2. path'[q] = path[q]
      BY <2>7 DEF ReachAnchor, DeadEnd, TooLong, EndWalk
    <3>. QED
      BY <1>1, <3>1, <3>2, ExactKept DEF ConstraintCodes
  <2>8. CASE Answer(q)
    <3>1. PICK new : Add(q, new) /\ \A f \in new : f.code \in {"forged", "untrusted_root"}
      BY <2>8 DEF Answer, Finding
    <3>2. path'[q] = path[q]
      BY <2>8 DEF Answer, chain
    <3>. QED
      BY <1>1, <3>1, <3>2, ExactKept DEF ConstraintCodes
  <2>. QED
    BY <1>3, <2>1, <2>2, <2>3, <2>4, <2>5, <2>6, <2>7, <2>8 DEF Moves
<1>4. ASSUME NEW r \in Requests \ {q}, Moves(r) PROVE UNCHANGED <<path[q], findings[q]>>
  BY <1>1, <1>4, OthersStay
<1>. QED
  BY <1>2, <1>3, <1>4, StepCases, EditsKeepRequests DEF chain

\* The violations of CA, keyCertSign and path length that are reported are
\* those of the chain that was built, no more and no less (build_and_validate).
THEOREM ChainFindingsExactAlways == Spec => []ChainFindingsExact
<1> DEFINE All == \A r \in Requests : Exact(r)
<1>1. Init => All
  <2> SUFFICES ASSUME Init, NEW r \in Requests PROVE Exact(r)
    OBVIOUS
  <2>1. findings[r] = {} /\ path[r] = <<>>
    BY DEF Init
  <2>. QED
    BY <2>1, NothingToReport DEF Exact
<1>2. Inv /\ All /\ [Next]_vars => All'
  BY ExactStep
<1>3. Inv /\ All => ChainFindingsExact
  <2> SUFFICES ASSUME Inv, NEW r \in Requests, Exact(r)
               PROVE  LET above == 2 .. Len(path[r])
                      IN  {f \in findings[r] : f.code \in ConstraintCodes} =
                            {Finding("not_ca", path[r][k]) :
                                k \in {k \in above : path[r][k] \notin CAs}}
                            \cup {Finding("no_cert_sign", path[r][k]) :
                                    k \in {k \in above : path[r][k] \notin CertSigners}}
                            \cup {Finding("path_length", path[r][k]) :
                                    k \in {k \in above : /\ PathLen[path[r][k]] # None
                                                         /\ k > PathLen[path[r][k]] + 2}}
    BY DEF ChainFindingsExact
  <2> DEFINE above == 2 .. Len(path[r])
             rhs == {Finding("not_ca", path[r][k]) : k \in {k \in above : path[r][k] \notin CAs}}
                    \cup {Finding("no_cert_sign", path[r][k]) :
                            k \in {k \in above : path[r][k] \notin CertSigners}}
                    \cup {Finding("path_length", path[r][k]) :
                            k \in {k \in above : /\ PathLen[path[r][k]] # None
                                                 /\ k > PathLen[path[r][k]] + 2}}
  <2>1. path[r] \in Seq(Certs)
    BY DEF Inv, TypeOK
  <2>2. ASSUME NEW k \in above
        PROVE  /\ path[r][k] \in Certs /\ k \in Int
               /\ PathLen[path[r][k]] # None =>
                    (PathLen[path[r][k]] < k - 2 <=> k > PathLen[path[r][k]] + 2)
    <3>1. path[r][k] \in Certs /\ k \in Int
      BY <2>1
    <3>2. PathLen[path[r][k]] \in Nat \cup {None}
      BY <3>1, CertsAssumption
    <3>. QED
      BY <3>1, <3>2
  <2>3. ASSUME NEW f
        PROVE  f \in Reported(r) <=> f \in rhs
    <3>1. f \in Reported(r) <=> \E k \in above : f \in Violations(path[r][k], k - 2)
      BY DEF Reported
    <3>2. ASSUME NEW k \in above
          PROVE  f \in Violations(path[r][k], k - 2) <=>
                   \/ path[r][k] \notin CAs /\ f = Finding("not_ca", path[r][k])
                   \/ path[r][k] \notin CertSigners /\ f = Finding("no_cert_sign", path[r][k])
                   \/ /\ PathLen[path[r][k]] # None /\ k > PathLen[path[r][k]] + 2
                      /\ f = Finding("path_length", path[r][k])
      BY <2>2, <3>2 DEF Violations
    <3>3. f \in rhs <=>
            \E k \in above :
                \/ path[r][k] \notin CAs /\ f = Finding("not_ca", path[r][k])
                \/ path[r][k] \notin CertSigners /\ f = Finding("no_cert_sign", path[r][k])
                \/ /\ PathLen[path[r][k]] # None /\ k > PathLen[path[r][k]] + 2
                   /\ f = Finding("path_length", path[r][k])
      <4> HIDE DEF above
      <4>. QED
        OBVIOUS
    <3>. QED
      BY <3>1, <3>2, <3>3
  <2>4. Reported(r) = rhs
    <3> HIDE DEF rhs
    <3>. QED
      BY <2>3
  <2>. QED
    BY <2>4 DEF Exact
<1>. QED
  BY <1>1, <1>2, <1>3, InvAlways, PTL DEF Spec

-----------------------------------------------------------------------------
(* Giving up. *)

\* The chain leads from issuer to issuer, past no anchor, and who gave up stood
\* at a certificate that is none and has no issuer at hand.
Walked(r) ==
    /\ \A k \in 1 .. Len(path[r]) - 1 :
         /\ <<path[r][k], path[r][k + 1]>> \in Issuance(r).edge
         /\ ~Anchored(path[r][k], Range(roots[r]))
    /\ status[r] \in {"untrusted", "incomplete"} =>
         path[r] # <<>> /\ ~AtAnchor(r) /\ Issuers(r) = {}

LEMMA ExtraIsSeq ==
    ASSUME TypeOK, NEW r \in Requests
    PROVE  input[r].extra \in Seq(Certs)
<1>1. CASE input[r] = Idle
  BY <1>1 DEF Idle
<1>2. CASE input[r] \in Inputs
  BY <1>2, InputsAssumption
<1>. QED
  BY <1>1, <1>2 DEF TypeOK

\* The pool holds what is at hand but for the certificate asked about.
LEMMA PoolRange ==
    ASSUME TypeOK, NEW r \in Requests
    PROVE  /\ \A i \in DOMAIN Pool(r) : Pool(r)[i] \in Range(input[r].extra) \cup Range(roots[r])
           /\ \A c \in Range(input[r].extra) \cup Range(roots[r]) :
                \E i \in DOMAIN Pool(r) : Pool(r)[i] = c
<1>1. input[r].extra \in Seq(Certs) /\ roots[r] \in Seq(Certs)
  BY ExtraIsSeq DEF TypeOK
<1> DEFINE s == input[r].extra
           t == roots[r]
<1>2. /\ Len(s \o t) = Len(s) + Len(t) /\ s \o t \in Seq(Certs)
      /\ \A i \in 1 .. Len(s) + Len(t) : (s \o t)[i] = IF i <= Len(s) THEN s[i] ELSE t[i - Len(s)]
  BY <1>1, ConcatProperties
<1>3. DOMAIN s = 1 .. Len(s) /\ DOMAIN t = 1 .. Len(t) /\ DOMAIN (s \o t) = 1 .. Len(s) + Len(t)
      /\ Len(s) \in Nat /\ Len(t) \in Nat
  BY <1>1, <1>2
<1>4. Pool(r) = s \o t
  BY DEF Pool
<1> HIDE DEF s, t
<1>5. ASSUME NEW i \in DOMAIN (s \o t) PROVE (s \o t)[i] \in Range(s) \cup Range(t)
  <2>1. CASE i <= Len(s)
    BY <1>2, <1>3, <1>5, <2>1 DEF Range
  <2>2. CASE ~(i <= Len(s))
    <3>1. i - Len(s) \in DOMAIN t /\ (s \o t)[i] = t[i - Len(s)]
      BY <1>2, <1>3, <1>5, <2>2
    <3>. QED
      BY <3>1 DEF Range
  <2>. QED
    BY <2>1, <2>2
<1>6. ASSUME NEW c \in Range(s) PROVE \E i \in DOMAIN (s \o t) : (s \o t)[i] = c
  <2>1. PICK i \in DOMAIN s : s[i] = c
    BY <1>6 DEF Range
  <2>. QED
    BY <1>2, <1>3, <2>1
<1>7. ASSUME NEW c \in Range(t) PROVE \E i \in DOMAIN (s \o t) : (s \o t)[i] = c
  <2>1. PICK i \in DOMAIN t : t[i] = c
    BY <1>7 DEF Range
  <2>2. Len(s) + i \in DOMAIN (s \o t) /\ (s \o t)[Len(s) + i] = t[i]
    <3>1. /\ Len(s) + i \in 1 .. Len(s) + Len(t)
          /\ ~(Len(s) + i <= Len(s)) /\ (Len(s) + i) - Len(s) = i
      BY <1>3, <2>1
    <3>. QED
      BY <1>2, <1>3, <3>1
  <2>. QED
    BY <2>1, <2>2
<1>. QED
  BY <1>4, <1>5, <1>6, <1>7 DEF s, t

LEMMA WalkedKept ==
    ASSUME NEW r \in Requests, Walked(r),
           path'[r] = path[r], roots'[r] = roots[r], status'[r] = status[r], input'[r] = input[r]
    PROVE  Walked(r)'
<1>1. /\ Issuance(r)' = Issuance(r) /\ AtAnchor(r)' = AtAnchor(r) /\ Issuers(r)' = Issuers(r)
  BY DEF Issuance, AtAnchor, Issuers, Current, Pool
<1>. QED
  BY <1>1 DEF Walked

\* Where nothing is walked yet, nothing was given up.
LEMMA NotWalked ==
    ASSUME NEW r \in Requests, path'[r] = <<>> \/ (\E c : path'[r] = <<c>>), status'[r] = None
    PROVE  Walked(r)'
<1>1. Len(path'[r]) \in {0, 1}
  <2>1. CASE path'[r] = <<>>
    BY <2>1, EmptySeqHasNone
  <2>2. ASSUME NEW c, path'[r] = <<c>> PROVE Len(path'[r]) = 1
    BY <2>2, SingleSeq
  <2>. QED
    BY <2>1, <2>2
<1>2. \A k \in 1 .. Len(path'[r]) - 1 : FALSE
  <2>1. \A n \in {0, 1} : \A k \in 1 .. n - 1 : FALSE
    OBVIOUS
  <2>. QED
    BY <1>1, <2>1
<1>3. status'[r] \notin {"untrusted", "incomplete"}
  BY StatusAssumption
<1> DEFINE step(k) == /\ <<path[r][k], path[r][k + 1]>> \in Issuance(r).edge
                      /\ ~Anchored(path[r][k], Range(roots[r]))
<1>4. \A k \in 1 .. Len(path'[r]) - 1 : step(k)'
  BY <1>2
<1> HIDE DEF step
<1>. QED
  BY <1>3, <1>4 DEF Walked, step

LEMMA TakeIssuerWalks ==
    ASSUME TypeOK, NEW q \in Requests, Stage(q), Provenance(q), Walked(q), TakeIssuer(q)
    PROVE  Walked(q)'
<1>1. PICK i \in Issuers(q) : path' = [path EXCEPT ![q] = Append(@, Pool(q)[i])]
  BY DEF TakeIssuer
<1> DEFINE new == Pool(q)[i]
           n == Len(path[q])
<1>2. /\ i \in DOMAIN Pool(q) /\ new \in Certs /\ Issued(Current(q), new)
      /\ Key[new] # Key[Current(q)] /\ ~SelfIssued(Current(q)) /\ ~AtAnchor(q)
  BY <1>1, PoolIsSeq DEF Issuers, TakeIssuer
<1>3. /\ path[q] \in Seq(Certs) /\ path[q] # <<>> /\ path'[q] = Append(path[q], new)
      /\ pc[q] = "walk" /\ status'[q] = None
      /\ UNCHANGED <<roots, input>>
  BY <1>1 DEF TakeIssuer, Walking, TypeOK, Provenance, Stage, given
<1>4. /\ n \in Nat \ {0} /\ Len(path'[q]) = n + 1 /\ path'[q][n + 1] = new
      /\ \A k \in 1 .. n : path'[q][k] = path[q][k]
  BY <1>2, <1>3, AppendAdds
<1>5. Issuance(q)' = Issuance(q)
  BY <1>3 DEF Issuance
<1>6. \A k \in 1 .. n : path[q][k] \in Issuance(q).node
  <2>1. path[q][1] \in Issuance(q).node
    BY <1>3 DEF Provenance, Issuance
  <2>2. ASSUME NEW k \in 1 .. n - 1 PROVE path[q][k + 1] \in Issuance(q).node
    <3>1. <<path[q][k], path[q][k + 1]>> \in Issuance(q).edge
      BY <2>2 DEF Walked
    <3>. QED
      BY <3>1 DEF Issuance
  <2>3. ASSUME NEW k \in 2 .. n PROVE path[q][k] \in Issuance(q).node
    <3>1. k - 1 \in 1 .. n - 1 /\ (k - 1) + 1 = k
      BY <1>4
    <3>. QED
      BY <2>2, <3>1
  <2>. QED
    BY <1>4, <2>1, <2>3
<1>7. ASSUME NEW k \in 1 .. n
      PROVE  /\ <<path'[q][k], path'[q][k + 1]>> \in Issuance(q).edge
             /\ ~Anchored(path'[q][k], Range(roots[q]))
  <2>1. CASE k = n
    <3>1. path'[q][k] = Current(q) /\ path'[q][k + 1] = new
      BY <1>4, <2>1 DEF Current
    <3>2. new \in Issuance(q).node /\ Current(q) \in Issuance(q).node
      BY <1>2, <1>4, <1>6, PoolRange DEF Current, Issuance
    <3>. QED
      BY <1>2, <3>1, <3>2 DEF Issuance, AtAnchor
  <2>2. CASE k # n
    <3>1. k \in 1 .. n - 1 /\ k + 1 \in 1 .. n /\ k \in 1 .. n
      BY <1>4, <1>7, <2>2
    <3>2. path'[q][k] = path[q][k] /\ path'[q][k + 1] = path[q][k + 1]
      BY <1>4, <3>1
    <3>. QED
      BY <3>1, <3>2 DEF Walked
  <2>. QED
    BY <2>1, <2>2
<1>8. \A k \in 1 .. Len(path'[q]) - 1 : k \in 1 .. n
  BY <1>4
<1>. QED
  BY <1>3, <1>5, <1>7, <1>8, StatusAssumption DEF Walked

LEMMA WalkedStep ==
    ASSUME Inv, NEW q \in Requests, Walked(q), [Next]_vars
    PROVE  Walked(q)'
<1>1. TypeOK /\ Stage(q) /\ Provenance(q)
  BY DEF Inv
<1>2. CASE UNCHANGED <<path[q], roots[q], status[q], input[q]>>
  BY <1>2, WalkedKept
<1>3. CASE Moves(q)
  <2>1. CASE Submit(q)
    <3>1. path'[q] = path[q] /\ status'[q] = status[q] /\ pc[q] = "idle"
      BY <2>1 DEF Submit, chain
    <3>. QED
      BY <1>1, <3>1, NotWalked DEF Stage, Provenance
  <2>2. CASE \/ Lookup(q) \/ ReadOthers(q) \/ (Save(q) /\ ~Forget(q)) \/ CheckRevocation(q)
             \/ ReadAllowlist(q) \/ Answer(q)
    BY <1>2, <2>2 DEF Lookup, ReadOthers, Save, CheckRevocation, ReadAllowlist, Answer, chain, given
  <2>3. CASE Fails(q) \/ (Save(q) /\ Forget(q))
    BY <1>1, <2>3, ForgottenIsClean, NotWalked DEF Fails
  <2>4. CASE ReadRoots(q)
    <3>1. path[q] = <<>> /\ status[q] = None /\ status' = status
      BY <1>1, <2>4 DEF ReadRoots, Provenance, Stage
    <3>2. path'[q] = <<>> \/ path'[q] = <<input[q].leaf>>
      BY <1>1, <2>4, <3>1 DEF ReadRoots, TypeOK
    <3>. QED
      BY <3>1, <3>2, NotWalked
  <2>5. CASE TakeIssuer(q)
    BY <1>1, <2>5, TakeIssuerWalks
  <2>6. CASE ReachAnchor(q) \/ DeadEnd(q) \/ TooLong(q)
    <3>1. UNCHANGED <<path, roots, input>> /\ path[q] # <<>>
      BY <1>1, <2>6 DEF ReachAnchor, DeadEnd, TooLong, EndWalk, Walking, Provenance, given
    <3>2. status'[q] \in {"untrusted", "incomplete"} => ~AtAnchor(q) /\ Issuers(q) = {}
      BY <1>1, <2>6 DEF ReachAnchor, DeadEnd, TooLong, EndWalk, TypeOK
    <3>. QED
      BY <3>1, <3>2 DEF Walked, Issuance, AtAnchor, Issuers, Current, Pool
  <2>. QED
    BY <1>3, <2>1, <2>2, <2>3, <2>4, <2>5, <2>6 DEF Moves
<1>4. ASSUME NEW r \in Requests \ {q}, Moves(r)
      PROVE  UNCHANGED <<path[q], roots[q], status[q], input[q]>>
  BY <1>1, <1>4, OthersStay
<1>. QED
  BY <1>2, <1>3, <1>4, StepCases, EditsKeepRequests DEF chain, given

\* Of what has at most one element, there are no two.
LEMMA AtMostOne ==
    ASSUME NEW S, IsFiniteSet(S), Cardinality(S) <= 1, NEW x \in S, NEW y \in S
    PROVE  x = y
<1> SUFFICES ASSUME x # y PROVE FALSE
  OBVIOUS
<1>1. IsFiniteSet({x}) /\ Cardinality({x}) = 1
  BY FS_Singleton
<1>2. Cardinality({x} \cup {y}) = 2
  BY <1>1, FS_AddElement, SMTT(30)
<1>3. {x} \cup {y} \subseteq S
  OBVIOUS
<1>4. Cardinality({x} \cup {y}) <= Cardinality(S)
  BY <1>3, FS_Subset
<1>5. Cardinality(S) \in Nat
  BY FS_CardinalityType
<1>. QED
  BY <1>2, <1>4, <1>5

LEMMA GivesUpRightly ==
    ASSUME Inv, NEW r \in Requests, Walked(r), status[r] \in {"untrusted", "incomplete"},
           \A c \in Issuance(r).node :
              Cardinality({i \in Issuance(r).node : <<c, i>> \in Issuance(r).edge}) <= 1,
           NEW a \in Issuance(r).node, Anchored(a, Range(roots[r])),
           Leads(Issuance(r), input[r].leaf, a)
    PROVE  FALSE
<1> DEFINE g == Issuance(r)
           n == Len(path[r])
           S == {path[r][k] : k \in 1 .. n}
<1>1. TypeOK /\ Stage(r) /\ Provenance(r)
  BY DEF Inv
<1>2. path[r] \in Seq(Certs) /\ path[r] # <<>> /\ n \in Nat \ {0} /\ path[r][1] = input[r].leaf
  BY <1>1 DEF TypeOK, Walked, Provenance
<1>3. ~Anchored(Current(r), Range(roots[r])) /\ Issuers(r) = {} /\ Current(r) = path[r][n]
  BY DEF Walked, AtAnchor, Current
<1>4. \A k \in 1 .. n - 1 :
        /\ <<path[r][k], path[r][k + 1]>> \in g.edge
        /\ ~Anchored(path[r][k], Range(roots[r]))
  BY DEF Walked
<1>5. g.edge \subseteq g.node \X g.node /\ input[r].leaf \in g.node
  BY DEF Issuance
<1>6. g.node \subseteq Range(input[r].extra) \cup Range(roots[r]) \cup {input[r].leaf}
  BY DEF Issuance
<1>7. \A e \in g.edge : /\ ~SelfIssued(e[1]) /\ Issued(e[1], e[2]) /\ Key[e[1]] # Key[e[2]]
  BY DEF Issuance
<1>8. IsFiniteSet(g.node)
  <2>1. input[r].extra \in Seq(Certs) /\ roots[r] \in Seq(Certs) /\ input[r].leaf \in Certs
    <3>1. path[r][1] \in Certs
      BY <1>2
    <3>. QED
      BY <1>1, <1>2, <3>1, ExtraIsSeq DEF TypeOK
  <2>2. Range(input[r].extra) \subseteq Certs /\ Range(roots[r]) \subseteq Certs
    BY <2>1 DEF Range
  <2>. QED
    BY <1>6, <2>1, <2>2, CertsAssumption, FS_Subset
<1> HIDE DEF g
<1>9. S \subseteq g.node
  <2>1. ASSUME NEW k \in 1 .. n, k # 1 PROVE path[r][k] \in g.node
    <3>1. k - 1 \in 1 .. n - 1 /\ (k - 1) + 1 = k
      BY <1>2, <2>1
    <3>2. <<path[r][k - 1], path[r][k]>> \in g.edge
      BY <1>4, <3>1
    <3>. QED
      BY <1>5, <3>2
  <2>. QED
    BY <1>2, <1>5, <2>1
<1>10. ASSUME NEW e \in g.edge, e[1] \in S PROVE e[2] \in S
  <2>1. PICK k \in 1 .. n : path[r][k] = e[1]
    BY <1>10
  <2>2. e = <<e[1], e[2]>> /\ e[1] \in g.node /\ e[2] \in g.node
    BY <1>5, <1>10
  <2>3. CASE k # n
    <3>1. k \in 1 .. n - 1 /\ k + 1 \in 1 .. n
      BY <1>2, <2>1, <2>3
    <3> DEFINE T == {i \in g.node : <<e[1], i>> \in g.edge}
    <3>2. e[2] \in T /\ path[r][k + 1] \in T
      <4>1. <<e[1], path[r][k + 1]>> \in g.edge
        BY <1>4, <2>1, <3>1
      <4>. QED
        BY <1>5, <1>10, <2>2, <4>1
    <3>3. IsFiniteSet(T) /\ Cardinality(T) <= 1
      BY <1>8, <2>2, FS_Subset DEF g
    <3>4. e[2] = path[r][k + 1]
      <4> HIDE DEF T
      <4>. QED
        BY <3>2, <3>3, AtMostOne
    <3>. QED
      BY <3>1, <3>4
  <2>4. CASE k = n
    <3>1. e[1] = Current(r)
      BY <1>3, <2>1, <2>4
    <3>2. e[2] \notin Range(input[r].extra) \cup Range(roots[r])
      <4>1. SUFFICES ASSUME e[2] \in Range(input[r].extra) \cup Range(roots[r]) PROVE FALSE
        OBVIOUS
      <4>2. PICK i \in DOMAIN Pool(r) : Pool(r)[i] = e[2]
        BY <1>1, <4>1, PoolRange
      <4>3. ~SelfIssued(Current(r)) /\ Issued(Current(r), Pool(r)[i])
            /\ Key[Pool(r)[i]] # Key[Current(r)]
        BY <1>7, <1>10, <3>1, <4>2
      <4>4. i \in Issuers(r)
        BY <4>2, <4>3 DEF Issuers
      <4>. QED
        BY <1>3, <4>4
    <3>3. e[2] = path[r][1]
      BY <1>2, <1>6, <2>2, <3>2 DEF g
    <3>. QED
      BY <1>2, <3>3
  <2>. QED
    BY <2>3, <2>4
<1>11. input[r].leaf \in S
  BY <1>2
<1>12. a \in S
  <2> HIDE DEF S
  <2>1. Leads(g, input[r].leaf, a)
    BY DEF g
  <2>. QED
    BY <1>9, <1>10, <1>11, <2>1 DEF Leads
<1>13. PICK k \in 1 .. n : path[r][k] = a
  BY <1>12
<1>14. CASE k = n
  BY <1>3, <1>13, <1>14
<1>15. CASE k # n
  <2>1. k \in 1 .. n - 1
    BY <1>2, <1>13, <1>15
  <2>. QED
    BY <1>4, <1>13, <2>1
<1>. QED
  BY <1>14, <1>15

\* Where every certificate at hand has one issuer at most, the walk gives up only
\* if no chain leads to an anchor: the certificates it passed are closed under
\* issuance (build_and_validate).
THEOREM FoundUnlessAmbiguousAlways == Spec => []FoundUnlessAmbiguous
<1> DEFINE All == \A r \in Requests : Walked(r)
<1>1. Init => All
  <2> SUFFICES ASSUME Init, NEW r \in Requests PROVE Walked(r)
    OBVIOUS
  <2>1. path[r] = <<>> /\ status[r] = None
    BY DEF Init
  <2>2. \A k \in 1 .. Len(path[r]) - 1 : FALSE
    BY <2>1, EmptySeqHasNone
  <2>. QED
    BY <2>1, <2>2, StatusAssumption DEF Walked
<1>2. Inv /\ All /\ [Next]_vars => All'
  BY WalkedStep
<1>3. Inv /\ All => FoundUnlessAmbiguous
  BY GivesUpRightly DEF FoundUnlessAmbiguous
<1>. QED
  BY <1>1, <1>2, <1>3, InvAlways, PTL DEF Spec
=============================================================================
