---------------------------- MODULE Verification ----------------------------
(***************************************************************************)
(* A verdict on a signature or certificate: services/crypto/engine.py with *)
(* x509_chain.py, revocation.py and trust_store.py, and the administrators *)
(* who edit the trust store meanwhile.                                     *)
(*                                                                         *)
(* A request is one call of verify_raw_signature, validate_certificate or  *)
(* verify_document.  It awaits the database several times: each SELECT     *)
(* sees what is committed then, each commit is one step, and the other     *)
(* requests of its worker run meanwhile.  From the anchors it read to the  *)
(* next await, through the chain and the calls to the revocation servers,  *)
(* it keeps its worker for itself.                                         *)
(*                                                                         *)
(* Certificates are given with their names, keys and constraints; whether  *)
(* bytes verify is an input (cryptography, asn1crypto, PyJWT, pyHanko and  *)
(* the OCSP and CRL servers are external).  The findings of weak_algo.py   *)
(* depend on one artifact alone and decide nothing: they are left out.     *)
(***************************************************************************)
EXTENDS Integers, Sequences, FiniteSets, Functions

CONSTANTS
    Requests,               \* verifications (each runs once)
    Worker,                 \* request -> the process that serves it
    Inputs,                 \* what they are called with
    Certs,                  \* all certificates there are
    Subject, IssuerName,    \* certificate -> the names it carries
    Key,                    \* certificate -> its public key (spki_sha256)
    Signed,                 \* <<c, i>>: the signature on c verifies under i's key
    CAs, CertSigners,       \* CA:TRUE; no KeyUsage, or one with keyCertSign
    PathLen,                \* certificate -> pathLenConstraint, None without one
    Anchorable,             \* certificates administrators add as anchors
    DefaultRoots,           \* the roots pyHanko takes when it is given none
    Listable,               \* entries they put on the CA allow-list
    Outbound,               \* settings.outbound_revocation
    MaxDepth,               \* _MAX_DEPTH, 12 in the code
    MaxEdits,               \* bound of the edits of the trust store
    None                    \* an absent field

VARIABLES
    anchors,    \* trust_anchors: certificate -> absent, enabled or disabled
    allowlist,  \* ca_allowlist_entries: <<subject, issuer key>>
    edits,      \* edits of the two tables so far
    timesSeen,  \* certificates: fingerprint -> times_seen, 0 without a row
    insertedBy, \* certificate -> the request that inserted its row
    pc,         \* request -> where it stands
    input,      \* request -> what it was called with
    read,       \* request -> times_seen of its certificate as it read it
    roots,      \* request -> the anchors it read, in the order they came
    path,       \* request -> the chain it has built
    status,     \* request -> ChainResult.status
    revocation, \* request -> RevocationResult.status
    findings,   \* request -> its findings so far
    verdict,    \* request -> its verdict
    known,      \* request -> the certificates with a row when it began
    offered     \* request -> what has been an enabled anchor since it began

store == <<anchors, allowlist, edits>>
seen == <<timesSeen, insertedBy>>
chain == <<roots, path, status>>
given == <<input, known>>
vars == <<store, seen, pc, given, read, chain, revocation, findings, verdict, offered>>

ASSUME CertsAssumption ==
    /\ IsFiniteSet(Certs) /\ Anchorable \subseteq Certs /\ DefaultRoots \subseteq Certs
    /\ CAs \subseteq Certs /\ CertSigners \subseteq Certs
    /\ DOMAIN Key = Certs /\ DOMAIN Subject = Certs /\ DOMAIN IssuerName = Certs
    /\ PathLen \in [Certs -> Nat \cup {None}]
    /\ None \notin Certs \cup Requests \cup Nat
ASSUME StatusAssumption ==
    None \notin {"trusted", "untrusted", "incomplete", "error",
                 "not_checked", "good", "revoked", "unknown",
                 "valid", "invalid", "indeterminate"}
ASSUME InputsAssumption ==
    \A i \in Inputs :
        /\ i.kind \in {"signature", "certificate", "key", "pdf", "unsigned"}
        /\ i.leaf \in IF i.kind \in {"signature", "certificate"} THEN Certs ELSE {None}
        /\ i.extra \in Seq(Certs) /\ i.ok \in BOOLEAN
ASSUME BoundsAssumption == MaxDepth \in Nat \ {0} /\ MaxEdits \in Nat

-----------------------------------------------------------------------------
(* Certificates. *)

SelfIssued(c) == Subject[c] = IssuerName[c]

\* verify_directly_issued_by: names and signature match.
Issued(c, i) == Subject[i] = IssuerName[c] /\ <<c, i>> \in Signed

Enabled == {c \in Certs : anchors[c] = "enabled"}

\* A certificate counts as an anchor by its key, whatever its names.
Anchored(c, trust) == \E a \in trust : Key[a] = Key[c]

\* Mutant: the trust store is asked for anchors, not for issuers.
PoolOfExtras(r) == input[r].extra

Pool(r) == input[r].extra \o roots[r]

Current(r) == path[r][Len(path[r])]

\* Mutant: names suffice.
IssuersByName(r) ==
    LET cur == Current(r)
    IN  IF SelfIssued(cur) THEN {}
        ELSE {i \in DOMAIN Pool(r) : Subject[Pool(r)[i]] = IssuerName[cur]}

\* Places in the pool that hold an issuer of the current certificate.
Issuers(r) ==
    LET cur == Current(r)
    IN  IF SelfIssued(cur) THEN {}
        ELSE {i \in DOMAIN Pool(r) : /\ Issued(cur, Pool(r)[i])
                                     /\ Key[Pool(r)[i]] # Key[cur]}

Finding(code, cert) == [code |-> code, cert |-> cert]

Add(r, new) == findings' = [findings EXCEPT ![r] = @ \cup new]

Ended == {"answered", "failed"}

Goto(r, label) == pc' = [pc EXCEPT ![r] = label]

-----------------------------------------------------------------------------

Idle == [kind |-> "unsigned", leaf |-> None, extra |-> <<>>, ok |-> FALSE,
         expired |-> {}, signatures |-> {}]

Init ==
    /\ anchors \in [Certs -> {"absent", "enabled", "disabled"}]
    /\ \A c \in Certs \ Anchorable : anchors[c] = "absent"
    /\ \A c, d \in Certs : c # d /\ Key[c] = Key[d] => "absent" \in {anchors[c], anchors[d]}
    /\ allowlist \in SUBSET Listable /\ edits = 0
    /\ timesSeen = [c \in Certs |-> 0]
    /\ insertedBy = [c \in Certs |-> None]
    /\ pc = [r \in Requests |-> "idle"]
    /\ input = [r \in Requests |-> Idle]
    /\ read = [r \in Requests |-> 0]
    /\ roots = [r \in Requests |-> <<>>]
    /\ path = [r \in Requests |-> <<>>]
    /\ status = [r \in Requests |-> None]
    /\ revocation = [r \in Requests |-> None]
    /\ findings = [r \in Requests |-> {}]
    /\ verdict = [r \in Requests |-> None]
    /\ known = [r \in Requests |-> {}]
    /\ offered = [r \in Requests |-> {}]

\* Raw signatures and CMS come with a certificate ("signature") or without one,
\* like a JWS ("key"); "unsigned" is an image or a JWS without x5c.  The
\* signature is checked before the database is asked.
Submit(r) ==
    /\ pc[r] = "idle"
    /\ \E i \in Inputs :
         /\ input' = [input EXCEPT ![r] = i]
         /\ Add(r, IF i.kind \in {"signature", "key"} /\ ~i.ok
                   THEN {Finding("forged", i.leaf)} ELSE {})
         /\ Goto(r, CASE i.kind \in {"signature", "certificate"} -> "lookup"
                      [] i.kind = "pdf" -> "roots"
                      [] OTHER -> "decide")
    /\ known' = [known EXCEPT ![r] = {c \in Certs : timesSeen[c] > 0}]
    /\ offered' = [offered EXCEPT ![r] = Enabled]
    /\ UNCHANGED <<store, seen, read, chain, revocation, verdict>>

Forget(r) ==
    /\ Goto(r, "failed")
    /\ input' = [input EXCEPT ![r] = Idle]
    /\ read' = [read EXCEPT ![r] = 0]
    /\ roots' = [roots EXCEPT ![r] = <<>>]
    /\ path' = [path EXCEPT ![r] = <<>>]
    /\ status' = [status EXCEPT ![r] = None]
    /\ revocation' = [revocation EXCEPT ![r] = None]
    /\ findings' = [findings EXCEPT ![r] = {}]
    /\ known' = [known EXCEPT ![r] = {}]
    /\ offered' = [offered EXCEPT ![r] = {}]
    /\ UNCHANGED verdict

\* An exception or the end of the worker: the answer is an error or none, and
\* what the request held is gone.
Fails(r) ==
    /\ pc[r] \notin Ended \cup {"idle"}
    /\ Forget(r)
    /\ UNCHANGED <<store, seen>>

-----------------------------------------------------------------------------
(* _persist_certificate. *)

Lookup(r) ==
    /\ pc[r] = "lookup"
    /\ read' = [read EXCEPT ![r] = timesSeen[input[r].leaf]]
    /\ Goto(r, IF timesSeen[input[r].leaf] = 0 THEN "others" ELSE "save")
    /\ UNCHANGED <<store, seen, given, chain, revocation, findings, verdict, offered>>

Rows == {c \in Certs : timesSeen[c] > 0}

\* Mutant: only certificates of the same issuer are compared.
ReadOthersOfIssuer(r) ==
    /\ pc[r] = "others"
    /\ LET leaf == input[r].leaf
           others == {c \in Rows : /\ Key[c] = Key[leaf] /\ Subject[c] # Subject[leaf]
                                   /\ IssuerName[c] = IssuerName[leaf]}
       IN  Add(r, IF others # {} THEN {Finding("key_reuse", leaf)} ELSE {})
    /\ Goto(r, "save")
    /\ UNCHANGED <<store, seen, given, read, chain, revocation, verdict, offered>>

\* T11, the key under another subject; looked for at the first sighting only.
ReadOthers(r) ==
    /\ pc[r] = "others"
    /\ LET leaf == input[r].leaf
           others == {c \in Rows : Key[c] = Key[leaf] /\ Subject[c] # Subject[leaf]}
       IN  Add(r, IF others # {} THEN {Finding("key_reuse", leaf)} ELSE {})
    /\ Goto(r, "save")
    /\ UNCHANGED <<store, seen, given, read, chain, revocation, verdict, offered>>

\* The unique fingerprint refuses the second of two concurrent inserts.
Save(r) ==
    /\ pc[r] = "save"
    /\ LET leaf == input[r].leaf
       IN  \/ /\ read[r] > 0 \/ timesSeen[leaf] = 0
              /\ timesSeen' = [timesSeen EXCEPT ![leaf] = read[r] + 1]
              /\ insertedBy' = [insertedBy EXCEPT ![leaf] = IF read[r] = 0 THEN r ELSE @]
              /\ Goto(r, "roots")
              /\ UNCHANGED <<given, read, chain, revocation, findings, verdict, offered>>
           \/ /\ read[r] = 0 /\ timesSeen[leaf] > 0
              /\ Forget(r)
              /\ UNCHANGED seen
    /\ UNCHANGED store

-----------------------------------------------------------------------------
(* build_and_validate. *)

\* enabled_anchor_certs has no ORDER BY: the rows come in any order.
ReadRoots(r) ==
    /\ pc[r] = "roots"
    /\ \E order \in Bijection(1 .. Cardinality(Enabled), Enabled) :
         roots' = [roots EXCEPT ![r] = order]
    /\ IF input[r].kind = "pdf"
       THEN Goto(r, "decide") /\ UNCHANGED path
       ELSE Goto(r, "walk") /\ path' = [path EXCEPT ![r] = <<input[r].leaf>>]
    /\ UNCHANGED <<store, seen, given, read, status, revocation, findings, verdict, offered>>

Walking(r) == pc[r] = "walk" /\ Len(path[r]) <= MaxDepth

AtAnchor(r) == Anchored(Current(r), Range(roots[r]))

EndWalk(r, outcome, new) ==
    /\ status' = [status EXCEPT ![r] = outcome]
    /\ Add(r, new)
    /\ Goto(r, "revocation")
    /\ UNCHANGED <<store, seen, given, read, roots, path, revocation, verdict, offered>>

\* T08 for every certificate of the chain, at the time asked about.
ReachAnchor(r) ==
    /\ Walking(r) /\ AtAnchor(r)
    /\ EndWalk(r, "trusted", {Finding("expired", c) : c \in Range(path[r]) \cap input[r].expired})

DeadEnd(r) ==
    /\ Walking(r) /\ ~AtAnchor(r) /\ Issuers(r) = {}
    /\ IF SelfIssued(Current(r))
       THEN EndWalk(r, "untrusted", {Finding("untrusted_root", Current(r))})
       ELSE EndWalk(r, "incomplete", {Finding("no_issuer", Current(r))})

\* Mutant: the issuer counts as one of the CAs below it.
ViolationsOffByOne(i, depth) ==
    (IF i \notin CAs THEN {Finding("not_ca", i)} ELSE {})
      \cup (IF i \notin CertSigners THEN {Finding("no_cert_sign", i)} ELSE {})
      \cup (IF PathLen[i] # None /\ PathLen[i] <= depth
            THEN {Finding("path_length", i)} ELSE {})

\* What the issuer at this depth breaks: T06, T16, T06.
Violations(i, depth) ==
    (IF i \notin CAs THEN {Finding("not_ca", i)} ELSE {})
      \cup (IF i \notin CertSigners THEN {Finding("no_cert_sign", i)} ELSE {})
      \cup (IF PathLen[i] # None /\ PathLen[i] < depth
            THEN {Finding("path_length", i)} ELSE {})

\* Mutant: certificates already in the chain are passed over.
TakeNewIssuer(r) ==
    /\ Walking(r) /\ ~AtAnchor(r)
    /\ \E i \in Issuers(r) :
         /\ \A j \in Issuers(r) : i <= j
         /\ path' = [path EXCEPT ![r] = IF Pool(r)[i] \in Range(@) THEN @
                                        ELSE Append(@, Pool(r)[i])]
         /\ Add(r, Violations(Pool(r)[i], Len(path[r]) - 1))
    /\ UNCHANGED <<store, seen, pc, given, read, roots, status, revocation, verdict, offered>>

\* The first issuer in the pool is taken, and no other is tried later.
TakeIssuer(r) ==
    /\ Walking(r) /\ ~AtAnchor(r)
    /\ \E i \in Issuers(r) :
         /\ \A j \in Issuers(r) : i <= j
         /\ path' = [path EXCEPT ![r] = Append(@, Pool(r)[i])]
         /\ Add(r, Violations(Pool(r)[i], Len(path[r]) - 1))
    /\ UNCHANGED <<store, seen, pc, given, read, roots, status, revocation, verdict, offered>>

TooLong(r) ==
    /\ pc[r] = "walk" /\ Len(path[r]) > MaxDepth
    /\ EndWalk(r, "error", {})

-----------------------------------------------------------------------------
(* Revocation, the allow-list and the verdict. *)

\* check_revocation asks the OCSP servers, then the CRLs, until one knows.
CheckRevocation(r) ==
    /\ pc[r] = "revocation"
    /\ \E s \in IF Outbound THEN {"good", "revoked", "unknown"} ELSE {"not_checked"} :
         /\ revocation' = [revocation EXCEPT ![r] = s]
         /\ Add(r, IF s = "revoked" THEN {Finding("revoked", input[r].leaf)} ELSE {})
    /\ Goto(r, IF input[r].kind = "certificate" THEN "allowlist" ELSE "decide")
    /\ UNCHANGED <<store, seen, given, read, chain, verdict, offered>>

IssuerKey(r) == IF Len(path[r]) > 1 THEN Key[path[r][2]] ELSE None

\* T12: an entry for this subject names another issuer.
ReadAllowlist(r) ==
    /\ pc[r] = "allowlist"
    /\ LET leaf == input[r].leaf
       IN  Add(r, IF \E k \in {e[2] : e \in {e \in allowlist : e[1] = Subject[leaf]}} :
                       k # IssuerKey(r)
                  THEN {Finding("issuer", leaf)} ELSE {})
    /\ Goto(r, "decide")
    /\ UNCHANGED <<store, seen, given, read, chain, revocation, verdict, offered>>

Broken(r) == {s \in input[r].signatures : ~s.ok}

\* validate_pdf hands an empty list over as None, for which the PDF validator takes
\* its default trust list.
PdfRoots(r) == IF roots[r] = <<>> THEN DefaultRoots ELSE Range(roots[r])

Untrusted(r) == {s \in input[r].signatures : s.ok /\ ~Anchored(s.root, PdfRoots(r))}

_decide(r) ==
    IF ~input[r].ok \/ revocation[r] = "revoked" THEN "invalid"
    ELSE IF status[r] \notin {"trusted", None} THEN "indeterminate"
    ELSE "valid"

Codes(r) == {f.code : f \in findings[r]}

\* Mutant: the validity window is reported and forgotten.
CertificateVerdictAnyTime(r) ==
    IF revocation[r] = "revoked" THEN "invalid"
    ELSE IF status[r] = "trusted" THEN "valid"
    ELSE "indeterminate"

CertificateVerdict(r) ==
    IF revocation[r] = "revoked" \/ "expired" \in Codes(r) THEN "invalid"
    ELSE IF status[r] = "trusted" THEN "valid"
    ELSE "indeterminate"

PdfVerdict(r) ==
    IF Broken(r) # {} THEN "invalid"
    ELSE IF input[r].signatures = {} \/ Untrusted(r) # {} THEN "indeterminate"
    ELSE "valid"

Verdict(r) ==
    CASE input[r].kind \in {"signature", "key"} -> _decide(r)
      [] input[r].kind = "certificate" -> CertificateVerdict(r)
      [] input[r].kind = "pdf" -> PdfVerdict(r)
      [] OTHER -> "indeterminate"

Answer(r) ==
    /\ pc[r] = "decide"
    /\ verdict' = [verdict EXCEPT ![r] = Verdict(r)]
    /\ Add(r, IF input[r].kind = "pdf"
              THEN {Finding("forged", s.root) : s \in Broken(r)}
                     \cup {Finding("untrusted_root", s.root) : s \in Untrusted(r)}
              ELSE {})
    /\ Goto(r, "answered")
    /\ UNCHANGED <<store, seen, given, read, chain, revocation, offered>>

-----------------------------------------------------------------------------
(* trust_store.py.  A unique key makes of every edit one step. *)

EditAnchor(c, state) ==
    /\ edits < MaxEdits
    /\ edits' = edits + 1
    /\ anchors' = [anchors EXCEPT ![c] = state]
    /\ offered' = [r \in Requests |-> IF pc[r] \in Ended \cup {"idle"} \/ state # "enabled"
                                      THEN offered[r] ELSE offered[r] \cup {c}]
    /\ UNCHANGED <<allowlist, seen, pc, given, read, chain, revocation, findings, verdict>>

add_anchor(c) ==
    /\ \A d \in Certs : Key[d] = Key[c] => anchors[d] = "absent"
    /\ EditAnchor(c, "enabled")

set_anchor_enabled(c) ==
    \/ anchors[c] = "enabled" /\ EditAnchor(c, "disabled")
    \/ anchors[c] = "disabled" /\ EditAnchor(c, "enabled")

delete_anchor(c) == anchors[c] # "absent" /\ EditAnchor(c, "absent")

EditAllowlist ==
    /\ edits < MaxEdits
    /\ edits' = edits + 1
    /\ \E e \in Listable : \/ allowlist' = allowlist \cup {e}
                           \/ e \in allowlist /\ allowlist' = allowlist \ {e}
    /\ UNCHANGED <<anchors, seen, pc, given, read, chain, revocation, findings>>
    /\ UNCHANGED <<verdict, offered>>

Administrate ==
    \/ \E c \in Anchorable : add_anchor(c) \/ set_anchor_enabled(c) \/ delete_anchor(c)
    \/ EditAllowlist

\* Steps between two awaits: the event loop of the worker does nothing else.
Blocks(r) == \/ pc[r] \in {"walk", "revocation"}
             \/ pc[r] = "decide" /\ input[r].kind # "pdf"

Runnable(r) == \A q \in Requests \ {r} : Worker[q] = Worker[r] => ~Blocks(q)

Proceed(r) ==
    \/ Lookup(r) \/ ReadOthers(r) \/ Save(r) \/ ReadRoots(r)
    \/ ReachAnchor(r) \/ DeadEnd(r) \/ TakeIssuer(r) \/ TooLong(r)
    \/ CheckRevocation(r) \/ ReadAllowlist(r) \/ Answer(r)

Step(r) == Runnable(r) /\ (Submit(r) \/ Proceed(r))

Next == (\E r \in Requests : Step(r) \/ Fails(r)) \/ Administrate

\* A worker goes on with a request it has taken up: no await lasts forever, the
\* database and the revocation servers answer or time out.
Fairness == \A r \in Requests : WF_vars(Runnable(r) /\ Proceed(r))

Spec == Init /\ [][Next]_vars /\ Fairness

-----------------------------------------------------------------------------
(* Properties. *)

Labels == Ended \cup {"idle", "lookup", "others", "save", "roots", "walk",
                      "revocation", "allowlist", "decide"}

TypeOK ==
    /\ anchors \in [Certs -> {"absent", "enabled", "disabled"}]
    /\ edits \in 0 .. MaxEdits
    /\ timesSeen \in [Certs -> Nat]
    /\ insertedBy \in [Certs -> Requests \cup {None}]
    /\ pc \in [Requests -> Labels]
    /\ input \in [Requests -> Inputs \cup {Idle}]
    /\ read \in [Requests -> Nat]
    /\ roots \in [Requests -> Seq(Certs)]
    /\ path \in [Requests -> Seq(Certs)]
    /\ \A r \in Requests : Len(path[r]) <= MaxDepth + 1
    /\ status \in [Requests -> {None, "trusted", "untrusted", "incomplete", "error"}]
    /\ revocation \in [Requests -> {None, "not_checked", "good", "revoked", "unknown"}]
    /\ verdict \in [Requests -> {None, "valid", "invalid", "indeterminate"}]
    /\ DOMAIN findings = Requests
    /\ known \in [Requests -> SUBSET Certs]
    /\ offered \in [Requests -> SUBSET Certs]

\* What is trusted, and by whose leave: a trusted chain leads by issuance from the
\* certificate asked about to one with the key of an anchor that was enabled at
\* some moment of the request.  What was withdrawn before the request began is
\* never trusted.  So with every signature of a valid PDF, but for one case: a
\* request that found no anchor enabled trusts pyHanko's list (ARCHITECTURE.md:381
\* "Trust anchors are configuration" does not say so).
TrustIsGenuine ==
    \A r \in Requests :
        /\ status[r] = "trusted" =>
             /\ path[r][1] = input[r].leaf
             /\ \A k \in 1 .. Len(path[r]) - 1 : Issued(path[r][k], path[r][k + 1])
             /\ Anchored(Current(r), offered[r])
        /\ input[r].kind = "pdf" /\ verdict[r] = "valid" =>
             \A s \in input[r].signatures :
                 /\ s.ok
                 /\ \/ Anchored(s.root, offered[r])
                    \/ roots[r] = <<>> /\ Anchored(s.root, DefaultRoots)

ConstraintCodes == {"not_ca", "no_cert_sign", "path_length"}

\* Read off the chain that was built, the reported violations are those there
\* are: with k - 2 CAs between the k-th certificate and the first.
ChainFindingsExact ==
    \A r \in Requests :
        LET above == 2 .. Len(path[r])
        IN  {f \in findings[r] : f.code \in ConstraintCodes} =
              {Finding("not_ca", path[r][k]) : k \in {k \in above : path[r][k] \notin CAs}}
              \cup {Finding("no_cert_sign", path[r][k]) :
                      k \in {k \in above : path[r][k] \notin CertSigners}}
              \cup {Finding("path_length", path[r][k]) :
                      k \in {k \in above : /\ PathLen[path[r][k]] # None
                                           /\ k > PathLen[path[r][k]] + 2}}

\* The certificates at hand and who issued whom; a self-issued one ends a chain,
\* and one with the key of what it issued is passed over.
Issuance(r) ==
    LET nodes == Range(input[r].extra) \cup Range(roots[r]) \cup {input[r].leaf}
    IN  [node |-> nodes,
         edge |-> {e \in nodes \X nodes : /\ ~SelfIssued(e[1]) /\ Issued(e[1], e[2])
                                         /\ Key[e[1]] # Key[e[2]]}]

\* What can be reached from c is in every set that holds c and is closed.
Leads(g, c, a) ==
    \A S \in SUBSET g.node : c \in S /\ (\A e \in g.edge : e[1] \in S => e[2] \in S) => a \in S

\* The walk takes the first issuer and never turns back.  As long as no
\* certificate at hand has two of them, it gives up only when no chain leads to
\* an anchor.
FoundUnlessAmbiguous ==
    \A r \in Requests : status[r] \in {"untrusted", "incomplete"} =>
        LET g == Issuance(r)
            issuers(c) == {i \in g.node : <<c, i>> \in g.edge}
        IN  (\A c \in g.node : Cardinality(issuers(c)) <= 1) =>
              \A a \in g.node : Anchored(a, Range(roots[r])) => ~Leads(g, input[r].leaf, a)

\* ARCHITECTURE.md:95 "Same SPKI under multiple distinct subjects": of two
\* certificates on file with one key and two subjects, the one first seen later
\* was reported, unless the two sightings overlapped or that request failed.
KeyReuseSeen ==
    \A c, d \in Rows :
        /\ Key[c] = Key[d] /\ Subject[c] # Subject[d]
        /\ c \in known[insertedBy[d]]
        => Finding("key_reuse", d) \in findings[insertedBy[d]]

\* Verdict and findings are computed apart and agree on what decides: the answer
\* names the reason of every verdict that is not "valid", and a valid one has no
\* finding that makes others invalid or indeterminate.  Violations of T06, T08
\* and T16 are not among those, but for T08 of a certificate: they stand beside a
\* valid verdict, against SECURITY.md:51 (see ChainEnforced).
VerdictExplained ==
    \A r \in Requests : pc[r] = "answered" =>
        LET kind == input[r].kind
            against == {"forged", "revoked"}
                         \cup IF kind = "certificate" THEN {"expired"} ELSE {}
            doubts == {"untrusted_root", "no_issuer"}
        IN  /\ verdict[r] = "invalid" <=> Codes(r) \cap against # {}
            /\ verdict[r] = "valid" => /\ kind # "unsigned"
                                       /\ Codes(r) \cap doubts = {}
            /\ verdict[r] = "indeterminate" =>
                 \/ Codes(r) \cap doubts # {} \/ status[r] = "error"
                 \/ kind = "unsigned"
                 \/ kind = "pdf" /\ input[r].signatures = {}

\* SECURITY.md:51 "deliberately strict: [...] path-length and validity windows are
\* enforced": nothing is valid by a chain that breaks either.
ChainEnforced ==
    \A r \in Requests :
        verdict[r] = "valid" => Codes(r) \cap {"path_length", "expired"} = {}

\* Whatever certificates are sent, rings of cross-certificates included, a
\* request that was taken up is answered or fails.
EveryRequestEnds ==
    \A r \in Requests : pc[r] # "idle" ~> pc[r] \in Ended

-----------------------------------------------------------------------------
(* The inductive strengthening of the invariants above. *)

InFlight(r) == pc[r] \notin Ended \cup {"idle"}

WithCertificate == {"signature", "certificate"}

\* What a request has, by where it stands.
Stage(r) ==
    /\ pc[r] \in {"lookup", "others", "save", "walk", "revocation", "allowlist"} =>
         input[r].kind \in WithCertificate
    /\ pc[r] = "roots" => input[r].kind \in WithCertificate \cup {"pdf"}
    /\ pc[r] \in {"idle", "lookup", "others", "save", "roots", "walk", "failed"} =>
         status[r] = None /\ revocation[r] = None
    /\ pc[r] = "revocation" => status[r] # None /\ revocation[r] = None
    /\ pc[r] = "allowlist" => input[r].kind = "certificate" /\ status[r] # None
    /\ pc[r] = "decide" => IF input[r].kind \in WithCertificate THEN status[r] # None
                           ELSE status[r] = None /\ revocation[r] = None
    /\ pc[r] \in {"roots", "decide"} /\ input[r].kind = "pdf" => findings[r] = {}
    /\ pc[r] \in {"idle", "failed"} => findings[r] = {} /\ known[r] = {}
    /\ verdict[r] # None => pc[r] = "answered"

\* A chain leads by issuance from the certificate asked about, and every anchor
\* at hand was enabled at some moment of the request.
Provenance(r) ==
    /\ pc[r] \in {"idle", "lookup", "others", "save", "roots", "failed"} =>
         path[r] = <<>> /\ roots[r] = <<>>
    /\ pc[r] \in {"walk", "revocation", "allowlist"} => path[r] # <<>>
    /\ path[r] # <<>> => path[r][1] = input[r].leaf
    /\ \A k \in 1 .. Len(path[r]) - 1 : Issued(path[r][k], path[r][k + 1])
    /\ status[r] = "trusted" => path[r] # <<>> /\ Anchored(Current(r), offered[r])
    /\ Range(roots[r]) \subseteq offered[r]
    /\ InFlight(r) => Enabled \subseteq offered[r]

\* A first sighting has compared the certificate with all that were on file
\* when the request began.
Sighting(r) ==
    /\ known[r] \subseteq Rows
    /\ pc[r] = "others" => read[r] = 0
    /\ pc[r] = "save" /\ read[r] = 0 =>
         \A c \in known[r] :
            Key[c] = Key[input[r].leaf] /\ Subject[c] # Subject[input[r].leaf]
                => Finding("key_reuse", input[r].leaf) \in findings[r]
    /\ pc[r] = "save" /\ read[r] > 0 => timesSeen[input[r].leaf] > 0

\* Every row was inserted by a request that has gone on since.
Sighted ==
    \A c \in Rows : /\ insertedBy[c] \in Requests
                    /\ pc[insertedBy[c]] \notin {"idle", "lookup", "others", "save"}

\* The findings say what the verdict will be taken from.
Reasons(r) ==
    InFlight(r) =>
        /\ "forged" \in Codes(r) <=> input[r].kind \in {"signature", "key"} /\ ~input[r].ok
        /\ "revoked" \in Codes(r) <=> revocation[r] = "revoked"
        /\ {"untrusted_root", "no_issuer"} \cap Codes(r) # {}
             <=> status[r] \in {"untrusted", "incomplete"}

Inv ==
    /\ TypeOK /\ Sighted
    /\ \A r \in Requests : Stage(r) /\ Provenance(r) /\ Sighting(r) /\ Reasons(r)
=============================================================================
