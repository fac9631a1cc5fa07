--------------------------- MODULE MCVerification ---------------------------
(* A small public-key infrastructure for Verification. *)
EXTENDS Verification

\* Two roots; three certificates of the CA "I": by R, the same key by S, and a
\* new key by S; an end entity L and a certificate X it issued; an end entity M
\* with the key of X; a ring of two CAs and what it issued.
Cert(subject, issuer, key, signer) ==
    [subject |-> subject, issuer |-> issuer, key |-> key, signer |-> signer]

PKI == [ R  |-> Cert("R", "R", "kr", "kr"),  S  |-> Cert("S", "S", "ks", "ks"),
         IR |-> Cert("I", "R", "ki", "kr"),  IS |-> Cert("I", "S", "ki", "ks"),
         JS |-> Cert("I", "S", "kj", "ks"),
         L  |-> Cert("L", "I", "kl", "ki"),  M  |-> Cert("M", "I", "kx", "kj"),
         X  |-> Cert("X", "L", "kx", "kl"),
         A  |-> Cert("A", "B", "ka", "kb"),  B  |-> Cert("B", "A", "kb", "ka"),
         N  |-> Cert("N", "A", "kn", "ka") ]

PkiCerts == DOMAIN PKI
PkiSubject == [c \in PkiCerts |-> PKI[c].subject]
PkiIssuerName == [c \in PkiCerts |-> PKI[c].issuer]
PkiKey == [c \in PkiCerts |-> PKI[c].key]
PkiSigned == {e \in PkiCerts \X PkiCerts : PKI[e[1]].signer = PKI[e[2]].key}
PkiCAs == {"R", "S", "IR", "IS", "JS", "A", "B"}
PkiSigners == (PkiCAs \cup {"X"}) \ {"JS"}
PkiPathLen == [c \in PkiCerts |-> IF c \in {"S", "IR"} THEN 1 ELSE None]

Input(kind, leaf, extra, ok, expired, signatures) ==
    [kind |-> kind, leaf |-> leaf, extra |-> extra, ok |-> ok,
     expired |-> expired, signatures |-> signatures]

Sig(ok, root) == [ok |-> ok, root |-> root]

SomeInputs ==
    { Input("signature", "X", <<"L", "IS", "IR">>, TRUE, {}, {}),
      Input("certificate", "M", <<"IR", "JS">>, TRUE, {"S"}, {}),
      Input("signature", "N", <<"A", "B">>, FALSE, {}, {}),
      Input("pdf", None, <<>>, TRUE, {}, {Sig(TRUE, "R"), Sig(TRUE, "S")}),
      Input("pdf", None, <<>>, TRUE, {}, {Sig(FALSE, "R")}),
      Input("key", None, <<>>, TRUE, {}, {}),
      Input("unsigned", None, <<>>, FALSE, {}, {}) }

\* Both requests are served by one process, the administrator by another.
OneWorker == [r \in Requests |-> "w1"]

SomeEntries == {<<"M", "ki">>}
\* Either R is trusted, S unknown and no issuer prescribed, or S is trusted, R
\* withdrawn and another issuer prescribed for M.
MCInit ==
    /\ Init
    /\ <<anchors["R"], anchors["S"], allowlist>> \in
         {<<"enabled", "absent", {}>>, <<"disabled", "enabled", SomeEntries>>}

MCSpec == MCInit /\ [][Next]_vars /\ Fairness
=============================================================================
