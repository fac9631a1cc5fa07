SPECIFICATION MCSpec
CONSTANTS
    Requests = {r1, r2}
    Worker <- OneWorker
    Inputs <- SomeInputs
    Certs <- PkiCerts
    Subject <- PkiSubject
    IssuerName <- PkiIssuerName
    Key <- PkiKey
    Signed <- PkiSigned
    CAs <- PkiCAs
    CertSigners <- PkiSigners
    PathLen <- PkiPathLen
    Anchorable = {"R", "S"}
    DefaultRoots = {"R", "S"}
    Listable <- SomeEntries
    Outbound = TRUE
    MaxDepth = 4
    MaxEdits = 1
    None = None
CHECK_DEADLOCK FALSE
INVARIANTS
    TrustIsGenuine
    ChainFindingsExact
    FoundUnlessAmbiguous
    KeyReuseSeen
    VerdictExplained
PROPERTIES
    EveryRequestEnds
