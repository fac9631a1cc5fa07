SPECIFICATION MCSpec
CONSTANTS
    Requests = {r1}
    Worker <- OneWorker
    Inputs <- SomeInputs
    Certs <- PkiCerts
    Subject <- PkiSubject
    IssuerName <- PkiIssuerName
    Key <- PkiKey
    Signed <- PkiSigned
    CAs <- PkiCAs
    CertSigners <- PkiSigners
    PathLen <- PkiPathLen
    Anchorable = {"R", "S"}
    DefaultRoots = {"R", "S"}
    Listable <- SomeEntries
    Outbound = TRUE
    MaxDepth = 4
    MaxEdits = 0
    None = None
CHECK_DEADLOCK FALSE
INVARIANT
    ChainEnforced
