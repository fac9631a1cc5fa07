SPECIFICATION MCSpec
CONSTANTS
    Requests = {r1, r2, r3, r4}
    MaxAttempts = 2
    NoSecret = NoSecret
    Few = {r1, r2, r3}
    People = {p1, p2}
    Models = {m1, m2, m3}
    NoOne = NoOne
    Keys = {"key"}
    Scopes = {"ingest", "verify"}
SYMMETRY Symmetry
CHECK_DEADLOCK FALSE
INVARIANTS
    AdminRemains
    SerialFailuresLock
    MfaConfirmed
    RevocationHolds
    OneActive
    TriageKept
PROPERTIES
    LockSurvives
    ScoredWasActive
