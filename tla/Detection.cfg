SPECIFICATION Spec
CONSTANTS
    Runs = {r1, r2, r3}
    Submissions <- SmallSubmissions
    Codes = {"T14"}
    Weights = {1}
    Threshold = 2
    MaxTime = 2
    None = None
SYMMETRY Symmetry
CHECK_DEADLOCK FALSE
CONSTRAINT
    Few
ACTION_CONSTRAINT
    Rarely
INVARIANTS
    EarlierEventsAreSeen
    IncidentBounds
    SerialIncidentsExact
    AlikeAreLinked
    AnnouncedIsDurable
