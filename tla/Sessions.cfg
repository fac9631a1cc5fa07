SPECIFICATION MCSpec
CONSTANTS
    Tokens = {1, 2, 3}
    Requests = {1, 2, 3, 4}
    Tabs = {b1, b2}
    Acts = {a1, a2, a3, a4}
    None = None
SYMMETRY Symmetry
CHECK_DEADLOCK FALSE
ACTION_CONSTRAINT
    InOrder
CONSTRAINT
    Relevant
INVARIANTS
    SingleUse
    ReplayEndsFamily
    ChangeEndsSessions
    EndsAreExplained
    StoredIsLive
PROPERTY
    DeadStaysDead
