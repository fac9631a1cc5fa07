SPECIFICATION MCSpec
CONSTANTS
    Tokens = {1, 2, 3}
    Requests = {1, 2, 3, 4}
    Tabs = {b1}
    Acts = {a1}
    None = None
CHECK_DEADLOCK FALSE
ACTION_CONSTRAINT
    InOrder
INVARIANT
    ReplayRevokesFamily
