SPECIFICATION MCSpec
CONSTANTS
    Tokens = {1, 2, 3}
    Requests = {1, 2, 3}
    Tabs = {b1, b2}
    Acts = {a1, a2, a3}
    None = None
SYMMETRY Symmetry
CHECK_DEADLOCK FALSE
ACTION_CONSTRAINT
    InOrder
INVARIANT
    LogoutEndsFamily
