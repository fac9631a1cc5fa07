SPECIFICATION FairSpec
CONSTANTS
    Procs = {p1, p2}
    Tasks = {1, 2, 3}
    PoolSize = 2
    NoTask = NoTask
CONSTRAINT
    Sorted
ACTION_CONSTRAINT
    InOrder
INVARIANTS
    ChainVerifies
    AnchorsTrue
    LoginAtomic
    DamageLocated
PROPERTIES
    ImplementsAuditLog
    TasksFinish
