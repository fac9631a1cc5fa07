SPECIFICATION Spec
CONSTANTS
    Procs = {p1, p2}
    Tasks = {t1, t2}
    PoolSize = 2
    NoTask = NoTask
INVARIANT LoginSurvivesAuditError
