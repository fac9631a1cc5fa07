SPECIFICATION Spec
CONSTANTS
    Tuners = {t1, t2}
    Appliers = {a1}
    Rules = {1, 2}
    Samples <- MCSamples
    FirstWeights <- MCFirstWeights
    NewWeights = {10}
    Unit = 30
    Grain = 3
    Levels <- MCLevels
    Threshold = 30
    FpCost = 14
    Nothing = Nothing
CHECK_DEADLOCK FALSE
INVARIANTS
    RunsAgree
