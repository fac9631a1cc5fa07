SPECIFICATION Spec
CONSTANTS
    Tuners = {t1}
    Appliers = {a1}
    Rules = {1, 2, 3}
    Samples <- ThreeTogether
    FirstWeights <- Thirds
    NewWeights = {}
    Unit = 30
    Grain = 3
    Levels <- FourLevels
    Threshold = 30
    FpCost = 14
    Nothing = Nothing
CHECK_DEADLOCK FALSE
INVARIANTS
    ShippedNotWorse
