SPECIFICATION MCSpec
CONSTANTS
    Workers = {w1, w2}
    Streams = {s1, s2}
    MaxQueue = 2
    MaxAlerts = 4
    Jobs = {anchor, purge}
    Nothing = Nothing
    Limit = 2
    Window = 3
    MaxTime = 8
    MaxHits = 7
    Qubos <- SomeQubos
    AutoMax = 1
    BruteMax = 2
    Sweeps = 2
    Restarts = 2
    Trotter = 2
    Portfolios <- SmallPortfolios
    WaveCounts = {1, 2, 3}
    Capacities = {0, 2, 10}
    Tuners = {"tune"}
    Appliers = {"apply", "again"}
    Rules = {1, 2}
    Samples <- TwoSamples
    FirstWeights <- TwoWeights
    NewWeights = {10}
    Levels <- ThreeLevels
    Similarities <- SmallSimilarities
    Gammas <- SomeGammas
    MaxClusters = 2
    Takers = {"first", "second"}
    Feeds <- TwoOrThree
    Lifetimes = {5}
    Exposures = {"internal", "public"}
    Ahead <- NearAndPast
CHECK_DEADLOCK FALSE
INVARIANTS
    NoGap
    WindowLimit
    BookkeepingExact
    PlanComplete
    TunedNotWorse
    AppliedWhole
    ClustersSound
    ScoresStand
PROPERTIES
    StopEnds
