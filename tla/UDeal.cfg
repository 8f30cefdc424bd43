CONSTANTS
    Clients = {c1, c2, c3}
    MaxTurns = 2
SPECIFICATION DealFairSpec
INVARIANTS
    MutualExclusion
    CountersSettle
    NoLostWakeup
PROPERTIES
    SoloProgress
CHECK_DEADLOCK FALSE
