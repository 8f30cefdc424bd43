CONSTANTS
    Pipes = {p1, p2}
    QueueLength = 2
    Commands = {"SET_URI"}
    Events = {"EVENT"}
SPECIFICATION TransferFairSpec
INVARIANTS
    LivesLongEnough
    FrozenIsStill
PROPERTIES
    AllFreed
CHECK_DEADLOCK FALSE
