CONSTANTS
    Modulus = 8
    FirstSeqnum = 6
    Latency = 10
    NackSpan = 1
    None = None
    Packets = 4
    MaxDelay = 1
    MaxLosses = 3
    Tolerated = 2
    Start = 3
    Horizon = 32
SPECIFICATION Spec
INVARIANTS
    Ordered
    OnTime
    HolesMarked
    Repaired
CHECK_DEADLOCK FALSE
