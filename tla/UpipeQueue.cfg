CONSTANTS
    Length = 1
    OobQueues = 1
    Urefs = {u1, u2}
    Flows = {f1, f2}
    Pumps = {p1, p2}
    Senders = {p1, p2}
    MaxLength = 1
    None = None
SPECIFICATION FairSpec
INVARIANTS
    InOrder
    Described
    SinkLives
    BackPressure
PROPERTIES
    Delivered
    Unblocked
    Ends
CHECK_DEADLOCK FALSE
