CONSTANTS
    Sinks = {s1, s2}
    Requests = {r1, r2}
    At <- AtTwoSinks
    Proxies = {p1, p2, p3}
    OobQueues = 2
    None = None
    s1 = s1
    s2 = s2
    r1 = r1
    r2 = r2
SPECIFICATION RequestFairSpec
INVARIANTS
    ProxyCounted
    SourceFollows
PROPERTIES
    Answered
    Reclaimed
CHECK_DEADLOCK FALSE
