CONSTANTS
    Threads = {t1, t2}
    Objects = {o1, o2, o3}
    None = None
    Length = 2
    TagMod = 4
    Lists <- BothLists
SPECIFICATION FairSpec
INVARIANTS
    RingKept
PROPERTIES
    Atomic
    LockFree
