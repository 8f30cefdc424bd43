CONSTANTS
    Threads <- ThreadsOfBoth
    Producers = {p1}
    Consumers = {c1, c2}
    Objects = {o1, o2, o3}
    None = None
    Length = 3
    TagMod = 64
    FifoTagMod = 16
    Lists <- EmptyList
SPECIFICATION Spec
INVARIANTS
    FifoIntact
