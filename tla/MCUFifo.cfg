CONSTANTS
    Threads <- ThreadsOfBoth
    Producers = {p1, p2}
    Consumers = {c1}
    Objects = {o1, o2, o3}
    None = None
    Length = 3
    TagMod = 4
    FifoTagMod = 2
    Lists <- EmptyList
SPECIFICATION Spec
SYMMETRY Alike
INVARIANTS
    FifoIntact
PROPERTIES
    Atomic
