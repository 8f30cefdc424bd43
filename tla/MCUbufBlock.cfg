CONSTANTS
    b1 = b1
    b2 = b2
    Handles = {h1, h2}
    Buffers = {b1, b2}
    Payload <- PayloadOf
    Headroom <- HeadroomOf
    Words <- SomeWords
    MaxSegments = 3
    MaxSize = 2
    NULL = NULL
SPECIFICATION BlockSpec
VIEW Distinct
INVARIANTS
    MemoryExact
    LookupsRight
    ReadsRight
PROPERTIES
    Promised
