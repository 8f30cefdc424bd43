CONSTANTS
    Producers = {p1, p2}
    Consumers = {c1}
    Length = 2
    CounterMod = 16
    MaxPush = 4
SPECIFICATION FairSpec
INVARIANTS
    CountsAddUp
    ConsumerWoken
PROPERTIES
    AllDelivered
CHECK_DEADLOCK FALSE
