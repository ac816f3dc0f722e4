CONSTANTS
    MaxRecvPackets = 4
    WakeBelow = 3
    PoolSizes = {0, 1, 4}
    Concurrency = 2
    MaxLost = 1
    Faults = {"alloc", "abort"}
SPECIFICATION Spec
INVARIANTS
    RemoveCountExact
    ReceiveCountExact
    SlotsExact
    OvershootBounded
    WakeupIsOwed
    DrainIsComplete
PROPERTIES
    RefinesRundown
CHECK_DEADLOCK FALSE
