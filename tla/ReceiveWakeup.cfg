CONSTANTS
    MaxRecvPackets = 4
    WakeBelow = 3
    PoolSizes = {4}
    Concurrency = 2
    MaxLost = 0
    Faults = {}
SPECIFICATION Spec
INVARIANT WaitingThreadIsWoken
CHECK_DEADLOCK FALSE
