CONSTANTS
    MaxRecvPackets = 4
    WakeBelow = 3
    PoolSizes = {4}
    Concurrency = 2
    MaxLost = 0
    Faults = {}
SPECIFICATION Spec
INVARIANT HaltWaitsForUsb
CHECK_DEADLOCK FALSE
