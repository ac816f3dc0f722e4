CONSTANTS
    MaxRecvPackets = 3
    WakeBelow = 2
    PoolSizes = {3}
    Concurrency = 2
    MaxLost = 0
    Faults = {}
SPECIFICATION FairSpec
PROPERTIES
    HaltTerminates
    ReceptionGoesOn
    ShutdownTerminates
CHECK_DEADLOCK FALSE
