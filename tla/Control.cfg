CONSTANTS
    Adapters = {a1, a2, a3}
    Callers = {c1}
    NoAdapter = NoAdapter
    MaxPresent = 3
    Faults = {"hardware", "register", "receive"}
SPECIFICATION FairSpec
INVARIANTS
    MutualExclusion
    MiniportCountExact
    FreedOnlyIfHeldOrShared
PROPERTIES
    RefinesSharedDevice
    MutexIsAcquired
CHECK_DEADLOCK FALSE
