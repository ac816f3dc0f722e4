CONSTANTS
    Packets = {p1, p2, p3}
    Calls = {c1, c2}
    CancelIds = {1, 2}
    CancelId <- MCCancelId
    MaxContexts = 1
    MaxSends = 2
    Nobody = Nobody
SPECIFICATION FairSpec
INVARIANTS
    SendCountExact
    OnePlacePerPacket
PROPERTIES
    AcceptedBlocksHalt
    RefinesRundown
    CallsReturn
    HaltEndsIfUnused
CHECK_DEADLOCK FALSE
