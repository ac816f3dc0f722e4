CONSTANTS
    Packets = {p1, p2, p3}
    Calls = {c1, c2}
    CancelIds = {1, 2}
    CancelId <- MCCancelId
    MaxContexts = 0
    MaxSends = 1
    Nobody = Nobody
SPECIFICATION FairSpec
PROPERTIES
    SendsAreWaitedOut
CHECK_DEADLOCK FALSE
