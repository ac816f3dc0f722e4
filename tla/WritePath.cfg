CONSTANTS
    Users = {u1, u2, u3}
    Packets <- MCPackets
    MaxContexts = 2
    MaxTotalSize = 6
    Slack = 1
    FirstPipeSize = 2
    OutPipeSize = 2
SPECIFICATION FairWriteSpec
INVARIANTS
    EventIsOwed
    RemoveCountExact
    ContextsExact
    FreedAfterTransfers
    TransferEndsShort
PROPERTIES
    RefinesRundown
    HaltUnlessAbandoned
CHECK_DEADLOCK FALSE
