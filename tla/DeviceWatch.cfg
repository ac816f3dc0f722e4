CONSTANTS
    Devices = {d1, d2}
    SaitDevices = {d1}
    Handles = {h1, h2, h3}
    Entries = {e1, e2, e3}
    Exclusive = TRUE
    Control = Control
    Null = Null
    Invalid = Invalid
SPECIFICATION Spec
INVARIANTS
    HandlesOwned
    ControlHandlesOwned
    NoDeviceHandleLeaks
    NotificationFindsEntry
SYMMETRY Symmetry
CHECK_DEADLOCK FALSE
