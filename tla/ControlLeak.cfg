CONSTANTS
    Adapters = {a1, a2}
    Callers = {c1}
    NoAdapter = NoAdapter
    MaxPresent = 2
    Faults = {"receive"}
SPECIFICATION Spec
SYMMETRY Symmetry
INVARIANT LastHaltDeletesDevice
CHECK_DEADLOCK FALSE
