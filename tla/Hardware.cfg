CONSTANTS
    Devices <- MCDevices
    Asked <- MCAsked
    Lengths = {0, 1, 2, 3, 4, 5, 6, 25, 26, 199, 200}
    Filters = {"initial", "none"}
    Modulus = 4
    MaxArrivals = 2
SPECIFICATION OidSpec
\* The adapter is initialised and halted once.
CHECK_DEADLOCK FALSE
INVARIANTS
    AdapterTypeOK
    OneOwner
    NothingLeaks
    RunningIsComplete
    EndDeselects
    SecondTryAnswers
    AddressFallsBack
PROPERTY ReportedIsFresh
