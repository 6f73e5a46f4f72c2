CONSTANTS
    phone = phone
    Devices <- MCPhone
    Window = 1
    MaxCuts = 2
    MaxTime = 2
    MaxFaults = 1
SPECIFICATION Spec
INVARIANTS KeptIsReal
CHECK_DEADLOCK FALSE
