CONSTANTS
    phone = phone
    Devices <- MCPhone
    Window = 1
    MaxCuts = 2
    MaxTime = 2
    MaxFaults = 1
SPECIFICATION LiveSpec
INVARIANTS NeverGarbage WindowHeld
PROPERTIES AnyTwo PendingEnds
CHECK_DEADLOCK FALSE
