CONSTANTS
    SpkKeep = 2
    MaxEpoch = 6
    MaxDevices = 3
    MaxFailures = 3
SPECIFICATION PrekeysLiveSpec
INVARIANTS SenderReaches
PROPERTIES Heals
CHECK_DEADLOCK FALSE
