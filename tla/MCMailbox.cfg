CONSTANTS
    m1 = m1
    d1 = d1
    d2 = d2
    SpkKeep = 2
    MaxEpoch = 1
    MaxDevices = 2
    MaxFailures = 0
    Mails <- MCMails
    Dummies <- MCDummies
    Lifetimes <- MCLives
    MaxPerBox = 2
    PageSize = 2
    TTL = 1
    MaxAck = 2
    MaxOutstanding = 1
    MaxUnderWay = 2
    MaxTime = 2
SPECIFICATION LiveSpec
INVARIANTS KeptUntilSeen LimitsHold
PROPERTIES Delivered
CHECK_DEADLOCK FALSE
