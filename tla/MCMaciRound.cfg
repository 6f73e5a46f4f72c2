CONSTANTS
    ana = ana
    c1 = c1
    c2 = c2
    Members <- MCOneMember
    Surrendered <- MCSurrendered
    Crankers <- MCCrankers
    Deadline = 3
    Batch = 1
    MaxTime = 3
    MaxNonce = 2
    MaxMessages = 3
    Votes = {1}
    MaxIntrusions = 1
    MaxFailures = 1
SPECIFICATION LiveSpec
INVARIANTS ChainIsQueue SignUpHolds OrderFree KeyChangeHolds AuditAgrees
PROPERTIES RoundProcessed
CHECK_DEADLOCK FALSE
