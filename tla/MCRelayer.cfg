CONSTANTS
    r1 = r1
    r2 = r2
    ip1 = ip1
    member = member
    relayer = relayer
    Requests <- MCPair
    CallerOf <- MCCallers
    Allowlist <- MCAllowlist
    Keys <- MCKeys
    RelayerKey = relayer
    NoKey = NoKey
    RateLimit = 2
    GlobalLimit = 3
    RateWindow = 1
    DailyTxs = 1
    DailyLamports = 3
    MinLamports = 1
    EstCost = 2
    FeeEst = 1
    Costs <- MCCosts
    Funds = 4
    CacheTTL = 1
    DayLength = 1
    MaxTime = 1
SPECIFICATION Spec
INVARIANTS ReservationsBalanced FloorHolds BooksCoverLoss FeeOnly
CHECK_DEADLOCK FALSE
