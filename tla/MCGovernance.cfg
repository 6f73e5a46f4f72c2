CONSTANTS
    ana = ana
    ben = ben
    cai = cai
    dia = dia
    p1 = p1
    p2 = p2
    NoWallet = NoWallet
    Wallets <- MCWallets
    SeatCount = 3
    Threshold = 2
    RecoveryTimelock = 1
    Amounts <- MCAmounts
    Founders <- MCFounders
    Nonces <- MCTwoNonces
    Offered <- MCOffered
    Elections <- MCElections
    ChildRotations <- MCChildRotations
    MaxTime = 3
SPECIFICATION Spec
INVARIANTS OneSeatEach ContestWindow
PROPERTIES RemovalContestable Irrevocable
CHECK_DEADLOCK FALSE
