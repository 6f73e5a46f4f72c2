CONSTANTS
    ana = ana
    ben = ben
    cai = cai
    dia = dia
    p1 = p1
    p2 = p2
    NoWallet = NoWallet
    Wallets <- MCWallets
    SeatCount = 3
    Threshold = 2
    RecoveryTimelock = 1
    Amounts <- MCAmounts
    Founders <- MCFounders
    Nonces <- MCNonces
    Offered <- MCOffered
    Elections <- MCNone
    ChildRotations <- MCNone
    MaxTime = 2
    Payees <- MCMultisigs
    Multisigs <- MCMultisigs
    MaxDonated = 1
SPECIFICATION TreasuryLiveSpec
INVARIANTS MoneyAccounted CarriedOutIsDecided
PROPERTIES ImplementsConscience SpendIsPaid
CHECK_DEADLOCK FALSE
