CONSTANTS
    ana = ana
    ben = ben
    c1 = c1
    c2 = c2
    h1 = h1
    g1 = g1
    Anonymous = Anonymous
    Commitments <- MCPair
    Wallets <- MCWallets
    KeysOf <- MCKeysOf
    Servants <- MCServants
    Secretary = ana
    Humans <- MCOneHuman
    EpochProposals <- MCOneEpoch
    Newcomers <- MCPair
    Revocable <- MCRevocable
    Policies <- MCAllPolicies
    Capacity = 2
    RootHistory = 2
    Period = 1
    MaxTime = 2
SPECIFICATION LiveSpec
INVARIANTS CountWithinTree LeafOnce GoodStanding PinnedPositions GlassHolds
PROPERTIES RebuildHeals DoorsHeld
CHECK_DEADLOCK FALSE
