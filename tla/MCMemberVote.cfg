CONSTANTS
    ana = ana
    abe = abe
    c1 = c1
    c2 = c2
    g1 = g1
    n1 = n1
    Anonymous = Anonymous
    NoCosigner = NoCosigner
    Commitments <- MCPair
    Wallets <- MCWallets
    KeysOf <- MCKeysOf
    Servants <- MCWallets
    Secretary = ana
    Humans <- MCNone
    EpochProposals <- MCOneEpoch
    Newcomers <- MCNone
    Revocable <- MCRevocable
    Policies <- MCDirect
    Capacity = 3
    RootHistory = 1
    Period = 3
    MaxTime = 3
    Nonces <- MCOneNonce
    VotingPeriods <- MCPeriods
    MaxVotingPeriod = 2
    SettlePeriod = 1
    MinElectorate = 2
    MinTurnout = 2
    ParentServants <- MCParents
    RuleChoices <- MCRules
SPECIFICATION VoteSpec
INVARIANTS OneMemberOneVote NoLoneConscience
PROPERTIES BallotsFinal
CHECK_DEADLOCK FALSE
