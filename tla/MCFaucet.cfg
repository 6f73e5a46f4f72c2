CONSTANTS
    ana = ana
    ben = ben
    Commitments <- MCCommitments
    Revocable <- MCRevocable
    Period = 2
    Defaults <- MCDefaults
    Votes <- MCVotes
    Amounts <- MCAmounts
    MaxPoints = 3
    MaxTime = 2
    Walletless <- MCWalletless
    DefaultGrant = 1
    MaxGrant = 2
    MaxRefillGrants = 1
    Cooldown = 1
    Ballots <- MCBallots
    Funds = 4
    MaxDonated = 1
SPECIFICATION Spec
INVARIANTS KarmaAccounted JarAccounted NobodySingledOut
CHECK_DEADLOCK FALSE
