SPECIFICATION CommitteeManagerSpec
CONSTANTS
    u1 = u1
    u2 = u2
    User = {u1, u2}
    Owner = u1
    RewardPoolAddr = poolC
    StakingAddr = stakingC
    RotationAddr = rotationC
    EscrowAddr = escrowC
    OtherEscrowAddr = otherC
    NoAddress = zero
    Funds = 0
    MaxTime = 2
    MaxEpoch = 1
    MaxTransactions = 0
    InitialMember = {u1}
    Score = {100}
    MAX_COMMITTEE_SIZE = 2
    TOP_K = 2
    BASE_WEIGHT = 1
    MAX_WEIGHT = 4
    ROTATION_INTERVAL = 1
    Random <- MCRandom
    NoRandom = norandom
    InitialCommittee <- MCCommittee
    MaxRotations = 2
    MaxSubmissions = 3
    MaxReputation = 100
INVARIANTS RotationInv EachSubmissionDrawsOnce HistoryIsTrue ManagerInv StaleCopyIsDatable
PROPERTY ReputationMovesSlowly
CHECK_DEADLOCK FALSE
