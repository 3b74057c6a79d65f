SPECIFICATION PooledRotationSpec
CONSTANTS
    u1 = u1
    u2 = u2
    User = {u1, u2}
    Owner = u1
    RewardPoolAddr = poolC
    StakingAddr = stakingC
    RotationAddr = rotationC
    EscrowAddr = escrowC
    OtherEscrowAddr = otherC
    NoAddress = zero
    Funds = 2
    MaxTime = 0
    MaxEpoch = 2
    MaxTransactions = 2
    InitialMember = {u1}
    Score = {}
    MAX_COMMITTEE_SIZE = 1
    TOP_K = 2
    BASE_WEIGHT = 1
    MAX_WEIGHT = 4
    ROTATION_INTERVAL = 0
    Random <- MCRandom
    NoRandom = norandom
    InitialCommittee <- MCCommittee
    MaxRotations = 1
    MaxSubmissions = 1
    MaxReputation = 60
INVARIANTS PoolInv
PROPERTIES PaidOncePerEpoch RotationSettlesEpoch
CHECK_DEADLOCK FALSE
