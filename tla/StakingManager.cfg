SPECIFICATION StakingManagerSpec
CONSTANTS
    User = {o, m}
    Owner = o
    RewardPoolAddr = poolC
    StakingAddr = stakingC
    RotationAddr = rotationC
    EscrowAddr = escrowC
    OtherEscrowAddr = otherC
    NoAddress = zero
    Funds = 4
    MaxTime = 0
    MaxEpoch = 1
    MaxTransactions = 0
    REQUIRED_STAKE = 2
INVARIANTS TotalIsSumOfStakes StakesBacked
CHECK_DEADLOCK FALSE
