SPECIFICATION FixedMixerEscrowSpec
CONSTANTS
    User = {o, a}
    Owner = o
    RewardPoolAddr = poolC
    StakingAddr = stakingC
    RotationAddr = rotationC
    EscrowAddr = escrowC
    OtherEscrowAddr = otherC
    NoAddress = zero
    Funds = 5
    MaxTime = 2
    MaxEpoch = 1
    MaxTransactions = 2
    Levels = 1
    ROOT_HISTORY_SIZE = 2
    Leaf = {c1, c2, big}
    FieldElement = {c1, c2}
    ZERO_VALUE = z
    Unset = unset
    HashLeftRight <- MCHash
    EscrowId = {e1, e2}
    DataHash = {h}
    NoHash = nohash
    Denomination = 5
INVARIANTS EscrowSolvent DepositsMatchTree
PROPERTIES EscrowTermsFixed KeepsPromise
CHECK_DEADLOCK FALSE
