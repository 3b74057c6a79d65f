SPECIFICATION ShareSpec
CONSTANTS
    m1 = m1
    m2 = m2
    SECRET_SHARES = 3
    THRESHOLD = 2
    NumBlocks = 2
    MaxShares = 3
    MsgId = {m1, m2}
    Judged = {m1}
    MsgOfs <- MCMsgOfs
    NoDeal = 0
    Garbage = garbage
    MaxFaults <- MCMaxFaults
INVARIANTS ReconstructionIsADeal AuditSucceedsWhenItCan
PROPERTY DealsEnd
CHECK_DEADLOCK FALSE
