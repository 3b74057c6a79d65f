SPECIFICATION MCSpec
CONSTANTS
    u1 = u1
    u2 = u2
    u3 = u3
    t1 = t1
    t2 = t2
    t3 = t3
    Id = {u1, u2, u3}
    Thread = {t1, t2, t3}
    Free = Free
    Plans <- MCPlans
    Batches <- MCBatches
    Reports <- MCReports
    Step = 10
    Stage = 20
    RuleFrom = 2
    MaxRequests = 3
    Total = 2
    MaxTimeouts = 1
INVARIANTS AgentInv InterceptionsReachEveryone PaymentsAreAccounted
PROPERTIES StageIsNotOverrun ClientsAreAnswered
CHECK_DEADLOCK FALSE
