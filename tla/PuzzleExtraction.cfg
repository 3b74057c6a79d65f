SPECIFICATION PaymentSpec
CONSTANTS
    s1 = s1
    s2 = s2
    p1 = p1
    p2 = p2
    Session = {s1}
    NoSession = NoSession
    Pools = {p1}
    Starts <- MCOneStart
    Q = 5
    Shifts = {0, 1, 2, 3, 4}
    Presignatures = {1, 2, 3, 4}
    ChainOutcomes = {TRUE}
    ProofOutcomes = {TRUE}
INVARIANT BobExtractsAlpha
CHECK_DEADLOCK FALSE
