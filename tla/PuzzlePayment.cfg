SPECIFICATION PaymentSpec
CONSTANTS
    s1 = s1
    s2 = s2
    p1 = p1
    p2 = p2
    Session = {s1, s2}
    NoSession = NoSession
    Pools = {p1, p2}
    Starts <- MCStarts
    Q = 3
    Shifts = {1, 2}
    Presignatures = {1}
    ChainOutcomes = {TRUE, FALSE}
    ProofOutcomes = {TRUE, FALSE}
INVARIANTS PaymentInv AliceExtractsGamma ReleasedByItsOwner
PROPERTY PaymentFinishes
CHECK_DEADLOCK FALSE
