SPECIFICATION DetectionSpec
CONSTANTS
    n1 = n1
    n2 = n2
    a1 = a1
    c1 = c1
    c2 = c2
    c3 = c3
    NormalUser = {n1, n2}
    AttackUser = {a1}
    Whitelist = {}
    Candidate = {c1, c2, c3}
    IllegalCandidate = {c3}
    CommitteeSize = 2
    Threshold = 1
    NormalWorkers = 2
    AttackWorkers = 2
    AuditEvery = 1
    ElectEvery = 2
    MaxTime = 3
    Scale = 960
SYMMETRY MCSymmetry
INVARIANTS DetectionInv EveryMemberVotedOnEveryCase SanctionTotalsAreTrue RulingsFollowTheVotes
