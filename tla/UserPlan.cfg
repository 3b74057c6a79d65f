SPECIFICATION UserSpec
CONSTANTS
    Kinds = {"normal", "rule", "llm"}
    ALLOWED_AMOUNTS = {10, 30}
    Junk = {15}
    Task = 50
    TimeLeft = 3
    PlanLength = 2
    MaxPerMinute = 2
    Drift <- MCDrift
    TOL = 2
    Histories <- MCHistories
    MaxTime = 5
INVARIANTS UserInv StatMatchesHistory TaskIsConserved PlansAreSound
CHECK_DEADLOCK FALSE
