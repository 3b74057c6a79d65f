SPECIFICATION RoundsSpec
CONSTANTS
    MAX_COMMITTEE_SIZE = 3
    TOP_K = 4
    BASE_WEIGHT = 1
    MAX_WEIGHT = 4
    MaxPool = 5
    ScoreValue = {0, 1, 4}
    MaxWord = 15
INVARIANTS TopKIsTheBest WheelIsFair
CHECK_DEADLOCK FALSE
