SPECIFICATION MerkleSpec
CONSTANTS
    Levels = 3
    ROOT_HISTORY_SIZE = 3
    Leaf = {l1, l2, big}
    FieldElement = {l1, l2}
    ZERO_VALUE = z
    Unset = unset
    HashLeftRight <- MCHash
INVARIANTS MerkleInv KnownRootsAreTheRecentOnes
CHECK_DEADLOCK FALSE
