SPECIFICATION DetokSpec
CONSTANTS
    Alternatives = {0}
    First = 0
    Chunks <- CutAnywhere
    resolved <- MCResolved
    MinHex = 1
    MaxHex = 2
    MAX_PLACEHOLDER_LEN = 7
    MaxText = 8
INVARIANTS Lossless HoldIsBounded
CHECK_DEADLOCK FALSE
