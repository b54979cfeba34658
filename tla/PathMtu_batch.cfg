CONSTANTS
    Ladder <- MCLadder
    FirstSize = 5
    ObjectSizes = {1, 3, 5}
    Repair = 1
    MaxAttempts = 1
    MaxFallbacks = 1
    MaxWire = 2
SPECIFICATION Spec
INVARIANT BatchSuffices
CHECK_DEADLOCK FALSE
