CONSTANTS
    MaxRequests = 2
    MaxKeys = 1
    MaxLines = 2
    MaxClears = 0
    Height = 2
    Offsets <- MCOffsets
    Follow = FALSE
    CycleScroll = FALSE
SPECIFICATION Spec
INVARIANT ShownExact
CHECK_DEADLOCK FALSE
