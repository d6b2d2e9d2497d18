CONSTANTS
    MaxRequests = 2
    MaxKeys = 2
    MaxLines = 2
    MaxClears = 1
    Height = 2
    Offsets <- MCOffsets
    Follow = FALSE
    CycleScroll = FALSE
SPECIFICATION Spec
INVARIANTS PreviewExact
PROPERTIES LastStarted
CHECK_DEADLOCK FALSE
