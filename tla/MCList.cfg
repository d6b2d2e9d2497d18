CONSTANTS
    MaxIndex = 3
    MaxLoads = 1
    MaxKeys = 2
    MaxLists = 2
    Lines <- MCLines
    Gap = 0
    ScrollOff = 1
    Cycle = TRUE
    Upside = FALSE
    Tac = FALSE
    Multi = 2
    InitTrack = "on"
    JumpLabels = 2
    Heights = {2, 3}
    MaxInput = 3
    Acts <- MCActs
SPECIFICATION Spec
INVARIANTS ScreenExact CursorShown PreviewFresh
PROPERTIES TrackKeeps TailExact
CHECK_DEADLOCK FALSE
