SPECIFICATION FairSpec
CONSTANTS
    Configs <- MCConfigs
    MaxItems = 2
    MaxKeys = 2
    MaxFit = 2
    ChanCap = 6
INVARIANTS LeavesExactly HeightExact ExitExact
PROPERTIES GetsActive
CHECK_DEADLOCK FALSE
