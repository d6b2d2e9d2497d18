SPECIFICATION FairSpec
CONSTANTS
    Configs <- MCOneConfigs
    MaxItems = 2
    MaxKeys = 0
    MaxFit = 2
    ChanCap = 6
INVARIANTS OneExact
CHECK_DEADLOCK FALSE
