SPECIFICATION FairSpec
CONSTANTS
    Configs <- MCHangConfigs
    MaxItems = 4
    MaxKeys = 0
    MaxFit = 2
    ChanCap = 3
PROPERTIES GetsActive
CHECK_DEADLOCK FALSE
