SPECIFICATION Spec
CONSTANTS
    HasHeader = TRUE
    HasBindings = TRUE
    HasInfo = TRUE
    ChanCap = 1
INVARIANT LockOrder
CHECK_DEADLOCK FALSE
