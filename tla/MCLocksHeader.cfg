SPECIFICATION Spec
CONSTANTS
    HasHeader = TRUE
    HasBindings = FALSE
    HasInfo = FALSE
    ChanCap = 6
INVARIANT NoDeadlock
