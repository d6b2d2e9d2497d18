SPECIFICATION Spec
CONSTANTS
    HasHeader = FALSE
    HasBindings = TRUE
    HasInfo = FALSE
    ChanCap = 6
INVARIANT SendsNeverStuck
