SPECIFICATION Spec
CONSTANTS
    Queries <- MCQueries
    EmptyQuery = ""
    None = None
    MaxItems = 1
    MaxKeys = 1
    MaxReloads = 0
INVARIANT QuietList
CHECK_DEADLOCK FALSE
