SPECIFICATION Spec
CONSTANTS
    Queries <- MCQueries
    EmptyQuery = ""
    None = None
    MaxItems = 2
    MaxKeys = 0
    MaxReloads = 1
INVARIANT DeliveredFresh
CHECK_DEADLOCK FALSE
