SPECIFICATION Spec
CONSTANTS
    Queries <- MCQueries
    EmptyQuery = ""
    None = None
    MaxItems = 0
    MaxKeys = 1
    MaxReloads = 1
INVARIANT LastReloadRuns
CHECK_DEADLOCK FALSE
