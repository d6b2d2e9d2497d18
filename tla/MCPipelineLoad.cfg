SPECIFICATION Spec
CONSTANTS
    Queries <- MCQueries
    EmptyQuery = ""
    None = None
    MaxItems = 1
    MaxKeys = 0
    MaxReloads = 0
PROPERTY LoadComplete
CHECK_DEADLOCK FALSE
