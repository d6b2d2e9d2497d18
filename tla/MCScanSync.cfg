SPECIFICATION MCAtRest
CONSTANTS
    NumChunks = 2
    SliceOf <- MCTwoSlices
    Items <- MCItems
    Queries <- MCQueries
    EmptyQuery = ""
    Cacheable <- MCCacheable
    SubKeys <- MCSubKeys
    Nths = {1, 2}
    MatchesIn <- MCFits
    None = None
    QueryCacheMax = 2
    MergerCacheMax = 6
    MaxActions = 3
INVARIANT FieldsExact
CHECK_DEADLOCK FALSE
