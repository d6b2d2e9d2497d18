SPECIFICATION MCSpec
CONSTANTS
    Queries <- MCQueries
    EmptyQuery = ""
    None = None
    MaxItems = 2
    MaxKeys = 2
    MaxReloads = 2
INVARIANTS ReadingExact SyncAtomic LastReloadWins
PROPERTIES FinderSpec ReloadStarts LoadFires CompleteUnlessBoth
CHECK_DEADLOCK FALSE
