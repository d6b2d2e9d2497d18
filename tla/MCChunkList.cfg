SPECIFICATION Spec
CONSTANTS
    Cells <- MCCells
    Holders <- MCHolders
    ChunkSize = 2
    HeaderLines = 1
    TailSize = 3
    MaxItems = 5
    MaxCached = 1
INVARIANT OnlyEndsPartial
INVARIANT SnapshotExact
INVARIANT PassViewExact
PROPERTY SnapshotStable
