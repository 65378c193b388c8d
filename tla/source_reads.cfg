\* Exact cursors above an initial_value, read in batches of two.
SPECIFICATION FairSpec
CONSTANTS
    null = null
    none = none
    NullCursor = null
    NoValue = none
    Cursors <- FourValues
    Tick = 1
    InitialValue = 1
    BatchSize = 2
    SortRank <- Ascending
    RowKey <- OneUpdate
    InOrder = TRUE
    MaxRows = 4
    MaxFaults = 2
INVARIANTS
    TypeOK
    BatchesArePrefix
    WatermarkIsHighest
    ReadOnce
PROPERTIES
    QueryFindsTheRest
    EveryRowLands
