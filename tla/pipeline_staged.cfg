\* Merged by key: rows that are updated, read twice and landed again, NULL cursors too.
SPECIFICATION FairPipelineSpec
CONSTANTS
    null = null
    none = none
    NullCursor = null
    NoValue = none
    Cursors <- FourValuesOrNull
    Tick = 2
    InitialValue = none
    BatchSize = 2
    SortRank <- Ascending
    RowKey <- OneUpdate
    InOrder = TRUE
    MaxRows = 4
    MaxFaults = 2
    Staged = TRUE
    Orphans = FALSE
INVARIANTS
    MergeNeverRefused
    TargetIsCurrent
    NoRowSkipped
PROPERTIES
    WatermarkNeverBack
    Converges
