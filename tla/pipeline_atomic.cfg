\* Inserted: rows that commit late, or come again after a run that was not saved.
SPECIFICATION PipelineSpec
CONSTANTS
    null = null
    none = none
    NullCursor = null
    NoValue = none
    Cursors <- FourValues
    Tick = 1
    InitialValue = none
    BatchSize = 2
    SortRank <- Ascending
    RowKey <- OneUpdate
    InOrder = FALSE
    MaxRows = 4
    MaxFaults = 2
    Staged = FALSE
    Orphans = TRUE
INVARIANTS
    NoRowSkipped
    CopiesAreRepeats
