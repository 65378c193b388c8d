\* Any cursor_column over any query, any columns into any target, any merge_key.
SPECIFICATION Spec
CONSTANTS
    Names <- SomeNames
    Upper <- UpperCase
    Simple <- Letters
    NoName = NoName
    Queries <- AnyTable
    Foreign <- AnyTable
    Targets <- AnyTable
    Cursors <- AnyCursor
    Keys <- AnyKey
INVARIANTS
    CursorIsTheWatermark
    BindsFitTheirColumns
    MergeWellFormed
\* Columns that were inserted, or were refused, go no further.
CHECK_DEADLOCK FALSE
