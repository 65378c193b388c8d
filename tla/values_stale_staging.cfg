\* A staging table that was made before the target's column was changed.
SPECIFICATION Spec
CONSTANTS
    Paths <- StaleStaging
    Values <- Canonical
    Sessions <- AnySession
    Words <- AnyWord
    Micro = 10
    NULL = NULL
    Failed = Failed
INVARIANTS
    RoundTrip
\* A value that is stored, or was refused, goes no further.
CHECK_DEADLOCK FALSE
