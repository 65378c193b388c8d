\* Any type into any other.
SPECIFICATION Spec
CONSTANTS
    Paths <- AnyPath
    Values <- AnyValue
    Sessions <- AnySession
    Words <- AnyWord
    Micro = 10
    NULL = NULL
    Failed = Failed
INVARIANTS
    RoundTrip
    SameMeaning
\* A value that is stored, or was refused, goes no further.
CHECK_DEADLOCK FALSE
