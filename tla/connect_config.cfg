\* Any settings, any build.
SPECIFICATION Spec
CONSTANTS
    U64 = 131072
    Builds <- AnyBuild
    Timeouts <- AnyTimeout
    None = None
INVARIANTS
    SessionsArePinned
    WaitsNoLonger
    TimeoutAsWritten
\* A session in use, an error and a panic are the end.
CHECK_DEADLOCK FALSE
