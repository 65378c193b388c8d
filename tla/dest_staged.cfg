\* One staged_merge load, restarted twice; the target gets a column in between.
SPECIFICATION Spec
CONSTANTS
    a = a
    b = b
    a1 = a1
    a2 = a2
    b1 = b1
    b2 = b2
    n1 = n1
    ka = ka
    kb = kb
    NullKey = NullKey
    NoTable = NoTable
    KeyOf <- MCKeyOfRows
    Loaders = {a}
    Mode <- OneStaged
    Input <- UpdateAndInsert
    Rows = {a1, a2, b1, n1}
    InitialTable <- HalfFull
    InitialColumns = {"k"}
    Columns = {"k", "v"}
    MergeKey = {"k"}
    UniqueTarget = TRUE
    MaxAttempts = 3
INVARIANTS
    TypeOK
    TxnIsInputPrefix
    FinalizeReportsWholeLoad
    ReportedLoadIsDurable
    ExactlyOnceEffective
PROPERTIES
    EachLoadIsAtomic
\* A load that was started MaxAttempts times is not started again.
CHECK_DEADLOCK FALSE
