\* Two atomic loads that lock the same keys in opposite order.
SPECIFICATION FairSpec
CONSTANTS
    a = a
    b = b
    a1 = a1
    a2 = a2
    b1 = b1
    b2 = b2
    n1 = n1
    ka = ka
    kb = kb
    NullKey = NullKey
    NoTable = NoTable
    KeyOf <- MCKeyOfRows
    Mode <- TwoAtomic
    Input <- Crossing
    InitialTable <- EmptyTable
    MaxAttempts = 1
    Loaders = {a, b}
    Rows = {a1, a2, b1, b2, n1}
    InitialColumns = {"k", "v"}
    Columns = {"k", "v"}
    MergeKey = {"k"}
    UniqueTarget = TRUE
INVARIANTS
    TxnIsInputPrefix
    NoStandstill
PROPERTIES
    EachLoadIsAtomic
    EveryLoadSettles
\* A load that was started MaxAttempts times is not started again.
CHECK_DEADLOCK FALSE
