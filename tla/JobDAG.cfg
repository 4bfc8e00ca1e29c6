SPECIFICATION Spec
CONSTANTS
    a = a
    b = b
    c = c
    d = d
    Jobs = {a, b, c, d}
    Graphs <- MCGraphs4
    Parallelism = 2
    Unknown = Unknown
    NoErr = NoErr
    Canceled = Canceled
INVARIANTS
    TypeOK
    DepsSolvedFirst
    SlotsAccounted
    NoLostWakeup
    CauseIsReal
    VerdictFaithful
PROPERTIES
    ErrFrozenOnceDone
    KeepsPromise
