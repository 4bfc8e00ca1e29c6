SPECIFICATION FairSpec
CONSTANTS
    a = a
    b = b
    c = c
    d = d
    Jobs = {a, b, c}
    Graphs <- MCGraphsLive
    Parallelism = 1
    Unknown = Unknown
    NoErr = NoErr
    Canceled = Canceled
PROPERTIES
    CancelStops
    Termination
