SPECIFICATION FairSpec
CONSTANT Chunks = 3
INVARIANTS
    NilMeansLoaded
    NothingLeft
PROPERTY ExportReturns
\* The task ends: ExportReturns tells its end from a deadlock.
CHECK_DEADLOCK FALSE
