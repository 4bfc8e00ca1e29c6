SPECIFICATION FairSpec
CONSTANTS
    Solves = {s1, s2}
    Statuses = 2
    Displays = {"plain", "tui"}
INVARIANTS
    TypeOK
    NothingDroppedBeforeCancel
    ReportComplete
    PlainWaitMeansDone
    NoEarlyQuit
PROPERTY EverythingEnds
