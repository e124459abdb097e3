SPECIFICATION Spec
CONSTANTS
    Runs = {r1, r2}
    Symbols = {s1, s2}
    NoRun = NoRun
SYMMETRY RunSymmetry
INVARIANTS
    TypeOK
    SingleActiveRun
    TaskRowFollowsRun
    PublishedIsComplete
    SealMatchesRows
    CaptureQueuedExactly
PROPERTIES
    HistoryIsImmutable
CHECK_DEADLOCK FALSE
