SPECIFICATION Spec
CONSTANTS
    Requests = {m1, m2}
    AutoTask = auto
    MaxSubmits = 2
    MaxAutos = 1
    MaxScans = 1
    MaxFaults = 1
    MaxCrashes = 1
SYMMETRY Symmetry
CHECK_DEADLOCK FALSE
INVARIANTS
    TypeOK
    RequestRunsOnce
    LiveWorkKept
    GuardCoversWork
    RowHasOwner
PROPERTIES
    ImplementsRequestLedger
