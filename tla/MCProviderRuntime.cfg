SPECIFICATION Spec
CONSTANTS
    Callers = {c1, c2, c3}
    Keys = {k1, k2, k3}
    NoCall = NoCall
    Limits = {1, 2}
    MaxWorkers = 1
    Adapters = {"sync", "async"}
SYMMETRY Symmetry
CHECK_DEADLOCK FALSE
INVARIANTS
    TypeOK
    OneFetchPerKey
    CapabilityLimit
    NothingAbandoned
    SharedNotCancelled
    NoLostWakeup
    QuiescedMeansIdle

