SPECIFICATION Spec
CONSTANTS
    Requests = {}
    AutoTask = auto
    MaxSubmits = 0
    MaxAutos = 0
    MaxScans = 1
    MaxFaults = 1
    MaxCrashes = 0
CHECK_DEADLOCK FALSE
INVARIANTS
    LeaseOutlivesWork
