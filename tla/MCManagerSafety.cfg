SPECIFICATION ManagerSpec
CONSTANTS
    Runs = {r1}
    Symbols = {s1}
    NoRun = NoRun
    Procs = {p1, p2}
    NoProc = NoProc
    Faults = {"crash", "persist", "activation", "window"}
    MaxFaults = 1
    MaxLate = 1
    CreateKinds = {"official"}
    AutoSettings = {TRUE}
    PoolStale = {FALSE}
    Scores = {"clean"}
SYMMETRY ProcSymmetry
INVARIANTS
    ManagerTypeOK
    LeaseCoversTasks
    TakeoverFindsNoTask
    ActiveRunHasOwner
    CancelledOnlyOnRequest
