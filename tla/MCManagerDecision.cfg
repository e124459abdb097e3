SPECIFICATION ManagerSpec
CONSTANTS
    Runs = {r1}
    Symbols = {s1}
    NoRun = NoRun
    Procs = {p1}
    NoProc = NoProc
    Faults = {}
    MaxFaults = 0
    MaxLate = 1
    CreateKinds = {"official"}
    AutoSettings = {FALSE}
    PoolStale = {FALSE, TRUE}
    Scores = {"clean", "fallback", "missing"}
INVARIANTS
    DecisionIsAccepted
