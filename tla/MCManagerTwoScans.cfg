SPECIFICATION ManagerSpec
CONSTANTS
    Runs = {r1, r2}
    Symbols = {s1}
    NoRun = NoRun
    Procs = {p1}
    NoProc = NoProc
    Faults = {}
    MaxFaults = 0
    MaxLate = 1
    CreateKinds = {"official"}
    AutoSettings = {FALSE}
    PoolStale = {FALSE}
    Scores = {"clean"}
SYMMETRY RunSymmetry
INVARIANTS
    OneScanComputes
