SPECIFICATION FairManagerSpec
CONSTANTS
    Runs = {r1}
    Symbols = {s1}
    NoRun = NoRun
    Procs = {p1}
    NoProc = NoProc
    Faults = {"crash", "persist", "activation"}
    MaxFaults = 1
    MaxLate = 1
    CreateKinds = {"official"}
    AutoSettings = {FALSE, TRUE}
    PoolStale = {FALSE}
    Scores = {"clean"}
PROPERTIES
    EveryScanEnds
    ShutdownReleasesLease
    ImplementsLedger
