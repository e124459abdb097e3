SPECIFICATION Spec
CONSTANTS
    Clients = {c1, c2, c3}
    Symbols = {s1, s2}
    Builds = {b1, b2, b3}
    NoBuild = NoBuild
    MaxInflight = 2
    MaxSize = 1
    MaxClears = 2
SYMMETRY Symmetry
CHECK_DEADLOCK FALSE
INVARIANTS
    TypeOK
    BuildsBounded
    BuildIsShared
    NoStaleEntry
    OnlyCloseCancels
