SPECIFICATION Spec
CONSTANTS
    root = root
    p1 = p1
    p2 = p2
    key = key
    NoEnv = NoEnv
    Procs = {root, p1, p2}
    Root = root
    Names = {key}
    Apps = {root}
    Lengths <- MCLengths
    Settings <- MCSettings
SYMMETRY Symmetry
INVARIANTS
    TypeOK
    ChildrenHoldNoSecret
    LookupsHoldNoSecret
    GrandchildrenArmed
    MapOnlyWherePut
CHECK_DEADLOCK FALSE
