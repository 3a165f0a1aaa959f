CONSTANTS
    Outputs = {o1, o2}
    InitOutputs = {o1, o2}
    Clients = {c1}
    MaxLocks = 2
    Faults = TRUE
SPECIFICATION Spec
SYMMETRY Symmetry
INVARIANT TypeOK NoDesktopOnceLocked DarkShowsNothing
CHECK_DEADLOCK FALSE
