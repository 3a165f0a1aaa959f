CONSTANTS
    Outputs = {o1, o2}
    InitOutputs = {o1}
    Clients = {c1, c2}
    MaxLocks = 2
    Faults = FALSE
SPECIFICATION Spec
SYMMETRY Symmetry
INVARIANT NoDesktopOnceLocked OnlyTheHolderIsTold
PROPERTY KeepsItsPromise UnlockedByItsHolder HeldUntilReleased
CHECK_DEADLOCK FALSE
