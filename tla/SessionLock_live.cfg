CONSTANTS
    Outputs = {o1, o2}
    InitOutputs = {o1}
    Clients = {}
    MaxLocks = 2
    Faults = FALSE
SPECIFICATION FairSpec
PROPERTY NativeLockConfirmed
CHECK_DEADLOCK FALSE
