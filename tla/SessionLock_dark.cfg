CONSTANTS
    Outputs = {o1, o2}
    InitOutputs = {o1, o2}
    Clients = {}
    MaxLocks = 1
    Faults = FALSE
SPECIFICATION FairSpec
PROPERTY DarkIsNotWaitedFor
CHECK_DEADLOCK FALSE
