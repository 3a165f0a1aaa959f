CONSTANTS
    Outputs = {o1}
    InitOutputs = {o1}
    Clients = {c1}
    MaxLocks = 1
    Faults = FALSE
    MaxSleeps = 1
    MaxSignals = 1
    MaxReloads = 1
    MaxRefusals = 0
    Configs <- LockerConfigs
SPECIFICATION FairSleepSpec
CHECK_DEADLOCK FALSE
INVARIANT SleepTypeOK HeldWhileUnlocked
PROPERTY SleepWaitsForTheLock SleepIsLetGo
