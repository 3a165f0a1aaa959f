CONSTANTS
    Outputs = {o1}
    InitOutputs = {o1}
    Clients = {}
    MaxLocks = 2
    Faults = FALSE
    MaxSleeps = 1
    MaxSignals = 1
    MaxReloads = 0
    MaxRefusals = 1
    Configs <- NativeOnly
SPECIFICATION SleepSpec
CHECK_DEADLOCK FALSE
INVARIANT HeldWhileUnlocked
PROPERTY SleepWaitsForTheLock
