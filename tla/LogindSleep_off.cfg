CONSTANTS
    Outputs = {o1}
    InitOutputs = {o1}
    Clients = {}
    MaxLocks = 1
    Faults = FALSE
    MaxSleeps = 1
    MaxSignals = 0
    MaxReloads = 1
    MaxRefusals = 0
    Configs <- NativeConfigs
SPECIFICATION SleepSpec
CHECK_DEADLOCK FALSE
INVARIANT NothingHeldWhileOff
