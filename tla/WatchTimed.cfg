\* One guest with short backoffs; BaseDelay unset, below and above MaxDelay.
SPECIFICATION TSpec
CONSTANTS
    VMs = {1}
    Pids = {11}
    ConfigValues = {"ok", "unreadable"}
    Unmounts = FALSE
    ReusesPids = FALSE
    MaxRetries = 3
    Ticks = TRUE
    MaxEvents = 2
    MaxNodeSteps = 3
    Options <- WatchOptions
    DefaultBase = 1
    DefaultMax = 4
    Idle = 5
    MaxDuration = 7
    MaxTime = 10
INVARIANT
    TimesTypeOK
PROPERTIES
    NothingOverdue
    BackoffHolds
