\* One guest, everything the node may do to it, a queue that overflows.
SPECIFICATION HSpec
CONSTANTS
    VMs = {1}
    Pids = {11, 12}
    ConfigValues = {"ok", "unreadable"}
    Unmounts = FALSE
    ReusesPids = FALSE
    MaxRetries = 2
    Ticks = TRUE
    MaxEvents = 3
    MaxNodeSteps = 6
INVARIANTS
    TypeOK
    RetryNotReported
    RetryBudget
    StartsKept
PROPERTIES
    StartedOnce
    RetryKept
    MeetsContract
