\* No ticks, and events are lost.
SPECIFICATION HSpec
CONSTANTS
    VMs = {1}
    Pids = {11, 12}
    ConfigValues = {"ok"}
    Unmounts = FALSE
    ReusesPids = FALSE
    MaxRetries = 1
    Ticks = FALSE
    MaxEvents = 2
    MaxNodeSteps = 7
INVARIANT
    NoStartLost
