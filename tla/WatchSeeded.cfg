\* The first sync and a guest that starts after Watch was called.
SPECIFICATION HSpec
CONSTANTS
    VMs = {1}
    Pids = {11, 12}
    ConfigValues = {"ok"}
    Unmounts = FALSE
    ReusesPids = FALSE
    MaxRetries = 1
    Ticks = FALSE
    MaxEvents = 2
    MaxNodeSteps = 4
PROPERTY
    SeededRanBefore
