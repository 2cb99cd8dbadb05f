\* A sync that overtakes queued file events.
SPECIFICATION HSpec
CONSTANTS
    VMs = {1}
    Pids = {11, 12}
    ConfigValues = {"ok"}
    Unmounts = FALSE
    ReusesPids = FALSE
    MaxRetries = 1
    Ticks = TRUE
    MaxEvents = 3
    MaxNodeSteps = 4
PROPERTY
    StoppedIsGone
