\* A running guest whose config does not parse.
SPECIFICATION HSpec
CONSTANTS
    VMs = {1}
    Pids = {11, 12}
    ConfigValues = {"ok", "unparsable"}
    Unmounts = FALSE
    ReusesPids = FALSE
    MaxRetries = 1
    Ticks = FALSE
    MaxEvents = 2
    MaxNodeSteps = 2
PROPERTY
    RunningMapComplete
