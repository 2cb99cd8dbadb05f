\* Two guests with every kind of config that List tells apart from a running one.
SPECIFICATION HSpec
CONSTANTS
    VMs = {1, 2}
    Pids = {11, 12}
    ConfigValues = {"ok", "template", "unreadable", "gone"}
    Unmounts = FALSE
    ReusesPids = FALSE
    MaxRetries = 1
    Ticks = FALSE
    MaxEvents = 2
    MaxNodeSteps = 2
PROPERTY
    RunningMapComplete
