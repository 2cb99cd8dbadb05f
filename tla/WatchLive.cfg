\* Ticks, a queue that overflows, a PID that the guest's next process gets again.
SPECIFICATION HFairSpec
CONSTANTS
    VMs = {1}
    Pids = {11, 12}
    ConfigValues = {"ok"}
    Unmounts = TRUE
    ReusesPids = TRUE
    MaxRetries = 1
    Ticks = TRUE
    MaxEvents = 1
    MaxNodeSteps = 4
PROPERTY
    Converges
