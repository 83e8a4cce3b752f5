SPECIFICATION Spec
CONSTANTS
    NBlocks = 2
    UINT32_MAX = 2
    Configs <- MCConfigs
    Periodic = {TRUE, FALSE}
    Faults = {"config", "update", "handler", "stdin", "stdout", "exec"}
    QueueMax = 2
    ReadCap = 1
    PipeMax = 1
INVARIANTS
    TypeOK
    StalenessBound
    NoClickOutlivesTick
    TimerStillExpired
    StdoutWellFormed
PROPERTIES
    RefreshesAsPromised
