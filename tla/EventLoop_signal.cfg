SPECIFICATION Spec
CONSTANTS
    NBlocks = 1
    UINT32_MAX = 2
    Configs <- MCSingle
    Periodic = {TRUE}
    Faults = {}
    QueueMax = 1
    ReadCap = 1
    PipeMax = 1
INVARIANTS
    SignalNeverKills
