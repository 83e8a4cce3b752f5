SPECIFICATION FairSpec
CONSTANTS
    NBlocks = 2
    UINT32_MAX = 2
    Configs <- MCOneConfig
    Periodic = {TRUE, FALSE}
    Faults = {"stdout"}
    QueueMax = 1
    ReadCap = 1
    PipeMax = 1
PROPERTIES
    ReloadHonoured
    ClickServed
    TickShown
    StopsWithoutReader
