SPECIFICATION FairSpec
CONSTANTS
    Fills <- CutAnywhere
    MaxEvents = 3
    MaxReloads = 1
INVARIANTS
    TypeOK
    NoClickLost
    RejectsOnlyCutStream
PROPERTIES
    HandlerReturns
    DeliversAsPromised
