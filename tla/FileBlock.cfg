SPECIFICATION Spec
CONSTANTS
    Kilo     = 4
    Amount   <- MCAmount
    Kind     <- MCKind
    Files    <- MCFiles
    Fields   <- MCFields
    Words    <- MCWords
    Settings <- MCSettings
    Initial  = 2
    Step     = 3
    LoadSize = 16
    Thousand = 3
    SizeMax  = 4096
INVARIANTS
    TypeOK
    ShowsTheFile
    PrintsAsMeant
CHECK_DEADLOCK FALSE
