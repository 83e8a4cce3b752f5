SPECIFICATION FairSpec
CONSTANTS
    Features = 5
    Temp <- MCTemp
    Input <- MCInput
    Interval = 3
INVARIANTS
    TypeOK
    NoWildPointer
PROPERTIES
    AllShownBeforeFetch
    EveryReadingShown
    FetchedAgain
