SPECIFICATION Spec
CONSTANTS
    bat = bat
    again = again
    mouse = mouse
    charger = charger
    Device = {bat, again, mouse, charger}
    NameOf <- MCNameOf
    Batteries = {bat, again, mouse}
    ModelOf <- MCModelOf
    Excluded = "M705"
    FdMax = 4
INVARIANTS
    TypeOK
    OneOwner
    PrintsWhatItRead
    FailsOnlyOverListed
    ShowsEachNameOnce
    ShowsPresent
