SPECIFICATION Spec
CONSTANTS
    Fills <- NeverCut
    MaxEvents = 2
    MaxReloads = 1
INVARIANTS
    ReloadSurvived
