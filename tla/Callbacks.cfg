SPECIFICATION FairSpec
CONSTANTS
    clicked = clicked
    updated = updated
    printed = printed
    filed = filed
    native = native
    v1 = v1
    v2 = v2
    Order <- MCOrder
    Language <- MCLanguage
    Role <- MCRole
    Inline <- MCInline
    Slot <- MCSlot
    View = {v1, v2}
INVARIANTS
    TypeOK
    CountsBalanced
    LockHeld
PROPERTIES
    ThreadRuns
