SPECIFICATION Spec
CONSTANTS
    battery = battery
    custom = custom
    unknown = unknown
    Known <- MCKnown
    Custom = custom
    Default <- MCDefault
    Unknown = unknown
    NoOrder = noOrder
    Settings <- MCSettings
    OrderBuffer = 3
    CallbackCnt = 2
    MaxOrder = 4
INVARIANTS
    TypeOK
    HandlersFit
    FirstAsConfigured
    BarAsOrdered
