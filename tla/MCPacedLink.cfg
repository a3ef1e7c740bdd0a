SPECIFICATION Spec
CONSTANTS
    Bytes <- MCBytes
    MinPeriod = 2
    Period = 3
    Gap = 4
INVARIANTS
    SettledAfterPeriod
PROPERTIES
    NoRevert
    ImplementsBank
CHECK_DEADLOCK TRUE
