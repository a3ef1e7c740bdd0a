SPECIFICATION Spec
CONSTANTS
    Bytes <- MCBytes
    MinPeriod = 1
    Period = 2
    Buttons = {1, 3}
    Items = {1, 28}
INVARIANTS
    QuietShowsLast
    IInv
PROPERTIES
    LastPressWins
    ImplementsLossyBank
CHECK_DEADLOCK TRUE
