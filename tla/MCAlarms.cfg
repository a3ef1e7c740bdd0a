SPECIFICATION Spec
CONSTANTS
    Alarm = {a1, a2}
    Head = head
    NoLink = nolink
    Wrap = 3
    Delays <- MCDelays
    Periods <- MCPeriods
    TimerIrq = 1
    UartIrq = 2
INVARIANTS
    IInv
    SoundList
    OnTime
PROPERTIES
    TickEnds
