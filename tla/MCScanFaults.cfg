SPECIFICATION Spec
CONSTANTS
    Bytes <- MCBytes
    MinPeriod = 6
    Period = 7
    Scripts = {"calibrateWithBall", "DemoScan"}
    MaxRuns = 3
    GuiBytes = {94}
    Faults = {"busy", "timeout", "interrupt", "processing"}
INVARIANTS
    ShotShowsCommands
    PairedWithLight
    PortGranted
    DarkWhenClosed
CHECK_DEADLOCK TRUE
