SPECIFICATION Spec
CONSTANTS
    Bytes <- MCBytes
    MinPeriod = 6
    Period = 7
    Scripts = {"calibrateWithBall", "calibrateWithBallStatic", "demoStaticScan"}
    MaxRuns = 3
    GuiBytes = {}
    Faults = {}
INVARIANTS
    CarriedOutBeforeNext
    PairedWithLight
PROPERTIES
    RunEnds
CHECK_DEADLOCK TRUE
