SPECIFICATION LibrarySpec
CONSTANTS
    Nibbles = 2
    EchoLen = 4
    Modulus = 64
    US = 12
    Rate = 4
    CpuFreq = 600
    LoopCycles = 9
    IntMax = 31
    Numbers <- MCNumbers
    Texts <- MCTexts
    Widths <- MCWidths
    MaxSec = 4
    MaxTicks = 24
    DLine = 4
    DSize = 16
    ILine = 8
    ISize = 16
    Bypass = 32
    MaxAddress = 20
    Freq = 50
    Baud = 5
    Speeds = {5, 10}
    Flags = {"8N1", "7E1"}
    Built = "8N1"
INVARIANTS
    TextRight
    TimeKept
    SleepWithinRounding
    RegionFlushed
    SettingsKept
