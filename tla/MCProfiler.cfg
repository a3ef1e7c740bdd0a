SPECIFICATION ProfilerSpec
CONSTANTS
    Arcs <- MCArcs
    IrqArcs <- MCIrqArcs
    AlarmStart <- MCAlarmStart
    SlabRecords = 4
    HistRecords = 3
    HeapRecords = 18
    MaxCalls = 2
INVARIANTS
    ProfilerInv
    CallsCounted
    SamplerRuns
CHECK_DEADLOCK FALSE
