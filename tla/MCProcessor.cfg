SPECIFICATION ProcessorSpec
CONSTANTS
    W = 4
    Pow2 <- MCPow2
    LoopLength = 2
    TrapHandler = TRUE
    Emulation = TRUE
    Api = TRUE
    Addresses = {0, 1, 2, 3, 4, 5, 6, 7}
    Contents = {0, 1}
    Sections <- MCSections
    BssStart = 7
    BssEnd = 8
    Code = {0, 1}
    Variables = {3, 4, 7}
    Image <- MCImage
    Absent = Absent
INVARIANTS
    Exact
    InstructionsOnce
    StartsClean
