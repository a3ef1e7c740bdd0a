SPECIFICATION Spec
CONSTANTS
    BufLen = 3
    Builds <- MCBuilds
    Flows <- MCFlows
    Lens <- MCLens
    Misframed <- MCMisframed
    Budget = 4
INVARIANTS
    IInv
PROPERTIES
    ImplementsTxQueue
    ImplementsRxQueue
    Drains
    ReaderFetches
CHECK_DEADLOCK FALSE
