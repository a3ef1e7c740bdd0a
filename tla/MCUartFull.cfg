SPECIFICATION Spec
CONSTANTS
    BufLen = 3
    Builds <- MCBuilds
    Flows <- MCFlows
    Lens <- MCLens
    Misframed <- MCMisframed
    Budget = 4
PROPERTIES
    NothingDiscarded
CHECK_DEADLOCK FALSE
