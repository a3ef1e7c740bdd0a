SPECIFICATION Spec
CONSTANT
    Jobs <- MCJobs
INVARIANTS
    Sound
    SimulationLoads
CHECK_DEADLOCK TRUE
