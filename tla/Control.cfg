\* Three processes of any kind in two slots, and two faults.
SPECIFICATION FairSpec
CONSTANTS
    Procs = {1, 2}
    StartBound = 3
    FaultBound = 2
    Windows = TRUE
INVARIANTS
    SingleDaemon
    OperationsExclude
    
    ReadyWasPassed
PROPERTIES
    StatusCatchesUp
CHECK_DEADLOCK FALSE
