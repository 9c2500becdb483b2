SPECIFICATION Spec
CONSTANTS
    SHUTDOWN_WAIT = 3
    MaxCall = 2
    MayWedge = TRUE
    SignalAt = {"cycle"}
    terminate_on_powerfail = TRUE
INVARIANTS
    LoopKeepsComm
PROPERTIES
    TerminationEnds
CHECK_DEADLOCK FALSE
