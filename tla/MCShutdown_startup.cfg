SPECIFICATION Spec
CONSTANTS
    SHUTDOWN_WAIT = 3
    MaxCall = 2
    MayWedge = FALSE
    SignalAt = {"setup"}
    terminate_on_powerfail = FALSE
INVARIANTS
    NeverUsesFreed
CHECK_DEADLOCK FALSE
