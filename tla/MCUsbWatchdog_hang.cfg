SPECIFICATION Spec
CONSTANTS
    MODBUS_INTERFRAME_TIMEOUT = 5
    MODBUS_IDLE_WAIT_TIMEOUT = 20
    MODBUS_RESPONSE_TIMEOUT = 10
    MODBUS_WATCHDOG_POLL = 1
    MODBUS_WATCHDOG_GRACE = 5
    Hangs = {FALSE, TRUE}
    TimeCap = 40
INVARIANTS
    RxIsBounded
    NoSignalAfterClose
PROPERTIES
    TransferEnds
