SPECIFICATION Spec
CONSTANTS
    MODBUS_INTERFRAME_TIMEOUT = 1
    MODBUS_IDLE_WAIT_TIMEOUT = 2
    MODBUS_RESPONSE_TIMEOUT = 2
    MODBUS_TOTAL_REQUEST_TIMEOUT = 4
    MODBUS_INTERCHAR_TIMEOUT = 1
    MODBUS_MAX_FRAME_SZ = 3
    LAST_RX_HISTORY = 1
    Transport = "rs232"
    Data = {1}
    Kinds = {"good", "exception", "garbled"}
    Faults = {"read", "write", "hangup"}
    Requests <- MCRead
    Emissions <- MCNoisy
INVARIANTS
    TypeOK
    CallIsBounded
PROPERTIES
    RetransmitsAfterTimeout
