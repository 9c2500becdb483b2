SPECIFICATION Spec
CONSTANTS
    MODBUS_INTERFRAME_TIMEOUT = 1
    MODBUS_IDLE_WAIT_TIMEOUT = 4
    MODBUS_RESPONSE_TIMEOUT = 2
    MODBUS_TOTAL_REQUEST_TIMEOUT = 6
    MODBUS_INTERCHAR_TIMEOUT = 1
    MODBUS_MAX_FRAME_SZ = 3
    LAST_RX_HISTORY = 3
    Transport = "usb"
    Data = {1, 2, 3}
    Kinds = {"good"}
    Faults = {}
    Requests <- MCReads
    Emissions <- MCReemitted
INVARIANTS
    ResponseIsOwn
PROPERTIES
    SendsWhenQuiet
