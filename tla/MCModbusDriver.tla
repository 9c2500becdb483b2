--------------------------- MODULE MCModbusDriver ---------------------------
(* Small instances of the MODBUS driver in the device loop.                *)
EXTENDS ModbusDriver

CONSTANTS Inputs, Charges

MCReadings == [bits : {{"battpresent"} \cup b : b \in SUBSET Inputs}, chg : Charges, left : {2}]
=============================================================================
