------------------------------ MODULE MCDevice ------------------------------
(* Small instances of the device loop with its history.                    *)
EXTENDS DeviceHistory

CONSTANTS Inputs,   \* the status bits the UPS may or may not report
          Always,   \* the status bits it always reports
          Charges, Lefts

MCReadings == [bits : {Always \cup b : b \in SUBSET Inputs}, chg : Charges, left : Lefts]
=============================================================================
