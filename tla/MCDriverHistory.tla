-------------------------- MODULE MCDriverHistory ---------------------------
(* Small instances of the MODBUS driver with its history.                  *)
EXTENDS DriverHistory

CONSTANTS Inputs, Charges

MCReadings == [bits : {{"battpresent"} \cup b : b \in SUBSET Inputs}, chg : Charges, left : {2}]
=============================================================================
