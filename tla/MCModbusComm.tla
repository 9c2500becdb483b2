---------------------------- MODULE MCModbusComm ----------------------------
(* Small instances of the transaction layer; one time unit is 500 ms.      *)
EXTENDS ModbusComm

(* One register, and two whose responses differ in size.                   *)
MCRead == {[fc |-> 3, sz |-> 1]}
MCReads == {[fc |-> 3, sz |-> 1], [fc |-> 3, sz |-> 2]}

(* An answer within a unit or none, re-emitted up to three units later.    *)
MCReemitted == {{}, {0}, {1}, {0, 2}, {0, 3}}
(* A copy that comes much later, and a burst of copies that lasts longer   *)
(* than the wait for silence.                                              *)
MCNoisy == {{}, {0, 4}, {0, 1, 2, 3}}
=============================================================================
