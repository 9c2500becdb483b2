------------------------------ MODULE Programs -------------------------------
(***************************************************************************)
(* What is around the drivers: the start of the daemon and its lock file,  *)
(* the network information server with its clients, the coding of SNMP     *)
(* messages, the programming of a smart UPS, and apctest.  They share no   *)
(* state, so a behaviour is one of one part.                               *)
(***************************************************************************)
EXTENDS Startup, Nis, Asn, Eeprom, Apctest

VARIABLE part       \* the part that runs in this behaviour

vars == <<startVars, nisVars, asnVars, eepromVars, testVars, part>>

(* Of the parts that do not run one initial state is enough.               *)
Init ==
    /\ part \in {"startup", "nis", "asn", "eeprom", "apctest"}
    /\ StartupInit /\ NisInit /\ AsnInit /\ EepromInit /\ ApctestInit
    /\ part # "startup" => \A f \in Paths : lockfile[f] = "none"
    /\ part # "nis" => busy = "readings"
    /\ part # "eeprom" => \A n \in Items : place[n] = 1 /\ ~Configured(n)
    /\ part # "apctest" => tool.mode = "apcsmart" /\ unit.reg = "NONE" /\ unit.setting = CHOOSE v \in Accepted : TRUE

StartupPart == part = "startup" /\ StartupNext /\ UNCHANGED <<nisVars, asnVars, eepromVars, testVars, part>>
NisPart == part = "nis" /\ NisNext /\ UNCHANGED <<startVars, asnVars, eepromVars, testVars, part>>
AsnPart == part = "asn" /\ AsnNext /\ UNCHANGED <<startVars, nisVars, eepromVars, testVars, part>>
EepromPart == part = "eeprom" /\ EepromNext /\ UNCHANGED <<startVars, nisVars, asnVars, testVars, part>>
ApctestPart == part = "apctest" /\ ApctestNext /\ UNCHANGED <<startVars, nisVars, asnVars, eepromVars, part>>

Next == StartupPart \/ NisPart \/ AsnPart \/ EepromPart \/ ApctestPart

Spec == Init /\ [][Next]_vars
=============================================================================
