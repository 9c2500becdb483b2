------------------------------- MODULE Drivers -------------------------------
(***************************************************************************)
(* The drivers side by side, under the daemon that calls the one it        *)
(* attached.  (The MODBUS driver has modules of its own.)                  *)
(***************************************************************************)
EXTENDS DumbDriver, TestDriver, NetDriver, PcnetDriver, SnmpDriver, SmartDriver, UsbDriver

driverVars == <<dumbVars, netVars, pcnetVars, snmpVars, smartVars, usbVars>>
vars == <<upsVars, driverVars>>

(* Of the drivers that are not configured one initial state is enough.     *)
Unless(mode, value, values) ==
    options.mode # mode => value = CHOOSE v \in values : TRUE

Init ==
    /\ UpsInit
    /\ DumbInit /\ NetInit /\ PcnetInit /\ SnmpInit /\ SmartInit /\ UsbInit
    /\ Unless("dumb", cable, Cables) /\ Unless("net", master, Masters)
    /\ Unless("pcnet", auth, BOOLEAN) /\ Unless("snmplite", agent, Agents)
    /\ Unless("usb", platform, Platforms)

(* The daemon does nothing while a call of the smart driver runs.          *)
Returned == smart.call = "none"

Daemon ==
    /\ Returned
    /\ do_action \/ initiate_hibernate \/ Terminate
    /\ UNCHANGED driverVars

Attach == attach_driver /\ UNCHANGED driverVars
Weather == World /\ UNCHANGED driverVars

Dumb == DumbNext /\ UNCHANGED <<netVars, pcnetVars, snmpVars, smartVars, usbVars>>
Test == TestNext /\ UNCHANGED driverVars
Net == NetNext /\ UNCHANGED <<dumbVars, pcnetVars, snmpVars, smartVars, usbVars>>
Pcnet == PcnetNext /\ UNCHANGED <<dumbVars, netVars, snmpVars, smartVars, usbVars>>
Snmp == SnmpNext /\ UNCHANGED <<dumbVars, netVars, pcnetVars, smartVars, usbVars>>
Smart == SmartNext /\ UNCHANGED <<dumbVars, netVars, pcnetVars, snmpVars, usbVars>>
Usb == UsbNext /\ UNCHANGED <<dumbVars, netVars, pcnetVars, snmpVars, smartVars>>

(* A program that has ended, in whatever call of its driver, stays so.     *)
Running == phase \notin {"closed", "aborted"}

Next ==
    /\ Running
    /\ \/ Attach \/ Weather \/ Daemon
       \/ Dumb \/ Test \/ Net \/ Pcnet \/ Snmp \/ Smart \/ Usb

Spec == Init /\ [][Next]_vars

---------------------------------------------------------------------------
(* Bits that do_action() sets and relies on at its next turn (that the     *)
(* users were told of the outage, that a shutdown is under way) survive    *)
(* every call of every driver, whatever status the UPS or a master sends.  *)
(* Only the test driver wipes them.                                        *)
DaemonBitsKept ==
    [][phase # "act" /\ driver # "test"
          => Status' \cap DaemonBits = Status \cap DaemonBits]_vars

(* A daemon that monitors is not ended by its driver, however long the UPS *)
(* is away: a lost UPS is waited for.  The exception is USB on Linux, in   *)
(* which the device must not go away between open_usb_device() and the     *)
(* first ioctl() of pusb_ups_get_capabilities().                           *)
LossIsSurvived ==
    [][phase' = "aborted" /\ phase \in {"fill", "check"}
          => driver = "usb" /\ platform = "linux"]_vars

(* The COMMLOST bit and the communication events of every driver, from the *)
(* retries of open_ups() on, are those of LinkReport: a failure is not     *)
(* announced twice, and no driver clears the bit of a loss it announced    *)
(* without announcing the end.                                             *)
Report == INSTANCE LinkReport WITH lost <- "commlost" \in Status, told <- told, news <- news
ImplementsLinkReport == Report!Spec
=============================================================================
