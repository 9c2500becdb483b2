------------------------------ MODULE DumbDriver -----------------------------
(***************************************************************************)
(* The simple-signalling driver of src/drivers/dumb: which serial line     *)
(* means what depends on the cable, and the line that kills the UPS is one *)
(* the kernel raises when it opens the port.                               *)
(***************************************************************************)
EXTENDS UpsDriver

CONSTANT Cables     \* one of each family of cables

VARIABLES
    cable,          \* ups->cable.type
    outLines        \* the output lines that are set: RTS, DTR, ST

dumbVars == <<cable, outLines>>

(* The switch statements of the driver group the cables.  "0119A" stands   *)
(* for 0127A, 0128A, 0020B and 0020C too, and "0095A" for 0095C.           *)
RtsKills == {"CUSTOM_SIMPLE", "0095A", "0095B"}
DtrKills == {"0119A"}

ASSUME DumbAssumption == Cables \subseteq RtsKills \cup DtrKills \cup {"0023A", "MAM"}

(* How the cables are wired: the input lines a UPS that does t raises.     *)
InputLines(c, t) ==
    LET batt == "onbatt" \in t
        low  == "battlow" \in t
        when(on, line) == IF on THEN {line} ELSE {}
    IN CASE c = "CUSTOM_SIMPLE" -> when(batt, "CD") \cup when(~low, "CTS")
         [] c = "0119A"         -> when(batt, "CTS") \cup when(low, "CD")
         [] c = "0023A"         -> when(batt, "CD")
         [] c = "0095A"         -> when(batt, "RNG") \cup when(low, "CD")
         [] c = "0095B"         -> when(batt, "RNG")
         [] c = "MAM"           -> when(~batt, "CTS") \cup when(~low, "CD")

(* What the driver concludes from them.  A cable without a line for a low  *)
(* battery leaves the bit as it is.                                        *)
LineSaysBattery(c, in) ==
    CASE c \in {"CUSTOM_SIMPLE", "0023A"} -> "CD" \in in
      [] c = "0119A"                      -> "CTS" \in in
      [] c \in {"0095A", "0095B"}         -> "RNG" \in in
      [] c = "MAM"                        -> "CTS" \notin in
LineSaysLow(c, in, old) ==
    CASE c = "CUSTOM_SIMPLE"      -> "CTS" \notin in
      [] c \in {"0119A", "0095A"} -> "CD" \in in
      [] c = "MAM"                -> "CD" \notin in
      [] OTHER                    -> old
DumbStatus(in) ==
    LET s == IF LineSaysBattery(cable, in) THEN clear_online(Status) ELSE set_online(Status)
    IN SetTo(s, "battlow", LineSaysLow(cable, in, "battlow" \in s)) \ {"replacebatt"}

DumbInit == cable \in Cables /\ outLines = {}

(* Open(): the kernel raises RTS and DTR; a failure ends the program.      *)
DumbOpen ==
    /\ driver = "dumb" /\ phase = "open"
    /\ \/ link = "down" /\ Abort /\ UNCHANGED <<Status, tries, outLines>>
       \/ /\ link = "up"
          /\ OpenSucceeds(Status \ {"slave"})
          /\ outLines' = outLines \cup {"RTS", "DTR"}
    /\ UNCHANGED <<driver, options, truth, link, cable>>

(* setup() and get_capabilities().                                         *)
SetupLines_left == outLines                     \* mutant: setup() leaves them as they are
SetupLines ==
    CASE cable = "CUSTOM_SIMPLE"                 -> (outLines \ {"RTS"}) \cup {"DTR"}
      [] cable \in DtrKills \cup {"MAM"}         -> (outLines \ {"DTR"}) \cup {"RTS"}
      [] cable \in RtsKills \ {"CUSTOM_SIMPLE"}  -> outLines \ {"RTS"}
      [] OTHER                                   -> outLines
DumbSetup ==
    /\ driver = "dumb" /\ phase = "setup"
    /\ outLines' = SetupLines
    /\ SetupDone(TRUE)
    /\ UNCHANGED <<driver, Status, tries, options, truth, link, cable>>

(* read_volatile_data(), which check_state() calls, too.                   *)
DumbRead ==
    /\ driver = "dumb" /\ phase \in {"fill", "check"}
    /\ Status' = DumbStatus(InputLines(cable, truth))
    /\ phase' = IF phase = "fill" THEN "act" ELSE "fill"
    /\ Silent
    /\ UNCHANGED <<driver, tries, options, truth, link, dumbVars>>

(* entry_point(DEVICE_CMD_DTR_ENABLE), called by do_action() when a power  *)
(* failure begins.  DEVICE_CMD_DTR_ST_DISABLE leaves the lines set.        *)
DumbDtrEnable ==
    /\ driver = "dumb" /\ phase = "act" /\ "onbatt" \in Status
    /\ cable = "CUSTOM_SIMPLE"
    /\ outLines' = outLines \cup {"DTR"}
    /\ Silent
    /\ UNCHANGED <<driver, phase, Status, tries, options, truth, link, cable>>

(* initiate_hibernate(): the lines are read three times first.             *)
DumbHibernate ==
    /\ driver = "dumb" /\ phase = "hibernate"
    /\ Status' = DumbStatus(InputLines(cable, truth))
    /\ Hibernate(Status')
    /\ UNCHANGED <<driver, tries, options, truth, link, dumbVars>>

(* kill_power(), the line being held for ten seconds.                      *)
KillLines ==
    CASE cable \in RtsKills -> outLines \cup {"RTS", "ST"}
      [] cable \in DtrKills -> outLines \cup {"DTR"}
      [] cable = "MAM"      -> (outLines \ {"RTS"}) \cup {"DTR"}
      [] OTHER              -> outLines
DumbKill ==
    /\ driver = "dumb" /\ phase = "kill"
    /\ outLines' = KillLines
    /\ KillDone
    /\ UNCHANGED <<driver, Status, tries, options, truth, link, cable>>

(* Close(), also when the program is given up after Open().                *)
CloseLines ==
    CASE cable \in RtsKills -> outLines \ {"RTS", "ST"}
      [] cable \in DtrKills -> outLines \ {"DTR"}
      [] OTHER              -> outLines
DumbClose ==
    /\ driver = "dumb" /\ phase = "close"
    /\ outLines' = CloseLines
    /\ phase' = "closed" /\ Silent
    /\ UNCHANGED <<driver, Status, tries, options, truth, link, cable>>

DumbNext ==
    \/ DumbOpen \/ DumbSetup \/ DumbRead \/ DumbDtrEnable \/ DumbHibernate
    \/ DumbKill \/ DumbClose

---------------------------------------------------------------------------
(* The state of the lines that makes the UPS cut the power.                *)
KillAsserted ==
    CASE cable \in RtsKills -> "RTS" \in outLines
      [] cable \in DtrKills -> "DTR" \in outLines
      [] cable = "MAM"      -> "DTR" \in outLines /\ "RTS" \notin outLines
      [] OTHER              -> FALSE

(* While the daemon monitors, whatever the kernel and do_action() did to   *)
(* the lines, none that kills the UPS is set; and none is left set in the  *)
(* port when the driver is closed (Close(): "so that it doesn't remain set *)
(* in the serial port and trigger a problem later"), which Close() does    *)
(* not achieve for the MAM cable.                                          *)
KillLineReleased ==
    driver = "dumb" =>
        /\ phase \in {"fill", "act", "check"} => ~KillAsserted
        /\ phase = "closed" /\ cable # "MAM" => ~KillAsserted
=============================================================================
