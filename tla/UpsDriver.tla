------------------------------ MODULE UpsDriver ------------------------------
(***************************************************************************)
(* What every driver shares: the class UpsDriver of include/drivers.h, the *)
(* status bits of UPSINFO a driver writes, and the order in which main(),  *)
(* open_ups(), do_device() and initiate_hibernate() call the driver that   *)
(* attach_driver() chose.  The drivers are modules of their own that       *)
(* extend this one; Drivers puts them side by side.                        *)
(*                                                                         *)
(* phase is the call that comes next.  truth is what the UPS would say of  *)
(* itself and link the connection to it: both change at any time.          *)
(***************************************************************************)
EXTENDS Naturals, FiniteSets, Sequences

CONSTANTS
    Modes,          \* the values of UPSTYPE that may be configured
    Built,          \* the drivers that were compiled in
    Truths,         \* what the UPS may be doing: sets of bits of its status
    GraceOpens      \* failed Open()s before COMMLOST_EVENT_GRACE_PERIOD is over

ASSUME UpsDriverAssumption ==
    /\ GraceOpens \in Nat /\ "none" \notin Built
    /\ \A t \in Truths : t \subseteq {"onbatt", "battlow", "replacebatt"}

VARIABLES
    driver,         \* ups->driver
    phase,          \* the call of the driver that comes next
    Status,         \* UPSINFO::Status, a set of bits
    told,           \* CMDCOMMFAILURE was announced, and no CMDCOMMOK since
    news,           \* the communication event of the last step, if any
    tries,          \* failed Open()s so far, up to GraceOpens
    options,        \* UPSTYPE, hibernate_ups, and whether the powerfail file exists
    truth, link     \* the environment

upsVars == <<driver, phase, Status, told, news, tries, options, truth, link>>

---------------------------------------------------------------------------
(* The status bits: the byte an APC UPS reports, and bits of the daemon    *)
(* that only do_action() and do_shutdown() may change.                     *)
ApcByte == {"calibration", "trim", "boost", "online", "onbatt", "overload",
            "battlow", "replacebatt"}
DaemonBits == {"shutdown", "onbatt_msg"}
AllBits == ApcByte \cup DaemonBits
           \cup {"commlost", "slave", "fastpoll", "shut_remote", "battpresent"}

set_online(s) == (s \ {"onbatt"}) \cup {"online"}
clear_online(s) == (s \ {"online"}) \cup {"onbatt"}
SetTo(s, bit, on) == IF on THEN s \cup {bit} ELSE s \ {bit}

(* The status byte of a UPS that is doing t.                               *)
ByteOf(t) == IF "onbatt" \in t THEN t ELSE t \cup {"online"}

(* Announcements: none, CMDCOMMFAILURE, CMDCOMMOK.                         *)
Silent == news' = "none" /\ UNCHANGED told
SayFailure == news' = "CMDCOMMFAILURE" /\ told' = TRUE
SayOk_not == Silent                      \* mutant: the end of a loss is not announced
SayOk == news' = "CMDCOMMOK" /\ told' = FALSE

Phases == {"attach", "open", "setup", "fill", "act", "check", "hibernate",
           "kill", "close", "closed", "aborted"}

UpsInit ==
    /\ driver = "none" /\ phase = "attach"
    /\ Status = {"battpresent"}
    /\ told = FALSE /\ news = "none" /\ tries = 0
    /\ options \in [mode : Modes, hibernate_ups : BOOLEAN, pwrfail : BOOLEAN]
    /\ truth \in Truths /\ link = "up"

(* Error_abort(): apcupsd_error_cleanup() closes the driver and exits.     *)
Abort == phase' = "aborted" /\ Silent

---------------------------------------------------------------------------
(* attach_driver(): the driver of the configured type, if it was built.    *)
attach_driver ==
    /\ phase = "attach"
    /\ \/ options.mode \in Built /\ driver' = options.mode /\ phase' = "open" /\ Silent
       \/ options.mode \notin Built /\ UNCHANGED driver /\ Abort
    /\ UNCHANGED <<Status, tries, options, truth, link>>

(* The UPS and the connection to it change.                                *)
World ==
    /\ phase \notin {"attach", "closed", "aborted"}
    /\ truth' \in Truths
    /\ link' \in {"up", "down"}
    /\ <<truth', link'>> # <<truth, link>>
    /\ Silent
    /\ UNCHANGED <<driver, phase, Status, tries, options>>

(* open_ups() when Open() fails: it is tried again, and CMDCOMMFAILURE is  *)
(* announced once when the grace period is over.  setup_device(), of       *)
(* apcupsd --killpower, tries once.                                        *)
OpenFails ==
    \/ options.hibernate_ups /\ Abort /\ UNCHANGED <<Status, tries>>
    \/ /\ ~options.hibernate_ups
       /\ Status' = Status \cup {"commlost"}
       /\ IF tries = GraceOpens /\ ~told THEN SayFailure ELSE Silent
       /\ tries' = IF tries < GraceOpens THEN tries + 1 ELSE tries
       /\ UNCHANGED phase

(* open_ups() when Open() succeeds.                                        *)
OpenSucceeds(s) ==
    /\ Status' = s \ {"commlost"}
    /\ IF "commlost" \in Status /\ told THEN SayOk ELSE Silent
    /\ phase' = "setup"
    /\ tries' = 0                        \* a local variable of open_ups()

(* setup() and get_capabilities() are done: the device loop starts, or the *)
(* UPS is to be hibernated, for which setup_device() must have succeeded.  *)
SetupDone(ok) ==
    IF ~options.hibernate_ups THEN phase' = "fill" /\ Silent
    ELSE IF ok THEN phase' = "hibernate" /\ Silent ELSE Abort

(* do_action(), as far as a driver can tell: bits of the daemon that must  *)
(* survive until it changes them itself.                                   *)
do_action ==
    /\ phase = "act"
    /\ \/ /\ "onbatt" \notin Status
          /\ Status' = Status \ {"onbatt_msg"}
       \/ /\ "onbatt" \in Status
          /\ \E b \in {{"onbatt_msg"}, DaemonBits} : Status' = Status \cup b
       \/ /\ "shut_remote" \in Status
          /\ Status' = Status \cup {"shutdown"}
    /\ phase' = "check"
    /\ Silent
    /\ UNCHANGED <<driver, tries, options, truth, link>>

(* do_shutdown() with --kill-on-powerfail and apcupsd --killpower both     *)
(* come to initiate_hibernate().  A simple-signalling UPS is never killed  *)
(* by the daemon, and initiate_hibernate() first asks it three times       *)
(* whether it is on battery, so s is its newest status.                    *)
HibernateRefuses(s) == ~options.pwrfail /\ (driver # "dumb" \/ "onbatt" \in s)
Hibernate(s) ==
    \/ HibernateRefuses(s) /\ Abort
    \/ ~HibernateRefuses(s) /\ phase' = "kill" /\ Silent

initiate_hibernate ==
    /\ driver # "dumb"
    /\ \/ phase = "hibernate"
       \/ phase = "act" /\ "shutdown" \in Status
    /\ Hibernate(Status)
    /\ UNCHANGED <<driver, Status, tries, options, truth, link>>

(* kill_power() returned.                                                  *)
KillDone == phase' = (IF options.hibernate_ups THEN "close" ELSE "check") /\ Silent

(* do_device() returns when a shutdown was requested; apcupsd_terminate()  *)
(* closes the driver.                                                      *)
Terminate ==
    /\ phase = "act"
    /\ phase' = "close"
    /\ Silent
    /\ UNCHANGED <<driver, Status, tries, options, truth, link>>
=============================================================================
