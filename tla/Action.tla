------------------------------- MODULE Action -------------------------------
(***************************************************************************)
(* The event and shutdown state machine of apcupsd: do_action() of         *)
(* src/action.c with the functions it calls (generate_event, do_shutdown,  *)
(* prohibit_logins, logonfail, powerfail) and initiate_hibernate() of      *)
(* src/device.c.                                                           *)
(*                                                                         *)
(* do_action() runs on the device thread with UPSINFO write-locked.  It is *)
(* two steps here: Enter (everything up to get_state()) and one action per *)
(* case of the switch that follows.                                        *)
(*                                                                         *)
(* Absolute times (time_t) only ever appear in the code as "now - x", so   *)
(* age[x] is that difference, saturated at AgeCap: a field that is still   *)
(* 0 (1970) has age AgeCap.  Every threshold is below AgeCap.              *)
(***************************************************************************)
EXTENDS Integers

CONSTANTS
    onbattdelay,    \* ONBATTERYDELAY: seconds before ONBATTERY is announced
    maxtime,        \* TIMEOUT: seconds on battery before shutdown, 0 = off
    percent,        \* BATTERYLEVEL: charge that starts a shutdown
    runtime,        \* MINUTES: remaining runtime that starts a shutdown
    annoydelay, annoy,
    nologinType,    \* NOLOGON: a member of NologinTypes
    nologin_time,
    killdelay,      \* KILLDELAY: seconds from shutdown to power kill, 0 = off
    kill_on_powerfail, terminate_on_powerfail,   \* command-line options
    Slave,          \* is_slave(): this daemon follows a network master
    ShareSlave,     \* upsclass is SHARESLAVE
    UPS_Cap,        \* the capabilities among {"BATTLEV", "RUNTIM"} the UPS has
    SelfTestLimit,  \* 40 in the code: the longest a self test may last
    ShutTimer,      \* 5 in the code: how long a low limit must persist
    ReplaceGrace,   \* 600 in the code: no replace-battery alarm before it
    ChangemePeriod, \* 9 hours in the code: between replace-battery alarms
    ChangemeMax,    \* 5 in the code: alarms before the flag is silenced
    FileWrites,     \* whether creating powerfail or nologin may succeed, fail
    AgeCap,         \* where ages saturate
    CumCap          \* where cum_time_on_batt saturates

NologinTypes == {"NEVER", "TIMEOUT", "PERCENT", "MINUTES", "ALWAYS"}

ASSUME ConfigAssumption ==
    /\ {onbattdelay, maxtime, annoydelay, annoy, killdelay} \subseteq Nat
    /\ {nologin_time, SelfTestLimit, ShutTimer, ChangemePeriod} \subseteq Nat
    /\ {ReplaceGrace, ChangemeMax, AgeCap, CumCap} \subseteq Nat
    /\ percent \in Int /\ runtime \in Int
    /\ {kill_on_powerfail, terminate_on_powerfail, Slave, ShareSlave} \subseteq BOOLEAN
    /\ nologinType \in NologinTypes
    /\ FileWrites \in (SUBSET BOOLEAN) \ {{}}

ASSUME AgeCapAssumption ==
    \A limit \in {onbattdelay, maxtime, annoydelay, annoy, killdelay, nologin_time,
                  SelfTestLimit, ShutTimer, ReplaceGrace, ChangemePeriod} : limit < AgeCap

(* Bits of UPSINFO::Status that do_action() or the drivers use.            *)
DriverBits == {"onbatt", "battlow", "calibration", "battpresent", "replacebatt",
               "shut_remote"}
LocalBits  == {"commlost", "shutdown", "onbatt_msg", "fastpoll", "shut_load",
               "shut_btime", "shut_ltime"}
StatusBits == DriverBits \cup LocalBits

(* time_t fields of UPSINFO, named after the fields.                       *)
Timers == {"last_time_on_line", "last_time_annoy", "last_time_nologon",
           "last_time_changeme", "start_time", "start_shut_lbatt",
           "start_shut_load", "start_shut_ltime", "SelfTest", "ShutDown",
           "last_onbatt_time"}

(* The events of ups_event[], and KILLPOWER for a device_kill_power().     *)
Events == {"POWEROUT", "ONBATTERY", "FAILING", "TIMEOUT", "LOADLIMIT", "RUNLIMIT",
           "DOSHUTDOWN", "MAINSBACK", "ANNOYME", "CHANGEME", "REMOTEDOWN",
           "STARTSELFTEST", "ENDSELFTEST", "OFFBATTERY", "BATTDETACH",
           "BATTATTACH", "KILLPOWER"}

VARIABLES
    pc,             \* where the device thread is in do_device()
    Status,         \* UPSINFO::Status, as the set of its bits
    PrevStatus,     \* UPSINFO::PrevStatus
    BattChg, TimeLeft,
    age,            \* now - f, for every time_t field f of Timers
    inSelfTest,     \* UPSINFO::SelfTest # 0
    first,          \* static int first of do_action()
    nologin_file,   \* UPSINFO::nologin_file
    ChangeBattCounter,
    onbattSeen,     \* UPSINFO::last_onbatt_time > 0
    cum_time_on_batt,
    disk,           \* files this daemon makes: subset of {"nologin", "pwrfail", "lock"}
    events          \* what the running (or last) call of do_action() executed

actionVars == <<pc, Status, PrevStatus, BattChg, TimeLeft, age, inSelfTest, first,
                nologin_file, ChangeBattCounter, onbattSeen, cum_time_on_batt, disk, events>>

accounting == <<onbattSeen, cum_time_on_batt>>

Capped(n) == IF n < AgeCap THEN n ELSE AgeCap
CumCapped(n) == IF n < CumCap THEN n ELSE CumCap

(* d seconds pass.                                                         *)
Aged(d) == [f \in Timers |-> Capped(age[f] + d)]

(* The fields of S are set to the current time.                            *)
Stamped(a, S) == [f \in Timers |-> IF f \in S THEN 0 ELSE a[f]]

OnLineTimers == {"last_time_on_line", "last_time_annoy", "last_time_nologon"}

(* UPSINFO::chg_xxx(): the bit differs from the one of the last call.      *)
Changed(bit) == (bit \in Status) # (bit \in PrevStatus)

PcValues == {"enter1", "case1", "fill", "enter2", "case2", "check", "poll", "exited"}

(* Where do_device() continues when do_action() returns.                   *)
Return(at) == IF at \in {"enter1", "case1"} THEN "fill" ELSE "check"

ActionTypeOK ==
    /\ pc \in PcValues
    /\ Status \in SUBSET StatusBits
    /\ PrevStatus \in SUBSET StatusBits
    /\ BattChg \in Int /\ TimeLeft \in Int
    /\ age \in [Timers -> 0..AgeCap]
    /\ inSelfTest \in BOOLEAN
    /\ first \in BOOLEAN
    /\ nologin_file \in BOOLEAN
    /\ ChangeBattCounter \in 0..(ChangemeMax + 1)
    /\ onbattSeen \in BOOLEAN
    /\ cum_time_on_batt \in 0..CumCap
    /\ disk \in SUBSET {"nologin", "pwrfail", "lock"}
    /\ events \in SUBSET Events

(* do_shutdown() returns at once when the bit is set.                      *)
AlreadyDown_never(st) == FALSE                 \* mutant: no such test
AlreadyDown(st) == "shutdown" \in st

(* What do_shutdown() sets in the status word.                             *)
ShutdownBits == {"shutdown", "fastpoll"}

(* The master alone may cut the power of the UPS.                          *)
MayKill == ~Slave

(* initiate_hibernate(), when the files on disk are files: what it does,   *)
(* or whether it aborts the daemon for want of the powerfail file.  A      *)
(* ShareUPS slave waits for its master to cut the power.                   *)
HibernateAborts(files) == "pwrfail" \notin files
HibernateEvents == IF ShareSlave THEN {} ELSE {"KILLPOWER"}

(* prohibit_logins(), when the files on disk are files: nothing if the     *)
(* flag is set; else logonfail(0) removes nologin and tries to make it.    *)
ProhibitLogins(files, made) ==
    IF nologin_file THEN files
    ELSE (files \ {"nologin"}) \cup (IF made THEN {"nologin"} ELSE {})

(***************************************************************************)
(* do_shutdown(), entered with status word st, events evs already executed *)
(* and ages a: nothing happens on a second call.  The lock file goes, and  *)
(* logins are prohibited; the flag for it is set even if no file was made. *)
(* With --kill-on-powerfail, initiate_hibernate() comes before the         *)
(* shutdown script: it aborts the daemon when the powerfail file is        *)
(* missing, and a ShareUPS slave never kills the power itself.             *)
(* powerfail(2) ends the daemon under terminate_on_powerfail.              *)
(***************************************************************************)
DoShutdown(st, evs, a) ==
    IF AlreadyDown(st)
    THEN /\ Status' = st
         /\ events' = evs
         /\ age' = a
         /\ pc' = Return(pc)
         /\ UNCHANGED <<disk, nologin_file>>
    ELSE \E written, made \in FileWrites :
           LET files  == ProhibitLogins((disk \ {"lock"})
                             \cup (IF written THEN {"pwrfail"} ELSE {}), made)
               kills  == kill_on_powerfail /\ MayKill
               aborts == kills /\ HibernateAborts(files)
               killed == IF kills THEN HibernateEvents ELSE {}
           IN /\ Status' = st \cup ShutdownBits
              /\ age' = Stamped(a, {"ShutDown"})
              /\ disk' = files
              /\ nologin_file' = TRUE
              /\ events' = IF aborts THEN evs ELSE evs \cup killed \cup {"DOSHUTDOWN"}
              /\ pc' = IF aborts \/ terminate_on_powerfail THEN "exited" ELSE Return(pc)

(***************************************************************************)
(* do_action() up to get_state(): the first call, the replace-battery      *)
(* alarm, a remote shutdown (which returns at once), battery attach and    *)
(* detach, and the low-battery timer.                                      *)
(***************************************************************************)
(* On the first call every set bit but battpresent counts as a change.     *)
EnterPrev == IF first THEN {"battpresent"} ELSE PrevStatus

(* The replace-battery flag is dropped early on, and after ChangemeMax + 1 *)
(* alarms; otherwise it raises an alarm every ChangemePeriod.              *)
ReplaceSilenced == /\ "replacebatt" \in Status
                   /\ age["start_time"] < ReplaceGrace \/ ChangeBattCounter > ChangemeMax

ReplaceAlarm == /\ "replacebatt" \in Status
                /\ ~ReplaceSilenced
                /\ age["last_time_changeme"] > ChangemePeriod

EnterStatus == IF ReplaceSilenced THEN Status \ {"replacebatt"} ELSE Status

EnterEvents == IF ReplaceAlarm THEN {"CHANGEME"} ELSE {}

BattEvents_lost ==                             \* mutant: reattaching goes unnoticed
    IF "battpresent" \notin Status /\ "battpresent" \in EnterPrev THEN {"BATTDETACH"} ELSE {}
BattEvents == IF ("battpresent" \in Status) = ("battpresent" \in EnterPrev) THEN {}
              ELSE IF "battpresent" \in Status THEN {"BATTATTACH"} ELSE {"BATTDETACH"}

EnterAges == Stamped(age, (IF first THEN OnLineTimers ELSE {})
                          \cup (IF ReplaceAlarm THEN {"last_time_changeme"} ELSE {}))

EnterCommon ==
    /\ pc \in {"enter1", "enter2"}
    /\ first' = FALSE
    /\ ChangeBattCounter' = CASE ReplaceSilenced -> 0
                              [] ReplaceAlarm    -> ChangeBattCounter + 1
                              [] OTHER           -> ChangeBattCounter
    /\ UNCHANGED <<BattChg, TimeLeft, inSelfTest, accounting>>

(* "Remote is shutting down, so must we."                                  *)
EnterRemote ==
    /\ "shut_remote" \in Status
    /\ EnterCommon
    /\ IF "shut_remote" \in EnterPrev
       THEN /\ Status' = EnterStatus
            /\ events' = EnterEvents
            /\ age' = EnterAges
            /\ pc' = Return(pc)
            /\ UNCHANGED <<disk, nologin_file>>
       ELSE DoShutdown(EnterStatus, EnterEvents \cup {"REMOTEDOWN"}, EnterAges)
    /\ PrevStatus' = Status'

(* chg_battlow() and is_battlow(), on mains as well as on battery.         *)
LowBattRises_onbatt ==                         \* mutant: looked at on battery only
    {"battlow", "onbatt"} \subseteq Status /\ "battlow" \notin EnterPrev
LowBattRises == "battlow" \in Status /\ "battlow" \notin EnterPrev

(* Everything else: the low-battery timer starts when the bit goes up.     *)
Enter ==
    /\ "shut_remote" \notin Status
    /\ EnterCommon
    /\ Status' = EnterStatus
    /\ PrevStatus' = EnterPrev
    /\ events' = EnterEvents \cup BattEvents
    /\ age' = IF LowBattRises
              THEN Stamped(EnterAges, {"start_shut_lbatt"}) ELSE EnterAges
    /\ pc' = IF pc = "enter1" THEN "case1" ELSE "case2"
    /\ UNCHANGED <<disk, nologin_file>>

(***************************************************************************)
(* The cases of get_state() and of the switch in do_action().              *)
(***************************************************************************)
InCase(c) ==
    /\ pc \in {"case1", "case2"}
    /\ c = IF "onbatt" \in Status
           THEN CASE "calibration" \in Status -> "st_Calibration"
                  [] "calibration" \notin Status /\ Changed("onbatt") -> "st_PowerFailure"
                  [] OTHER -> IF inSelfTest THEN "st_SelfTest" ELSE "st_OnBattery"
           ELSE IF Changed("onbatt") THEN "st_MainsBack" ELSE "st_OnMains"
    /\ UNCHANGED <<first, ChangeBattCounter>>

(* The end of do_action(): remember the status word, go on in do_device(). *)
Leave == PrevStatus' = Status' /\ pc' = Return(pc)

OnMains ==
    /\ InCase("st_OnMains")
    /\ age' = Stamped(age, OnLineTimers)
    /\ Status' = Status \ {"fastpoll"}
    /\ Leave
    /\ UNCHANGED <<BattChg, TimeLeft, inSelfTest, nologin_file, accounting, disk, events>>

(* st is the status word and test whether SelfTest was set once the driver *)
(* answered DEVICE_CMD_CHECK_SELFTEST, which may re-read the UPS.          *)
PowerFailure(st, test) ==
    /\ InCase("st_PowerFailure")
    /\ Status' = st \cup {"fastpoll"}
    /\ inSelfTest' = (inSelfTest \/ test)
    /\ events' = events \cup {IF inSelfTest' THEN "STARTSELFTEST" ELSE "POWEROUT"}
    /\ age' = Stamped(age, OnLineTimers \cup {"last_onbatt_time"}
                                        \cup (IF test THEN {"SelfTest"} ELSE {}))
    /\ onbattSeen' = TRUE
    /\ Leave
    /\ UNCHANGED <<nologin_file, cum_time_on_batt, disk>>

(* A self test is cancelled when it lasts too long or the battery is low.  *)
SelfTestCancelled_time ==                      \* mutant: not for a low battery
    age["SelfTest"] >= SelfTestLimit
SelfTestCancelled_low ==                       \* mutant: however long it lasts
    "battlow" \in Status
SelfTestCancelled == age["SelfTest"] >= SelfTestLimit \/ "battlow" \in Status

(* A self test in progress: nothing is done.                               *)
SelfTestRuns ==
    /\ InCase("st_SelfTest")
    /\ ~SelfTestCancelled
    /\ Status' = Status
    /\ Leave
    /\ UNCHANGED <<BattChg, TimeLeft, age, inSelfTest, nologin_file, accounting, disk,
                   events>>

(* st_OnBattery, also reached from a self test that is cancelled.          *)
InBattery ==
    /\ InCase("st_OnBattery") \/ (InCase("st_SelfTest") /\ SelfTestCancelled)
    /\ inSelfTest' = FALSE
    /\ UNCHANGED <<BattChg, TimeLeft, accounting>>

AnnounceDue == "onbatt_msg" \notin Status /\ age["last_time_on_line"] >= onbattdelay

(* The failure is confirmed: announced once, and the timers start over.    *)
OnBatteryAnnounce ==
    /\ InBattery
    /\ AnnounceDue
    /\ Status' = Status \cup {"onbatt_msg"}
    /\ events' = events \cup {"ONBATTERY"}
    /\ age' = Stamped(age, OnLineTimers)
    /\ Leave
    /\ UNCHANGED <<nologin_file, disk>>

(* Shutdown requested but still running: kill the UPS power, again every   *)
(* killdelay seconds.                                                      *)
KillDue_missed ==                              \* mutant: = for >=
    killdelay > 0 /\ age["ShutDown"] = killdelay
KillDue_online ==                              \* mutant: measured from another timer
    killdelay > 0 /\ age["last_time_on_line"] >= killdelay
KillDue == killdelay > 0 /\ age["ShutDown"] >= killdelay

OnBatteryShuttingDown ==
    LET aborts == KillDue /\ MayKill /\ HibernateAborts(disk)
    IN /\ InBattery
       /\ ~AnnounceDue
       /\ "shutdown" \in Status
       /\ Status' = Status
       /\ PrevStatus' = Status'
       /\ events' = IF KillDue /\ MayKill /\ ~aborts THEN events \cup HibernateEvents ELSE events
       /\ age' = IF KillDue THEN Stamped(age, {"ShutDown"}) ELSE age
       /\ pc' = IF aborts THEN "exited" ELSE Return(pc)
       /\ UNCHANGED <<nologin_file, disk>>

(* MaxTimeOnBattery expired.                                               *)
TimeExpired == maxtime > 0 /\ age["last_time_on_line"] > maxtime

OnBatteryTimeout ==
    /\ InBattery
    /\ ~AnnounceDue
    /\ "shutdown" \notin Status
    /\ TimeExpired
    /\ DoShutdown(Status \cup {"shut_btime"}, events \cup {"TIMEOUT"}, age)
    /\ PrevStatus' = Status'

(* The charge and runtime limits: crossing one sets its flag and starts    *)
(* its timer, coming back above it on a later pass clears the flag.        *)
LowCharge  == "BATTLEV" \in UPS_Cap /\ BattChg <= percent
LowRuntime == "RUNTIM" \in UPS_Cap /\ TimeLeft <= runtime

LimitStatus == (Status \ {"shut_load", "shut_ltime"})
               \cup (IF LowCharge THEN {"shut_load"} ELSE {})
               \cup (IF LowRuntime THEN {"shut_ltime"} ELSE {})

LimitAges_restart ==                           \* mutant: restarted on every pass
    Stamped(age, (IF LowCharge THEN {"start_shut_load"} ELSE {})
                 \cup (IF LowRuntime THEN {"start_shut_ltime"} ELSE {}))
LimitAges ==
    Stamped(age, (IF LowCharge /\ "shut_load" \notin Status THEN {"start_shut_load"} ELSE {})
          \cup (IF LowRuntime /\ "shut_ltime" \notin Status THEN {"start_shut_ltime"} ELSE {}))

(* The first of the three shutdown timers that has expired.                *)
ExpiredLimit ==
    IF "battlow" \in Status /\ age["start_shut_lbatt"] >= ShutTimer THEN "FAILING"
    ELSE IF LowCharge /\ LimitAges["start_shut_load"] >= ShutTimer THEN "LOADLIMIT"
    ELSE IF LowRuntime /\ LimitAges["start_shut_ltime"] >= ShutTimer THEN "RUNLIMIT"
    ELSE "none"

OnBatteryLimit ==
    /\ InBattery
    /\ ~AnnounceDue
    /\ "shutdown" \notin Status
    /\ ~TimeExpired
    /\ ExpiredLimit # "none"
    /\ DoShutdown(LimitStatus, events \cup {ExpiredLimit}, LimitAges)
    /\ PrevStatus' = Status'

(* Neither shut down nor due: ask users to log off, prohibit logins.  (The *)
(* EMERGENCY event, for a low battery on line, cannot occur on battery:    *)
(* every driver's set_online() clears onbatt.)                             *)
AnnoyDue == /\ LimitAges["last_time_on_line"] > annoydelay
            /\ LimitAges["last_time_annoy"] > annoy
            /\ nologin_file

ProhibitDue == CASE nologinType = "NEVER"   -> FALSE
                 [] nologinType = "TIMEOUT" -> age["last_time_nologon"] > nologin_time
                 [] nologinType = "PERCENT" -> "BATTLEV" \in UPS_Cap /\ nologin_time >= BattChg
                 [] nologinType = "MINUTES" -> "RUNTIM" \in UPS_Cap /\ nologin_time >= TimeLeft
                 [] nologinType = "ALWAYS"  -> TRUE

OnBatteryWait ==
    /\ InBattery
    /\ ~AnnounceDue
    /\ "shutdown" \notin Status
    /\ ~TimeExpired
    /\ ExpiredLimit = "none"
    /\ Status' = LimitStatus
    /\ events' = IF AnnoyDue THEN events \cup {"ANNOYME"} ELSE events
    /\ age' = IF AnnoyDue THEN Stamped(LimitAges, {"last_time_annoy"}) ELSE LimitAges
    /\ nologin_file' = (nologin_file \/ ProhibitDue)
    /\ \E made \in FileWrites :
          disk' = IF ProhibitDue THEN ProhibitLogins(disk, made) ELSE disk
    /\ Leave

(* logonfail(1): the nologin file goes, and so does the flag.              *)
AllowLogins_flag ==                            \* mutant: the flag stays
    disk' = disk \ {"nologin"} /\ UNCHANGED nologin_file
AllowLogins == disk' = disk \ {"nologin"} /\ nologin_file' = FALSE

(* The power is back after a power failure, a self test or a calibration.  *)
MainsBack ==
    /\ InCase("st_MainsBack")
    /\ Status' = Status \ {"onbatt_msg"}
    /\ events' = events \cup (IF "onbatt_msg" \in Status THEN {"OFFBATTERY"} ELSE {})
                        \cup {IF inSelfTest THEN "ENDSELFTEST" ELSE "MAINSBACK"}
    /\ inSelfTest' = FALSE
    /\ AllowLogins
    /\ cum_time_on_batt' = IF onbattSeen
                           THEN CumCapped(cum_time_on_batt + age["last_onbatt_time"])
                           ELSE cum_time_on_batt
    /\ onbattSeen' = TRUE
    /\ age' = IF onbattSeen THEN age ELSE Stamped(age, {"last_onbatt_time"})
    /\ Leave
    /\ UNCHANGED <<BattChg, TimeLeft>>

(* During calibration the battery level and the runtime are ignored.       *)
Calibration ==
    /\ InCase("st_Calibration")
    /\ Status' = Status
    /\ Leave
    /\ UNCHANGED <<BattChg, TimeLeft, age, inSelfTest, nologin_file, accounting, disk,
                   events>>
=============================================================================
