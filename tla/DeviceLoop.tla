----------------------------- MODULE DeviceLoop -----------------------------
(***************************************************************************)
(* do_device() of src/device.c: the endless loop of the device thread,     *)
(*    do_action; fillUPS; do_action; do_reports; check_state               *)
(* around the state machine of Action, over any driver that keeps this     *)
(* contract (include/drivers.h; ModbusDriver is shown to implement it):    *)
(* read_volatile_data() copies what the UPS reports into UPSINFO, though a *)
(* part that could not be read stays as it was; check_state() polls the    *)
(* on-battery status about once a second for at most wait_time seconds,    *)
(* returns as soon as it changes, and keeps the commlost bit.              *)
(*                                                                         *)
(* The UPS is a nondeterministic environment: every read may return any    *)
(* member of Readings and take any number of seconds of ReadSecs.          *)
(***************************************************************************)
EXTENDS Action

CONSTANTS
    polltime,           \* POLLTIME: seconds between full reads on mains
    datatime, stattime, \* DATATIME, STATTIME: report periods, 0 = off
    Readings,           \* what a full read may report
    ReadSecs,           \* how long a read may take
    Lapses              \* what the driver may do: a subset of DriverLapses

(* A reading: the driver's status bits, the charge and the runtime.        *)
ReadingType == [bits : SUBSET DriverBits, chg : Int, left : Int]

(* A read that gets only a part, an answer from an earlier read, and a     *)
(* connection that is declared lost.                                       *)
DriverLapses == {"partial", "stale", "commlost"}

ASSUME LoopAssumption ==
    /\ Lapses \subseteq DriverLapses
    /\ {polltime, datatime, stattime} \subseteq Nat
    /\ Readings \subseteq ReadingType
    /\ Readings # {}
    /\ ReadSecs \subseteq Nat
    /\ ReadSecs # {}

TIMER_FAST == 1

VARIABLE wait_left      \* seconds check_state() may still take

loopVars == <<actionVars, wait_left>>

AtMost(limit, w) == IF limit # 0 /\ limit < w THEN limit ELSE w

(* device_wait_time()                                                      *)
device_wait_time ==
    LET base == IF "fastpoll" \in Status \/ "battpresent" \notin Status
                THEN TIMER_FAST
                ELSE IF "commlost" \in Status THEN TIMER_FAST * 5 ELSE polltime
        w    == AtMost(stattime, AtMost(datatime, base))
    IN IF w < TIMER_FAST THEN TIMER_FAST ELSE w

Init ==
    /\ pc = "enter1"
    /\ \E r \in Readings :
         Status = r.bits /\ BattChg = r.chg /\ TimeLeft = r.left
    /\ PrevStatus = {}
    /\ age = [f \in Timers |-> IF f = "start_time" THEN 0 ELSE AgeCap]
    /\ inSelfTest = FALSE
    /\ first = TRUE
    /\ nologin_file = FALSE
    /\ ChangeBattCounter = 0
    /\ onbattSeen = FALSE
    /\ cum_time_on_batt = 0
    /\ disk \in {{"lock"} \cup old : old \in SUBSET {"nologin", "pwrfail"}}
    /\ events = {}
    /\ wait_left = 0

(* DEVICE_CMD_CHECK_SELFTEST asks why the UPS is on battery.  A driver may *)
(* answer from what it read last, and copy that into the status word once  *)
(* more: without onbatt, if it was read before the failure, and with a     *)
(* replacebatt that do_action() has just silenced.                         *)
Refreshed(gone, again) == (Status \ gone) \cup again

CheckSelfTest ==
    /\ \E gone \in SUBSET {"onbatt"}, again \in SUBSET {"replacebatt"}, test \in BOOLEAN :
         /\ gone \cup again # {} => "stale" \in Lapses
         /\ again # {} => \E r \in Readings : "replacebatt" \in r.bits
         /\ PowerFailure(Refreshed(gone, again), test)
    /\ UNCHANGED <<BattChg, TimeLeft>>

do_action ==
    /\ \/ Enter \/ EnterRemote
       \/ OnMains \/ CheckSelfTest \/ SelfTestRuns \/ MainsBack \/ Calibration
       \/ OnBatteryAnnounce \/ OnBatteryShuttingDown \/ OnBatteryTimeout
       \/ OnBatteryLimit \/ OnBatteryWait
    /\ UNCHANGED wait_left

(* fillUPS(): the status word and the measurements are read, or not.       *)
FillStatus(r) == Status' = (Status \ DriverBits) \cup r.bits
FillMeasurements(r) == BattChg' = r.chg /\ TimeLeft' = r.left

fillUPS(d) ==
    /\ pc = "fill"
    /\ \/ \E r \in Readings : FillStatus(r) /\ FillMeasurements(r)
       \/ UNCHANGED <<Status, BattChg, TimeLeft>>
       \/ "partial" \in Lapses /\ \E r \in Readings :
             \/ FillStatus(r) /\ UNCHANGED <<BattChg, TimeLeft>>
             \/ FillMeasurements(r) /\ UNCHANGED Status
    /\ age' = Aged(d)
    /\ pc' = "enter2"
    /\ UNCHANGED <<PrevStatus, inSelfTest, first, nologin_file, ChangeBattCounter,
                   accounting, disk, events, wait_left>>

(* do_reports() and the second device_wait_time().                         *)
StartCheck ==
    /\ pc = "check"
    /\ wait_left' = device_wait_time
    /\ pc' = "poll"
    /\ UNCHANGED <<Status, PrevStatus, BattChg, TimeLeft, age, inSelfTest, first,
                   nologin_file, ChangeBattCounter, accounting, disk, events>>

Minus(n, d) == IF d < n THEN n - d ELSE 0

pollFrame == <<PrevStatus, BattChg, TimeLeft, inSelfTest, first, nologin_file,
               ChangeBattCounter, accounting, disk, events>>

(* One pass of check_state(): wait_time is over,                           *)
CheckTimeout ==
    /\ pc = "poll"
    /\ wait_left = 0
    /\ pc' = "enter1"
    /\ UNCHANGED <<Status, age, wait_left, pollFrame>>

(* or the on-battery status changed, which ends the wait,                  *)
Answered(st) == st \ {"commlost"}

CheckChanged(d) ==
    /\ pc = "poll"
    /\ wait_left > 0
    /\ \E r \in Readings : ("onbatt" \in r.bits) # ("onbatt" \in Status)
    /\ Status' = Answered(IF "onbatt" \in Status THEN Status \ {"onbatt"}
                          ELSE Status \cup {"onbatt"})
    /\ age' = Aged(d)
    /\ wait_left' = 0
    /\ pc' = "enter1"
    /\ UNCHANGED pollFrame

(* or it did not, or the poll failed, by which the driver may come to      *)
(* think that the UPS is lost: sleep(1) and poll again.                    *)
CheckSame(d) ==
    /\ pc = "poll"
    /\ wait_left > 0
    /\ Status' \in {Status, Answered(Status)}
                   \cup (IF "commlost" \in Lapses THEN {Status \cup {"commlost"}} ELSE {})
    /\ age' = Aged(d + 1)
    /\ wait_left' = Minus(wait_left, d + 1)
    /\ UNCHANGED <<pc, pollFrame>>

Next == \/ do_action \/ StartCheck \/ CheckTimeout
        \/ \E d \in ReadSecs : fillUPS(d) \/ CheckChanged(d) \/ CheckSame(d)

Spec == Init /\ [][Next]_loopVars
=============================================================================
