---------------------------- MODULE DeviceHistory ----------------------------
(***************************************************************************)
(* Properties of do_device()/do_action() that speak of durations and of    *)
(* earlier events, with the history variables they need.  The history only *)
(* observes DeviceLoop: Observe never disables a step.                     *)
(***************************************************************************)
EXTENDS DeviceLoop

CONSTANTS Watched,  \* the conditions a run observes
          HistCap   \* where the history saturates

Conditions == {"onbatt", "battlow", "charge", "runtime"}

ASSUME HistoryAssumption == Watched \subseteq Conditions /\ HistCap \in Nat
ASSUME ReadsAssumption == \E d \in ReadSecs : \A e \in ReadSecs : e <= d     \* a read has a timeout

VARIABLES
    lowFor,     \* seconds for which Status has had the battlow bit
    heldFor,    \* seconds for which each condition has held on battery
    sinceShut,  \* seconds since the shutdown script was run
    battKnown   \* whether the last battery event said it is there

history == <<lowFor, heldFor, sinceShut, battKnown>>
histVars == <<loopVars, history>>

(* On battery, not for a calibration, and the condition holds.             *)
Holds(c) ==
    /\ "onbatt" \in Status
    /\ "calibration" \notin Status
    /\ CASE c = "onbatt"  -> TRUE
         [] c = "battlow" -> "battlow" \in Status
         [] c = "charge"  -> LowCharge
         [] c = "runtime" -> LowRuntime

HistCapped(n) == IF n < HistCap THEN n ELSE HistCap

(* The step executes event e.                                              *)
Executes(e) == e \in events' /\ (e \notin events \/ pc \in {"enter1", "enter2"})

(* A step that takes d seconds is observed.                                *)
Observe(d) ==
    /\ lowFor' = IF "battlow" \in Status /\ "battlow" \in Status'
                 THEN HistCapped(lowFor + d) ELSE 0
    /\ heldFor' = [c \in Watched |->
                      IF Holds(c) /\ Holds(c)' THEN HistCapped(heldFor[c] + d) ELSE 0]
    /\ sinceShut' = IF Executes("DOSHUTDOWN") THEN 0 ELSE HistCapped(sinceShut + d)
    /\ battKnown' = IF Executes("BATTATTACH") THEN TRUE
                    ELSE IF Executes("BATTDETACH") THEN FALSE ELSE battKnown

HistInit ==
    /\ Init
    /\ lowFor = 0
    /\ heldFor = [c \in Watched |-> 0]
    /\ sinceShut = HistCap
    /\ battKnown = TRUE

HistNext == \/ (do_action \/ StartCheck \/ CheckTimeout) /\ Observe(0)
            \/ \E d \in ReadSecs : \/ (fillUPS(d) \/ CheckChanged(d)) /\ Observe(d)
                                   \/ CheckSame(d) /\ Observe(d + 1)

HistSpec == HistInit /\ [][HistNext]_histVars

(* Every variable of the daemon and of the history has its type: ages and  *)
(* counters stay within their caps, Status holds known bits only.          *)
TypeOK ==
    /\ ActionTypeOK
    /\ wait_left \in Nat
    /\ lowFor \in 0..HistCap
    /\ heldFor \in [Watched -> 0..HistCap]
    /\ sinceShut \in 0..HistCap
    /\ battKnown \in BOOLEAN

(***************************************************************************)
(* Safety: what a shutdown needs, and how it is carried out.               *)
(***************************************************************************)
(* A LOWBATT signal is acted on (event FAILING, which shuts the system     *)
(* down) only after every status since ShutTimer seconds ago showed it:    *)
(* the glitch rejection of do_action(), which examines the bit on every    *)
(* pass, on mains and during a self test too.                              *)
LowBatteryDebounced ==
    [][(pc \in {"case1", "case2"} /\ Executes("FAILING")) => lowFor >= ShutTimer]_histVars

(* do_shutdown() runs its script exactly once in the life of the daemon:   *)
(* in the step that sets the shutdown bit, which is never cleared after.   *)
ShutdownRunsScript ==
    [][/\ Executes("DOSHUTDOWN") <=> "shutdown" \in Status' /\ "shutdown" \notin Status
       /\ "shutdown" \in Status => "shutdown" \in Status']_histVars

(* Under KILLDELAY alone the UPS is told to cut the power no sooner than   *)
(* killdelay seconds after the shutdown script was started, never by a     *)
(* network slave, and never without the powerfail file that tells the halt *)
(* scripts about it.                                                       *)
KillPowerWaits ==
    [][(Executes("KILLPOWER") /\ ~kill_on_powerfail) =>
           "shutdown" \in Status /\ sinceShut >= killdelay /\ ~Slave /\ "pwrfail" \in disk]_histVars

(* Users can log in again when an outage is over, however it ends: logins  *)
(* count as forbidden only in an outage or after a shutdown was begun, and *)
(* the file that forbids them is there only while they count as forbidden, *)
(* unless an earlier life of the daemon left it.  That they are forbidden  *)
(* while they count as such is not promised: making the file may fail.     *)
LoginsComeBack ==
    [][/\ nologin_file' => "onbatt" \in PrevStatus' \/ "shutdown" \in Status'
       /\ "nologin" \in disk' => nologin_file' \/ ("nologin" \in disk /\ ~nologin_file)]_histVars

(* After every pass of do_action() the last BATTATTACH or BATTDETACH event *)
(* agrees with the status, whatever else the pass had to deal with, until  *)
(* the system is shut down (a remote shutdown cuts passes short).          *)
BatteryEventsMatch ==
    (pc \in {"fill", "check"} /\ "shutdown" \notin Status)
        => battKnown = ("battpresent" \in Status)

(***************************************************************************)
(* Bounded response: the timeliness of announcements and shutdowns.  Gap   *)
(* is the longest time between two calls of do_action() when polling fast. *)
(***************************************************************************)
MaxRead == CHOOSE d \in ReadSecs : \A e \in ReadSecs : e <= d

Gap == TIMER_FAST + MaxRead

Later(a, b) == IF a < b THEN b ELSE a

(* A failure is announced (ONBATTERY) once it outlasts onbattdelay and any *)
(* self test it was taken for.                                             *)
AnnounceDeadline == Later(onbattdelay, SelfTestLimit) + Gap + MaxRead

Deadline(c) ==
    CASE c = "onbatt"  -> AnnounceDeadline + maxtime + Gap
      [] c = "battlow" -> ShutTimer + 2 * MaxRead
      [] OTHER         -> AnnounceDeadline + ShutTimer + Gap

(* Whatever the UPS reports in between, a failure that lasts is announced  *)
(* by the ONBATTERY event within AnnounceDeadline.                         *)
AnnouncedInTime ==
    "onbatt" \in Watched /\ heldFor["onbatt"] > AnnounceDeadline
        => Status \cap {"onbatt_msg", "shut_remote"} # {} \/ pc = "exited"

(* Once a shutdown limit (low battery, charge, runtime, or TIMEOUT) is     *)
(* crossed on battery and stays crossed, the shutdown is under way within  *)
(* its deadline: the 5-second timers, the self-test exemption, the second  *)
(* look before ONBATTERY and fast polling add up to a bounded delay.       *)
ShutdownInTime ==
    \A c \in Watched : heldFor[c] > Deadline(c) /\ (c = "onbatt" => maxtime > 0)
        => "shutdown" \in Status \/ pc = "exited"

(* While a shut down system stays on battery the power kill is repeated    *)
(* every killdelay seconds, give or take a poll.                           *)
KillPowerRepeats ==
    ("onbatt" \in Watched /\ killdelay > 0 /\ "shutdown" \in Status
      /\ heldFor["onbatt"] > AnnounceDeadline + killdelay + Gap)
        => age["ShutDown"] <= killdelay + Gap \/ pc = "exited" \/ "shut_remote" \in Status
=============================================================================
