------------------------------ MODULE UsbDriver ------------------------------
(***************************************************************************)
(* The USB driver of src/drivers/usb: usb.c on one of its three platforms. *)
(* The status is polled, value by value, and the UPS reports changes by    *)
(* itself, of which those that are none are ignored.  A lost device is     *)
(* noticed only while waiting for reports.                                 *)
(***************************************************************************)
EXTENDS UpsDriver

CONSTANTS
    Platforms,
    Offers          \* the values a UPS may have: sets of Items

(* The values that tell mains from battery, and a low battery.  (Two more  *)
(* tell a low battery, as CI_BelowRemCapLimit does.)  CI_BatteryPresent    *)
(* changes with the battery, which nobody else knows of.                   *)
Items == {"STATUS", "BelowRemCapLimit", "Discharging", "ACPresent"}

ASSUME UsbAssumption ==
    /\ Platforms \subseteq {"linux", "bsd", "generic"}
    /\ Offers \subseteq SUBSET Items /\ {} \notin Offers

VARIABLES
    platform,
    usb                 \* the driver: see UsbInit

usbVars == <<platform, usb>>

(* What an item says of a UPS that is doing t, as a set of status bits:    *)
(* CI_STATUS is the whole byte, of each other item {} stands for 0.        *)
BitsOf(ci) ==
    CASE ci = "STATUS"           -> ApcByte
      [] ci = "BelowRemCapLimit" -> {"battlow"}
      [] ci = "Discharging"      -> {"onbatt"}
      [] ci = "ACPresent"        -> {"online"}
ValueOf(ci, t) == ByteOf(t) \cap BitsOf(ci)

UsbInit ==
    /\ platform \in Platforms
    /\ usb = [open    |-> FALSE,    \* _fd or the libusb handle
              caps    |-> {},       \* UPS_Cap and _info
              last    |-> [i \in Items |-> {}],     \* _info[]->value
              bpcnt   |-> 0,        \* _bpcnt, up to 1
              recent  |-> FALSE,    \* the last poll is less than 5 s ago
              missed  |-> TRUE,     \* history: the last poll had no answer from Telling
              check   |-> FALSE,    \* _linkcheck
              turns   |-> 0,        \* tlog in usb_link_check()
              said    |-> FALSE,    \* ~once
              method  |-> 1,        \* the next way kill_power() tries
              armed   |-> {}]       \* the countdowns of the UPS that were set

(* usb_process_value(): CI_STATUS replaces the byte, CI_Discharging tells  *)
(* mains from battery; that there is mains, and a low battery, is only     *)
(* ever set, and forgotten by the next poll.                               *)
usb_process_value(s, ci, v) ==
    CASE ci = "STATUS"           -> (s \ ApcByte) \cup v
      [] ci = "BelowRemCapLimit" -> s \cup v
      [] ci = "Discharging"      -> IF v # {} THEN clear_online(s) ELSE set_online(s)
      [] ci = "ACPresent"        -> IF v # {} THEN set_online(s) ELSE s

(* Two reports in a row are needed before a battery counts as present.     *)
BatteryPresent(s, there) ==
    IF ~there THEN s \ {"battpresent"}
    ELSE IF usb.bpcnt > 0 THEN s \cup {"battpresent"} ELSE s

(* pusb_ups_get_capabilities(): the values the device says it has, with    *)
(* what is known of them.  HIDIOCINITREPORT has the kernel of Linux fetch  *)
(* every value first, one after the other; elsewhere they start as zero.   *)
(* get_capabilities() then drops CI_ACPresent if there is CI_Discharging.  *)
(* [caps, last].                                                           *)
Used(offer) == IF "Discharging" \in offer THEN offer \ {"ACPresent"} ELSE offer
linux_capabilities ==
    {[caps |-> Used(c), last |-> [i \in Items |-> IF i \in Used(c) THEN ValueOf(i, seen[i]) ELSE {}]] :
        c \in Offers, seen \in [Items -> Truths]}
bsd_capabilities == {[caps |-> Used(c), last |-> [i \in Items |-> {}]] : c \in Offers}
generic_capabilities == bsd_capabilities
Found ==
    IF link = "down" THEN {[caps |-> {}, last |-> usb.last]}
    ELSE CASE platform = "linux"   -> linux_capabilities
           [] platform = "bsd"     -> bsd_capabilities
           [] platform = "generic" -> generic_capabilities

(* What one interrupt of the device may tell that is new: hiddev gives one *)
(* value at a time; elsewhere a report carries all values with its number. *)
(* A report of an unexpected length is dropped.                            *)
News == {ci \in usb.caps : ValueOf(ci, truth) # usb.last[ci]}
linux_events == {{ci} : ci \in News}
bsd_events == {r \cap News : r \in SUBSET usb.caps} \ {{}}
generic_events == bsd_events
Events ==
    CASE platform = "linux"   -> linux_events
      [] platform = "bsd"     -> bsd_events
      [] platform = "generic" -> generic_events

---------------------------------------------------------------------------
(* Open(): open_usb_device() looks for the device ten times.               *)
UsbOpen ==
    /\ driver = "usb" /\ phase = "open"
    /\ \/ link = "down" /\ OpenFails /\ UNCHANGED usb
       \/ /\ link = "up" /\ OpenSucceeds(Status \ {"slave"})
          /\ usb' = [usb EXCEPT !.open = TRUE]
    /\ UNCHANGED <<driver, options, truth, link, platform>>

(* get_capabilities() and read_static_data(): on Linux a device that is    *)
(* gone again ends the program.                                            *)
UsbSetup ==
    /\ driver = "usb" /\ phase = "setup"
    /\ \/ platform = "linux" /\ link = "down" /\ Abort /\ UNCHANGED usb
       \/ /\ ~(platform = "linux" /\ link = "down")
          /\ \E f \in Found :
               /\ usb' = [usb EXCEPT !.caps = f.caps, !.last = f.last]
               /\ SetupDone(f.caps # {})
    /\ UNCHANGED <<driver, Status, tries, options, truth, link, platform>>

(* The values v of some items processed, by a poll in the order of         *)
(* known_info[], by a report in that of the capabilities.                  *)
With(s, ci, v) == IF ci \in DOMAIN v THEN usb_process_value(s, ci, v[ci]) ELSE s
WithParts(s, v) ==
    With(With(With(s, "BelowRemCapLimit", v), "Discharging", v), "ACPresent", v)
Polled(s, v) == With(WithParts(s, v), "STATUS", v)
Reported(s, v) == WithParts(With(s, "STATUS", v), v)

Tracked_poll(v, old) == old              \* mutant: a poll does not update _info[]->value
Tracked(v, old) == [i \in Items |-> IF i \in DOMAIN v THEN v[i] ELSE old[i]]

(* The items that tell mains from battery both ways.                       *)
Telling == {"Discharging", "STATUS"} \cap usb.caps

(* read_volatile_data(): the APC byte is cleared and put together again    *)
(* from the values that can be read.  Each is a read of its own, and the   *)
(* UPS may change between two of them.                                     *)
Throttled == "onbatt" \in Status /\ usb.recent
TakePoll(v, there) ==
    /\ Status' = LET s == Polled(Status \ ApcByte, v)
                 IN IF link = "up" THEN BatteryPresent(s, there) ELSE s
    /\ usb' = [usb EXCEPT !.last = Tracked(v, @), !.recent = TRUE,
                          !.missed = Telling \cap DOMAIN v = {},
                          !.bpcnt = IF link = "down" THEN @ ELSE IF there THEN 1 ELSE 0]
UsbRead ==
    /\ driver = "usb" /\ phase = "fill"
    /\ \/ Throttled /\ UNCHANGED <<Status, usb>>
       \/ /\ ~Throttled
          /\ \E got \in SUBSET (IF link = "up" THEN usb.caps ELSE {}), there \in BOOLEAN :
               \E seen \in [got -> Truths] :
                 TakePoll([i \in got |-> ValueOf(i, seen[i])], there)
    /\ phase' = "act" /\ Silent
    /\ UNCHANGED <<driver, tries, options, truth, link, platform>>

(* check_state(): the values that are not the ones last seen count, and it *)
(* waits on if they were no more than CI_STATUS (usb_report_event()).      *)
TakeReport(v) ==
    /\ Status' = Reported(Status, v)
    /\ usb' = [usb EXCEPT !.last = Tracked(v, @)]
    /\ phase' = IF DOMAIN v = {"STATUS"} THEN "check" ELSE "fill"
UsbReport ==
    /\ driver = "usb" /\ phase = "check" /\ ~usb.check /\ link = "up"
    /\ \E cis \in Events : TakeReport([i \in cis |-> ValueOf(i, truth)])
    /\ Silent
    /\ UNCHANGED <<driver, tries, options, truth, link, platform>>

(* check_state() times out.                                                *)
UsbTimeout ==
    /\ driver = "usb" /\ phase = "check" /\ ~usb.check
    /\ usb' \in {usb, [usb EXCEPT !.recent = FALSE]}
    /\ phase' = "fill" /\ Silent
    /\ UNCHANGED <<driver, Status, tries, options, truth, link, platform>>

(* usb_link_check(), entered from check_state().                           *)
UsbLost ==
    /\ driver = "usb" /\ phase = "check" /\ ~usb.check /\ link = "down"
    /\ Status' = Status \cup {"commlost"}
    /\ usb' = [usb EXCEPT !.check = TRUE, !.turns = 0, !.said = FALSE]
    /\ Silent
    /\ UNCHANGED <<driver, phase, tries, options, truth, link, platform>>

(* From the third turn on the failure is announced, once.                  *)
LinkGrace == 2
UsbLostSay ==
    /\ driver = "usb" /\ usb.check /\ usb.turns = LinkGrace /\ ~usb.said
    /\ usb' = [usb EXCEPT !.said = TRUE]
    /\ SayFailure
    /\ UNCHANGED <<driver, phase, Status, tries, options, truth, link, platform>>

(* A turn: five seconds of sleep, then the device is closed and opened.    *)
(* The link may go again before it is read: an empty device, or the end of *)
(* the program on Linux.                                                   *)
Slept_not(r) == r                        \* mutant: the loop does not sleep
Slept(r) == FALSE
UsbRelink ==
    /\ driver = "usb" /\ usb.check /\ (usb.turns = LinkGrace => usb.said)
    /\ \/ /\ link = "up"
          /\ \E f \in Found :
               usb' = [usb EXCEPT !.check = FALSE, !.open = TRUE, !.caps = f.caps,
                                  !.last = f.last, !.recent = Slept(@), !.turns = 0,
                                  !.said = FALSE]
          /\ Status' = Status \ {"commlost"}
          /\ SayOk /\ phase' = "fill"
       \/ /\ link = "down"
          /\ usb' = [usb EXCEPT !.open = FALSE, !.caps = {}, !.recent = Slept(@),
                                !.turns = IF @ < LinkGrace THEN @ + 1 ELSE @]
          /\ UNCHANGED <<Status, phase>> /\ Silent
       \/ /\ platform = "linux" /\ Abort /\ UNCHANGED <<Status, usb>>
    /\ UNCHANGED <<driver, tries, options, truth, link, platform>>

---------------------------------------------------------------------------
(* kill_power() and shutdown(): the ways to turn the UPS off, in the order *)
(* they are tried; the last is shutdown(), after which it stays off.  A    *)
(* way of two writes undoes the first when the second fails.               *)
Methods == << [prepare |-> {},               trigger |-> "APCDelayBeforeShutdown"],
              [prepare |-> {"DWAKE"},        trigger |-> "DelayBeforeShutdown"],
              [prepare |-> {"BUPHibernate"}, trigger |-> "BUPSelfTest"],
              [prepare |-> {},               trigger |-> "DelayBeforeReboot"],
              [prepare |-> {},               trigger |-> "APCForceShutdown"],
              [prepare |-> {},               trigger |-> "DelayBeforeShutdown"] >>
Triggers == {Methods[i].trigger : i \in DOMAIN Methods}

Hibernating == usb.armed \cap Triggers # {}
UsbKill ==
    /\ driver = "usb" /\ phase = "kill"
    /\ \/ /\ ~Hibernating /\ usb.method <= Len(Methods)
          /\ LET m == Methods[usb.method]
             IN \E done \in {m.prepare \cup {m.trigger}, m.prepare, {}} :
                  /\ link = "down" => done = {}
                  /\ usb' = [usb EXCEPT !.armed = @ \cup done, !.method = @ + 1]
          /\ Silent /\ UNCHANGED phase
       \/ /\ Hibernating \/ usb.method > Len(Methods)
          /\ KillDone
          /\ usb' = [usb EXCEPT !.method = 1, !.armed = {}]
    /\ UNCHANGED <<driver, Status, tries, options, truth, link, platform>>

(* entry_point() reads the reason of the transfer: no state of this model. *)
UsbClose ==
    /\ driver = "usb" /\ phase = "close"
    /\ phase' = "closed" /\ Silent
    /\ UNCHANGED <<driver, Status, tries, options, truth, link, usbVars>>

UsbNext ==
    \/ UsbOpen \/ UsbSetup \/ UsbRead \/ UsbReport \/ UsbTimeout \/ UsbLost
    \/ UsbLostSay \/ UsbRelink \/ UsbKill \/ UsbClose

---------------------------------------------------------------------------
(* A report that is ignored because its value is the one last seen has     *)
(* nothing new for the status: polls that are skipped or half done, link   *)
(* checks and reports keep the two in step.  There are two exceptions: the *)
(* last poll was not told whether the UPS is on battery, or the values     *)
(* last seen contradict each other, as when the mains comes back between   *)
(* the reads of CI_Discharging and CI_STATUS of one poll.  (Then the       *)
(* status follows one of them, a new outage that repeats the value of the  *)
(* other is ignored, and only the next poll sees it.)                      *)
Contradictory ==
    \E i, j \in Telling : "onbatt" \in usb.last[i] /\ "onbatt" \notin usb.last[j]
IgnoredReportsAreKnown ==
    driver = "usb" /\ phase = "check" /\ ~usb.check /\ ~usb.missed /\ ~Contradictory
        => \A i \in Telling : "onbatt" \in usb.last[i] <=> "onbatt" \in Status
=============================================================================
