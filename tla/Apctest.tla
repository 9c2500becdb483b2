------------------------------- MODULE Apctest -------------------------------
(***************************************************************************)
(* apctest: the functions of its menus that make a UPS do something - self *)
(* tests, battery calibrations, settings, the kill power test - and the    *)
(* guess which simple cable is connected.  A calibration runs in the UPS,  *)
(* for hours, and ends by itself at any time; the commands and answers of  *)
(* all interfaces may fail, before or after the UPS obeyed.                *)
(***************************************************************************)
EXTENDS Naturals, FiniteSets

CONSTANTS
    TestModes,      \* UPSTYPEs tested: "apcsmart", "usb", "modbus", "dumb"
    Wirings,        \* cables that may be connected
    Values,         \* settings the user may enter
    Accepted,          \* settings the UPS takes
    ClearPolls,     \* polls until the old result is cleared (10 in the code)
    TestPolls,      \* polls until a self test is over (40)
    DatePolls,      \* polls until a new date is in effect (10)
    MaxGlitches     \* bound: commands and answers that fail

CableNames == {"CUSTOM_SIMPLE", "0020A", "0023A", "0095A", "MAM"}

ASSUME ApctestAssumption ==
    /\ Wirings \subseteq CableNames
    /\ {ClearPolls, TestPolls, DatePolls} \subseteq Nat \ {0}
    /\ MaxGlitches \in Nat /\ Accepted # {} /\ Accepted \subseteq Values /\ Values \subseteq Nat

VARIABLES
    unit,           \* external: the UPS
    tool,           \* the program: see ApctestInit
    bits            \* what the tests of a simple cable have seen

testVars == <<unit, tool, bits>>

SmartRetries == 2                       \* smart_poll(): retry

ApctestInit ==
    /\ unit \in [run     : {"none"},                \* "test" or "calibration"
                 reg     : {"NONE", "PASSED"},      \* the status register
                 clear   : {FALSE},                 \* the register is about to be cleared
                 alert   : {FALSE},                 \* a '$' is on the serial line
                 setting : Accepted,
                 coming  : {{}},                    \* a setting that is about to be in effect
                 cable   : Wirings \cup {"none"}]
    /\ tool \in [mode : TestModes, fn : {"menu"}, pc : {"menu"}, n : {0},
                 stop : {FALSE},                    \* 'D' is to end the calibration
                 monitor : {FALSE},                 \* "stop the calibration if it goes below 10"
                 want : {0},                        \* the setting entered
                 said : {"nothing"},                \* the end of the last test that was reported
                 result : {"nothing"},              \* the result printed after "COMPLETED"
                 told : {0},                        \* the setting reported as new; 0 if none
                 pwrfail : {FALSE},                 \* the powerfail file exists
                 glitches : {0}]
    /\ (unit.cable = "none") = (tool.mode # "dumb")
    /\ bits = [normal |-> {}, no_power |-> {}, low_batt |-> {},
               done   |-> {},       \* test1_done, test3_done
               named  |-> {},       \* the cables that guess() named since
               failed |-> FALSE]    \* history: test1() could not read the lines

In(fn, pc) == tool.fn = fn /\ tool.pc = pc
Goes(pc, n) == [tool EXCEPT !.pc = pc, !.n = n]
Says(said) == [tool EXCEPT !.fn = "menu", !.pc = "menu", !.n = 0, !.said = said,
                           !.result = IF said = "COMPLETED" THEN @ ELSE "nothing"]
Completed(result) == [Says("COMPLETED") EXCEPT !.result = result]
Dies == [tool EXCEPT !.fn = "none", !.pc = "dead"]

Glitch == tool.glitches < MaxGlitches
WithGlitch(t) == [t EXCEPT !.glitches = @ + 1]

---------------------------------------------------------------------------
(* The UPS.  A command of the USB or MODBUS driver is obeyed and           *)
(* acknowledged, or fails, obeyed or not.                                  *)
Waiting == IF tool.mode = "modbus" THEN "PENDING" ELSE "NONE"
Obeyed(cmd) ==
    CASE cmd = "abort" -> {IF unit.run = "none" THEN unit ELSE [unit EXCEPT !.run = "none", !.reg = "ABORTED"]}
      [] cmd = "clear" -> {[unit EXCEPT !.clear = TRUE]}
      [] cmd \in {"test", "calibration"} ->
           {[unit EXCEPT !.run = cmd, !.reg = Waiting],
            IF unit.run = "none" THEN [unit EXCEPT !.reg = "REFUSED"] ELSE unit}
Commanded(cmd) ==
    [ok : {TRUE}, unit : Obeyed(cmd), cost : {0}]
    \cup IF Glitch THEN [ok : {FALSE}, unit : {unit} \cup Obeyed(cmd), cost : {1}] ELSE {}
After(o, t) == unit' = o.unit /\ tool' = [t EXCEPT !.glitches = @ + o.cost]

UnitStep ==
    /\ \/ /\ unit.clear /\ unit.run = "none"
          /\ unit' = [unit EXCEPT !.clear = FALSE, !.reg = "NONE"]
       \/ /\ unit.run # "none" /\ unit.reg = Waiting /\ tool.mode # "apcsmart"
          /\ unit' = [unit EXCEPT !.reg = "IN PROGRESS", !.clear = FALSE]
       \/ /\ unit.run # "none" /\ (tool.mode = "apcsmart" \/ unit.reg = "IN PROGRESS")
          /\ \E r \in {"PASSED", "FAILED"} :
               unit' = [unit EXCEPT !.run = "none", !.reg = r, !.alert = tool.mode = "apcsmart"]
       \/ \E v \in unit.coming : unit' = [unit EXCEPT !.setting = v, !.coming = {}]
    /\ UNCHANGED <<tool, bits>>

---------------------------------------------------------------------------
(* USB and MODBUS.  What must be readable, or high enough, before a test   *)
(* begins; only USB clears the result of the last one.                     *)
RunTest(fn, first) ==
    /\ tool' \in {[Goes(first, 0) EXCEPT !.fn = fn], Says("not started")}
    /\ UNCHANGED <<unit, bits>>
usb_run_self_test == RunTest("test", "abort old")
usb_calibration == RunTest("calibration", "abort old")
modbus_run_self_test == RunTest("test", "start")
modbus_calibration == RunTest("calibration", "start")

(* usb_clear_test_result(): a calibration that is in progress is aborted,  *)
(* whether that works or not, then the result is cleared and seen to be.   *)
AbortOld ==
    /\ tool.pc = "abort old"
    /\ \E o \in Commanded("abort") : After(o, Goes("clear", 0))
    /\ UNCHANGED bits
ClearResult ==
    /\ tool.pc = "clear"
    /\ \E o \in Commanded("clear") : After(o, IF o.ok THEN Goes("cleared", 0) ELSE Says("FAILED"))
    /\ UNCHANGED bits
ClearPoll ==
    /\ tool.pc = "cleared"
    /\ \/ /\ tool' = IF unit.reg = "NONE" THEN Goes("start", 0)
                     ELSE IF tool.n + 1 = ClearPolls THEN Says("FAILED")
                     ELSE Goes("cleared", tool.n + 1)
       \/ Glitch /\ tool' = WithGlitch(Says("FAILED"))
    /\ UNCHANGED <<unit, bits>>

StartTest ==
    /\ tool.pc = "start"
    /\ \E o \in Commanded(tool.fn) : After(o, IF o.ok THEN Goes("wait", 0) ELSE Says("FAILED"))
    /\ UNCHANGED bits

AbortCode_clear == "clear"              \* mutant: the code that clears the result
AbortCode == "abort"
AbortTest(t, word) ==
    \E o \in Commanded(AbortCode) :
        unit' = o.unit /\ tool' = [t EXCEPT !.said = IF o.ok THEN word ELSE "FAILED", !.glitches = @ + o.cost]

(* The self test.  usb_run_self_test() waits for any code but "no test",   *)
(* "in progress" being one, and aborts a test that it cannot follow;       *)
(* MODBUS waits for the end, and aborts nothing.  Then both print          *)
(* "COMPLETED" and read the register once more.                            *)
SelfTestOver == IF tool.mode = "usb" THEN unit.reg # "NONE" ELSE unit.reg \notin {"PENDING", "IN PROGRESS"}
SelfTestPoll ==
    /\ In("test", "wait")
    /\ \/ /\ SelfTestOver
          /\ tool' = Goes("result", 0) /\ UNCHANGED unit
       \/ /\ ~SelfTestOver /\ tool.n + 1 < TestPolls
          /\ tool' = Goes("wait", tool.n + 1) /\ UNCHANGED unit
       \/ \E t \in (IF ~SelfTestOver /\ tool.n + 1 = TestPolls THEN {Says("DID NOT COMPLETE")} ELSE {})
                     \cup (IF Glitch THEN {WithGlitch(Says("ERROR"))} ELSE {}) :
            IF tool.mode = "usb" THEN AbortTest(t, t.said) ELSE tool' = t /\ UNCHANGED unit
    /\ UNCHANGED bits

(* usb_get_self_test_result(), modbus_get_self_test_result().              *)
GetResult ==
    /\ tool.pc = "result"
    /\ \/ tool' = Completed(unit.reg)
       \/ Glitch /\ tool' = WithGlitch(Completed("unreadable"))
    /\ UNCHANGED <<unit, bits>>

(* The calibration: completed, aborted by the user, or aborted because its *)
(* state cannot be read.  USB takes any code but "in progress" for the     *)
(* end, also that of a calibration that has not begun.                     *)
CalibrationOver == unit.reg \notin {"PENDING", "IN PROGRESS"}
CalibrationPoll ==
    /\ In("calibration", "wait")
    /\ \/ /\ CalibrationOver
          /\ tool' = IF tool.mode = "usb" THEN Goes("result", 0) ELSE Completed(unit.reg)
          /\ UNCHANGED unit
       \/ AbortTest(Says("user"), "ABORTED")
       \/ Glitch /\ AbortTest(WithGlitch(Says("error")), "ABORTED")
    /\ UNCHANGED bits

---------------------------------------------------------------------------
(* The smart UPS: 'D' starts a calibration, and ends one that runs.        *)
(* smart_poll() reads the answer - a '$' on the way is swallowed - and     *)
(* puts the question again when none comes, if UPSlinkCheck() says that    *)
(* the link is up; else that ends the program, which holds no lock.        *)
Toggled ==
    [unit EXCEPT !.run = IF @ = "none" THEN "calibration" ELSE "none", !.alert = FALSE]
Ends_ok(answer) == answer # ""          \* mutant: any answer will do
Ends(answer) == answer = "NO"
Polled(answer) ==
    IF tool.stop THEN IF Ends(answer) THEN Says("terminated") ELSE Says("response to abort request")
    ELSE IF answer = "OK" THEN Goes("monitor", 0) ELSE Says("unexpected response")
PollD ==
    /\ tool.pc = "D"
    /\ \/ /\ unit' = Toggled
          /\ tool' = Polled(IF unit.run = "none" THEN "OK" ELSE "NO")
       \/ /\ Glitch
          /\ unit' \in {[unit EXCEPT !.alert = FALSE], Toggled}
          /\ tool' = WithGlitch(Goes("link", tool.n))
    /\ UNCHANGED bits
LinkCheck ==
    /\ tool.pc = "link"
    /\ \/ tool' = IF tool.n = 0 THEN Polled("") ELSE Goes("D", tool.n - 1)
       \/ Glitch /\ tool' = WithGlitch(Dies)
    /\ unit' = [unit EXCEPT !.alert = FALSE]
    /\ UNCHANGED bits

SendD(stop) == [Goes("D", SmartRetries) EXCEPT !.fn = "calibration", !.stop = stop]

(* smart_calibration(): the link, the runtime and a full battery first.    *)
smart_calibration ==
    /\ unit' = [unit EXCEPT !.alert = FALSE]
    /\ \/ \E m \in BOOLEAN : tool' = [SendD(FALSE) EXCEPT !.monitor = m]
       \/ tool' = Says("not started")
       \/ Glitch /\ tool' = WithGlitch(Dies)
    /\ UNCHANGED bits
terminate_calibration ==                \* terminate_calibration(1): "Are you sure?"
    /\ tool' = SendD(TRUE)
    /\ UNCHANGED <<unit, bits>>
MonitorOnly ==
    /\ tool' = [Goes("monitor", 0) EXCEPT !.fn = "calibration", !.monitor = FALSE]
    /\ UNCHANGED <<unit, bits>>

(* monitor_calibration_progress(): a key, the '$' of a UPS that is done,   *)
(* or now and then a report of the charge and the runtime, which may be    *)
(* low; the questions for it swallow a '$'.                                *)
Monitor ==
    /\ tool.pc = "monitor"
    /\ \/ tool' = SendD(TRUE) /\ UNCHANGED unit
       \/ /\ unit.alert
          /\ unit' = [unit EXCEPT !.alert = FALSE]
          /\ tool' = Says("terminated by UPS")
       \/ /\ unit' = [unit EXCEPT !.alert = FALSE]
          /\ \/ UNCHANGED tool
             \/ tool.monitor /\ tool' = SendD(TRUE)
             \/ Glitch /\ tool' = WithGlitch(Dies)
    /\ UNCHANGED bits

---------------------------------------------------------------------------
(* Settings.  The UPS takes the nearest value it knows, after a while.     *)
Nearest(v) == CHOOSE r \in Accepted : \A q \in Accepted : (IF r < v THEN v - r ELSE r - v) <= (IF q < v THEN v - q ELSE q - v)
EnterSetting(fn) ==
    /\ \E v \in Values : tool' = [Goes("write", 0) EXCEPT !.fn = fn, !.want = v, !.told = 0]
    /\ UNCHANGED <<unit, bits>>
Listed == {"sens", "alarm", "interval"}        \* the value is one of a list
usb_set_sens == EnterSetting("sens")
usb_set_alarm == EnterSetting("alarm")
usb_set_self_test_interval == EnterSetting("interval")
usb_set_xferv == EnterSetting("xferv")
set_battery_date == EnterSetting("date")        \* usb_set_battery_date, modbus_set_battery_date

(* Only the result of writing a date is looked at.                         *)
WriteSetting ==
    /\ tool.pc = "write"
    /\ \/ /\ unit' = [unit EXCEPT !.coming = {Nearest(tool.want)}]
          /\ tool' = Goes("read", 0)
       \/ /\ Glitch
          /\ unit' \in {unit, [unit EXCEPT !.coming = {Nearest(tool.want)}]}
          /\ tool' = WithGlitch(IF tool.fn = "date" THEN Says("FAILED") ELSE Goes("read", 0))
    /\ UNCHANGED bits

(* "Delay needed for readback to work": the value of usb_set_sens(),       *)
(* usb_set_alarm() and usb_set_self_test_interval() is read and told; for  *)
(* that of usb_set_xferv() the user is asked again, until it is the one    *)
(* that was entered, or 0 is; a date is waited for.                        *)
ReadBack_not(v) == TRUE                 \* mutant: the value read is not compared
ReadBack(v) == v = tool.want
ReadSetting ==
    /\ tool.pc = "read"
    /\ tool.fn # "date" => unit.coming = {}
    /\ LET v == unit.setting
           ask == Goes("ask", 0)
           tell == [Says(tool.said) EXCEPT !.told = IF tool.fn \in Listed THEN v ELSE tool.want]
       IN \/ tool' = CASE tool.fn \in Listed -> tell
                       [] tool.fn = "xferv"  -> IF ReadBack(v) THEN tell ELSE ask
                       [] tool.fn = "date"   -> IF ReadBack(v) THEN tell
                                                ELSE IF tool.n + 1 = DatePolls THEN Says(tool.said)
                                                ELSE Goes("read", tool.n + 1)
          \/ Glitch /\ tool' = WithGlitch(IF tool.fn = "xferv" THEN ask ELSE Says(tool.said))
    /\ UNCHANGED <<unit, bits>>
AskAgainXferv ==
    /\ tool.pc = "ask"
    /\ \/ \E v \in Values : tool' = [Goes("write", 0) EXCEPT !.want = v]
       \/ tool' = Says(tool.said)
    /\ UNCHANGED <<unit, bits>>

(* The kill power tests: the powerfail file is made for                    *)
(* initiate_hibernate() to find, which ends the program if it is not       *)
(* there, and removed.                                                     *)
KillPowerTest ==
    /\ \E made \in BOOLEAN : tool' = [Goes("kill", 0) EXCEPT !.fn = "kill", !.pwrfail = made]
    /\ UNCHANGED <<unit, bits>>
Killed ==
    /\ tool.pc = "kill"
    /\ tool' = IF tool.pwrfail \/ tool.mode = "dumb" THEN [Says(tool.said) EXCEPT !.pwrfail = FALSE] ELSE Dies
    /\ UNCHANGED <<unit, bits>>

---------------------------------------------------------------------------
(* The cables, as the simple signalling driver reads them.                 *)
Lines(c, batt, low) ==
    LET when(on, line) == IF on THEN {line} ELSE {}
    IN CASE c = "CUSTOM_SIMPLE" -> when(batt, "CD") \cup when(~low, "CTS")
         [] c = "0020A"         -> when(batt, "CTS") \cup when(low, "CD")
         [] c = "0023A"         -> when(batt, "CD")
         [] c = "0095A"         -> when(batt, "RNG") \cup when(low, "CD")
         [] c = "MAM"           -> when(~batt, "CTS") \cup when(~low, "CD")

(* test1(), test3() and test4(): the lines with everything normal, without *)
(* power, and when they change after that, because the battery is low or   *)
(* the power is back.  Lines that cannot be read count as none set; the    *)
(* fourth test needs the third.                                            *)
test1 ==
    /\ \/ bits' = [bits EXCEPT !.normal = {}, !.done = @ \cup {1}, !.failed = TRUE, !.named = {}]
       \/ bits' = [bits EXCEPT !.normal = Lines(unit.cable, FALSE, FALSE), !.done = @ \cup {1},
                               !.failed = FALSE, !.named = {}]
    /\ UNCHANGED <<unit, tool>>
test3 ==
    /\ \E lines \in {{}, Lines(unit.cable, TRUE, FALSE)} :
         bits' = [bits EXCEPT !.no_power = lines, !.done = @ \cup {3}]
    /\ UNCHANGED <<unit, tool>>
test4 ==
    /\ 3 \in bits.done
    /\ \E lines \in {bits.no_power, Lines(unit.cable, TRUE, TRUE), Lines(unit.cable, FALSE, FALSE)} :
         bits' = [bits EXCEPT !.low_batt = lines]
    /\ UNCHANGED <<unit, tool>>

(* guess().                                                                *)
LooksLike(off, batt, low) ==
    bits.normal \cap off = {} /\ batt \in bits.no_power /\ low \in bits.low_batt
Guess ==
    /\ bits' = [bits EXCEPT !.named =
         IF ~({1, 3} \subseteq bits.done) THEN {}
         ELSE {c \in {"CUSTOM_SIMPLE", "0020A", "0023A", "0095A"} :
                 CASE c = "CUSTOM_SIMPLE" -> LooksLike({"CD", "CTS"}, "CD", "CTS")
                   [] c = "0020A"         -> LooksLike({"CD", "CTS"}, "CTS", "CD")
                   [] c = "0023A"         -> LooksLike({"CD", "SR"}, "CD", "SR")
                   [] c = "0095A"         -> LooksLike({"RNG", "CD"}, "RNG", "CD")}]
    /\ UNCHANGED <<unit, tool>>

---------------------------------------------------------------------------
(* The menus.  What only reads and prints, or beeps, is left out.          *)
Menu(mode) == tool.fn = "menu" /\ tool.mode = mode
do_usb_testing ==
    /\ Menu("usb")
    /\ \/ usb_run_self_test \/ usb_calibration \/ KillPowerTest \/ set_battery_date
       \/ usb_set_sens \/ usb_set_alarm \/ usb_set_self_test_interval \/ usb_set_xferv
do_modbus_testing ==
    /\ Menu("modbus")
    /\ modbus_run_self_test \/ modbus_calibration \/ KillPowerTest \/ set_battery_date
do_smart_testing ==
    /\ Menu("apcsmart")
    /\ smart_calibration \/ terminate_calibration \/ MonitorOnly
do_dumb_testing ==
    /\ Menu("dumb")
    /\ KillPowerTest \/ test1 \/ test3 \/ test4 \/ Guess

ApctestNext ==
    \/ UnitStep \/ do_usb_testing \/ do_modbus_testing \/ do_smart_testing \/ do_dumb_testing
    \/ AbortOld \/ ClearResult \/ ClearPoll \/ StartTest \/ SelfTestPoll \/ CalibrationPoll \/ GetResult
    \/ PollD \/ LinkCheck \/ Monitor
    \/ WriteSetting \/ ReadSetting \/ AskAgainXferv \/ Killed

TestSpec == ApctestInit /\ [][ApctestNext]_testVars

---------------------------------------------------------------------------
(* What the user is told is so.  After "terminated", "ABORTED" or          *)
(* "COMPLETED" no test or calibration runs on, however commands and        *)
(* answers failed before and whenever the UPS ended it by itself (a 'D'    *)
(* too many would start the next calibration) - except that the            *)
(* "COMPLETED" of a USB UPS counts only with a final result printed after  *)
(* it; a setting told to be made is the one in the UPS; no powerfail file  *)
(* is left for a later --killpower to find; and guess() names no cable but *)
(* the one there is, unless the lines could not be read in test1().        *)
Over == {"terminated", "terminated by UPS", "ABORTED", "COMPLETED"}
NoResult == {"NONE", "IN PROGRESS", "unreadable"}
CompletedAlone == tool.mode = "usb" /\ tool.said = "COMPLETED" /\ tool.result \in NoResult
ReportsAreTrue ==
    tool.fn = "menu" =>
        /\ tool.said \in Over /\ ~CompletedAlone => unit.run = "none"
        /\ tool.told # 0 => unit.setting = tool.told
        /\ ~tool.pwrfail
        /\ bits.failed \/ bits.named \subseteq {unit.cable}
=============================================================================
