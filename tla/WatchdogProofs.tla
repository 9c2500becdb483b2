--------------------------- MODULE WatchdogProofs ---------------------------
(***************************************************************************)
(* Two promises of the watchdog of ModbusUsbComm.cpp, for all timeouts and *)
(* every interleaving of the two threads: it has ended when Close()        *)
(* returns, and a read that hangs is over in bounded time.                 *)
(***************************************************************************)
EXTENDS UsbWatchdog, TLAPS

Times == {MODBUS_INTERFRAME_TIMEOUT, MODBUS_IDLE_WAIT_TIMEOUT, MODBUS_RESPONSE_TIMEOUT,
          MODBUS_WATCHDOG_POLL, MODBUS_WATCHDOG_GRACE, TimeCap}
InCall == {"loop", "armed", "reading", "done"}

Types ==
    /\ io \in InCall \cup {"closed", "joining", "idle"}
    /\ call \in Calls
    /\ callFor \in Nat /\ target \in Nat
    /\ left \in Nat
    /\ deadline \in Nat \cup {Overrun, Disarmed}
    /\ running \in BOOLEAN
    /\ wd \in {"off", "asleep", "signalling"}
    /\ wdLeft \in 0..MODBUS_WATCHDOG_POLL

(* The watchdog runs as long as the port is open: only Close() lets it go. *)
WatchdogRuns ==
    io \notin {"closed", "joining"} => running /\ wd # "off"

(* Where the time of ModbusRx() is spent: until the deadline the two       *)
(* clocks add up; from then on it is the watchdog's nap that is left.      *)
RxClock ==
    call = "ModbusRx" =>
        /\ callFor <= RxBound
        /\ io \in {"armed", "reading"} =>
             /\ deadline \in Nat \/ (io = "reading" /\ deadline = Overrun)
             /\ deadline \in Nat =>
                  callFor + deadline <= MODBUS_RESPONSE_TIMEOUT + MODBUS_WATCHDOG_GRACE
             /\ deadline = Overrun /\ wd = "asleep" => callFor + wdLeft <= RxBound

WatchdogInv == Types /\ NoSignalAfterClose /\ WatchdogRuns /\ RxClock

LEMMA TimesAreNat ==
    /\ MODBUS_INTERFRAME_TIMEOUT \in Nat /\ MODBUS_IDLE_WAIT_TIMEOUT \in Nat
    /\ MODBUS_RESPONSE_TIMEOUT \in Nat /\ MODBUS_WATCHDOG_POLL \in Nat
    /\ MODBUS_WATCHDOG_GRACE \in Nat /\ TimeCap \in Nat
    /\ RxBound \in Nat
  BY WatchdogAssumption DEF RxBound

LEMMA WatchdogStart == Init => WatchdogInv
<1> SUFFICES ASSUME Init PROVE WatchdogInv
  OBVIOUS
<1>1. running \in BOOLEAN
  BY Zenon DEF Init
<1> QED BY <1>1, TimesAreNat DEF Init, WatchdogInv, Types, NoSignalAfterClose, WatchdogRuns,
           RxClock, InCall, Calls, Disarmed, Overrun

LEMMA WatchdogStep ==
    ASSUME WatchdogInv, [Next]_vars
    PROVE  WatchdogInv'
<1> USE TimesAreNat DEF WatchdogInv, Types, NoSignalAfterClose, WatchdogRuns, RxClock,
        InCall, Calls, Disarmed, Overrun
<1>1. CASE UNCHANGED vars
  BY <1>1 DEF vars, ioVars
<1>2. CASE Open
  BY <1>2 DEF Open, ioVars
<1>3. CASE StopWatchdog
  <2>1. running' \in BOOLEAN
    BY <1>3, Zenon DEF StopWatchdog
  <2> QED BY <1>3, <2>1 DEF StopWatchdog, ioVars
<1>4. CASE Join
  BY <1>4 DEF Join, ioVars
<1>5. CASE StartTx
  BY <1>5 DEF StartTx, Enter
<1>6. CASE TransferFails \/ TransferDone \/ TransferTimesOut
  <2>1. PICK r : Return(r) /\ UNCHANGED wd
    BY <1>6 DEF TransferFails, TransferDone, TransferTimesOut
  <2>2. io = "reading"
    BY <1>6 DEF TransferFails, TransferDone, TransferTimesOut
  <2> QED BY <2>1, <2>2 DEF Return
<1>7. CASE LoopGivesUp
  BY <1>7 DEF LoopGivesUp, ioVars
<1>8. CASE ArmWatchdogDeadline
  <2>1. TransferTime \in Nat
    BY <1>8 DEF ArmWatchdogDeadline, GivesUp, TransferTime
  <2>2. call = "ModbusRx" => callFor + TransferTime = MODBUS_RESPONSE_TIMEOUT
    BY DEF TransferTime
  <2> QED BY <1>8, <2>1, <2>2 DEF ArmWatchdogDeadline, ArmedFor
<1>9. CASE StartTransfer
  BY <1>9 DEF StartTransfer
<1>10. CASE CallEnds
  BY <1>10 DEF CallEnds, DisarmWatchdogDeadline, ioVars
<1>11. CASE CallProceeds
  BY <1>11 DEF CallProceeds, DisarmWatchdogDeadline, Enter
<1>12. CASE CallLoops
  BY <1>12 DEF CallLoops, DisarmWatchdogDeadline
<1>13. CASE LooksAtDeadline
  BY <1>13 DEF LooksAtDeadline, Overdue, ioVars
<1>14. CASE Signal
  <2>1. wd = "signalling" /\ UNCHANGED <<call, callFor, target, left, deadline, running>>
    BY <1>14 DEF Signal
  <2>2. \/ io = "reading" /\ io' = "done"
        \/ io # "reading" /\ io' = io
    BY <1>14 DEF Signal
  <2>3. \/ running /\ wd' = "asleep" /\ wdLeft' = MODBUS_WATCHDOG_POLL
        \/ ~running /\ wd' \in {"off", "asleep"} /\ wdLeft' \in 0..MODBUS_WATCHDOG_POLL
    BY <1>14 DEF Signal, AfterSignal
  <2>4. Types'
    BY <2>1, <2>2, <2>3
  <2>5. NoSignalAfterClose' /\ WatchdogRuns'
    BY <2>1, <2>2, <2>3
  <2>6. RxClock'
    BY <2>1, <2>2
  <2> HIDE DEF Types, NoSignalAfterClose, WatchdogRuns, RxClock
  <2> QED BY <2>4, <2>5, <2>6
<1>15. CASE Tick
  <2>1. callFor' \in Nat /\ callFor' <= callFor + 1 /\ (io # "reading" => callFor' = callFor)
    BY <1>15 DEF Tick, Capped
  <2>2. Types'
    BY <1>15, <2>1 DEF Tick
  <2>3. NoSignalAfterClose' /\ WatchdogRuns'
    BY <1>15 DEF Tick
  <2>4. RxClock'
    BY <1>15, <2>1 DEF Tick, RxBound
  <2> HIDE DEF Types, NoSignalAfterClose, WatchdogRuns, RxClock
  <2> QED BY <2>2, <2>3, <2>4
<1> QED BY <1>1, <1>2, <1>3, <1>4, <1>5, <1>6, <1>7, <1>8, <1>9, <1>10, <1>11, <1>12,
           <1>13, <1>14, <1>15 DEF Next, IoNext, WdNext

LEMMA WatchdogAlways == Spec => []WatchdogInv
  BY WatchdogStart, WatchdogStep, PTL DEF Spec

(* When Close() has returned the watchdog thread has ended, whichever of   *)
(* its steps StopWatchdog() caught it in.                                  *)
THEOREM ClosedIsQuiet == Spec => []NoSignalAfterClose
  BY WatchdogAlways, PTL DEF WatchdogInv

(* ModbusRx() is over within its timeout, the grace period and one nap of  *)
(* the watchdog, even if every read hangs; and no time left for a transfer *)
(* is ever computed below zero.                                            *)
THEOREM RxAlwaysBounded == Spec => []RxIsBounded
<1>1. WatchdogInv => RxIsBounded
  BY DEF WatchdogInv, Types, RxClock, RxIsBounded
<1> QED BY WatchdogAlways, <1>1, PTL
=============================================================================
