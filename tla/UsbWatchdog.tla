---------------------------- MODULE UsbWatchdog -----------------------------
(***************************************************************************)
(* The USB transfers of src/drivers/modbus/ModbusUsbComm.cpp and the       *)
(* watchdog thread that interrupts one that outlives its deadline.         *)
(*                                                                         *)
(* The I/O thread goes through WaitIdle(), InterruptWrite() (ModbusTx) and *)
(* ModbusRx(); around every transfer it arms and disarms a deadline which  *)
(* the watchdog thread reads every MODBUS_WATCHDOG_POLL, without a lock.   *)
(* A transfer may hang: it then ignores its own timeout and ends only when *)
(* a report arrives or the watchdog's signal interrupts it (EINTR).        *)
(* A signal that finds no transfer in progress has no effect.              *)
(***************************************************************************)
EXTENDS Integers

CONSTANTS
    MODBUS_INTERFRAME_TIMEOUT, MODBUS_IDLE_WAIT_TIMEOUT, MODBUS_RESPONSE_TIMEOUT,
    MODBUS_WATCHDOG_POLL, MODBUS_WATCHDOG_GRACE,
    Hangs,          \* subset of BOOLEAN: may a transfer hang
    TimeCap         \* where the time spent in a call saturates

ASSUME WatchdogAssumption ==
    /\ {MODBUS_INTERFRAME_TIMEOUT, MODBUS_IDLE_WAIT_TIMEOUT, MODBUS_RESPONSE_TIMEOUT,
        MODBUS_WATCHDOG_POLL, MODBUS_WATCHDOG_GRACE, TimeCap} \subseteq Nat \ {0}
    /\ FALSE \in Hangs /\ Hangs \subseteq BOOLEAN

Disarmed == -1000       \* _watchdogDeadlineNs = 0
Overrun == -1           \* a deadline in the past
Calls == {"WaitIdle", "ModbusTx", "ModbusRx"}

VARIABLES
    io,         \* "closed", "joining", "idle", or where in a call: "loop",
                \* "armed", "reading", "done"
    call,       \* the call in progress
    callFor,    \* time since it was entered
    target,     \* WaitIdle's idle target on the same clock
    left,       \* time to the timeout of the transfer in progress
    hung,       \* whether it ignores its timeout
    rc,         \* what it returned
    deadline,   \* time to _watchdogDeadlineNs, Overrun or Disarmed
    running,    \* _watchdogRunning
    wd,         \* the watchdog thread: "off", "asleep", "signalling"
    wdLeft      \* time to its next look at the deadline

ioVars == <<call, callFor, target, left, hung, rc>>
vars == <<io, ioVars, deadline, running, wd, wdLeft>>

Capped(n) == IF n < TimeCap THEN n ELSE TimeCap

Init ==
    /\ io = "closed"
    /\ call = "WaitIdle" /\ callFor = 0 /\ target = 0 /\ left = 0
    /\ hung = FALSE /\ rc = "none"
    /\ deadline = Disarmed
    /\ running = FALSE
    /\ wd = "off" /\ wdLeft = 0

---------------------------------------------------------------------------
(* The session: Open() starts the watchdog, Close() stops and joins it.    *)
Open ==
    /\ io = "closed"
    /\ io' = "idle"
    /\ deadline' = Disarmed
    /\ running' = TRUE
    /\ wd' = "asleep" /\ wdLeft' = MODBUS_WATCHDOG_POLL
    /\ UNCHANGED ioVars

StopWatchdog ==
    /\ io = "idle"
    /\ running' = FALSE
    /\ io' = "joining"
    /\ UNCHANGED <<ioVars, deadline, wd, wdLeft>>

Join_skipped ==
    /\ io = "joining"
    /\ io' = "closed"
    /\ deadline' = Disarmed
    /\ UNCHANGED <<ioVars, running, wd, wdLeft>>

Join ==
    /\ io = "joining"
    /\ wd = "off"
    /\ io' = "closed"
    /\ deadline' = Disarmed
    /\ UNCHANGED <<ioVars, running, wd, wdLeft>>

---------------------------------------------------------------------------
(* The calls.                                                              *)
Enter(c) ==
    /\ call' = c
    /\ callFor' = 0
    /\ target' = MODBUS_INTERFRAME_TIMEOUT
    /\ io' = "loop"

(* ModbusTx() waits for silence first.                                     *)
StartTx ==
    /\ io = "idle"
    /\ Enter("WaitIdle")
    /\ UNCHANGED <<left, hung, rc, deadline, running, wd, wdLeft>>

(* The timeout the loop of each call passes to its transfer.  WaitIdle     *)
(* clamps what is left to 1 ms, here less than a unit of time.             *)
TransferTime_unclamped ==
    CASE call = "WaitIdle" -> target - callFor
      [] call = "ModbusTx" -> MODBUS_RESPONSE_TIMEOUT
      [] call = "ModbusRx" -> MODBUS_RESPONSE_TIMEOUT - callFor

TransferTime_restarted ==
    CASE call = "WaitIdle" -> IF target > callFor THEN target - callFor ELSE 0
      [] call = "ModbusTx" -> MODBUS_RESPONSE_TIMEOUT
      [] call = "ModbusRx" -> MODBUS_RESPONSE_TIMEOUT

TransferTime ==
    CASE call = "WaitIdle" -> IF target > callFor THEN target - callFor ELSE 0
      [] call = "ModbusTx" -> MODBUS_RESPONSE_TIMEOUT
      [] call = "ModbusRx" -> MODBUS_RESPONSE_TIMEOUT - callFor

(* The condition on which each loop gives up before another transfer.      *)
GivesUp ==
    \/ call = "WaitIdle" /\ target > MODBUS_IDLE_WAIT_TIMEOUT
    \/ call = "ModbusRx" /\ TransferTime <= 0

LoopGivesUp ==
    /\ io = "loop"
    /\ GivesUp
    /\ io' = "idle"
    /\ UNCHANGED <<ioVars, deadline, running, wd, wdLeft>>

ArmedFor_rx == IF call = "ModbusRx" THEN TransferTime + MODBUS_WATCHDOG_GRACE ELSE Disarmed
ArmedFor == TransferTime + MODBUS_WATCHDOG_GRACE

ArmWatchdogDeadline ==
    /\ io = "loop"
    /\ ~GivesUp
    /\ deadline' = ArmedFor
    /\ left' = TransferTime
    /\ io' = "armed"
    /\ UNCHANGED <<call, callFor, target, hung, rc, running, wd, wdLeft>>

StartTransfer ==
    /\ io = "armed"
    /\ hung' \in Hangs
    /\ io' = "reading"
    /\ UNCHANGED <<call, callFor, target, left, rc, deadline, running, wd, wdLeft>>

Return(r) ==
    /\ rc' = r
    /\ io' = "done"
    /\ UNCHANGED <<call, callFor, target, left, hung, deadline, running, wdLeft>>

(* The transfer ends by itself: its timeout, an error, or data; for a read *)
(* a MODBUS report or another one.                                         *)
TransferTimesOut == io = "reading" /\ ~hung /\ left = 0 /\ Return("ETIMEDOUT") /\ UNCHANGED wd
TransferFails == io = "reading" /\ ~hung /\ Return("error") /\ UNCHANGED wd
TransferDone ==
    /\ io = "reading"
    /\ \E r \in IF call = "ModbusTx" THEN {"written"} ELSE {"modbus", "other"} : Return(r)
    /\ UNCHANGED wd

(* DisarmWatchdogDeadline() and what the call does with the result.        *)
DisarmWatchdogDeadline == deadline' = Disarmed

CallEnds ==
    /\ io = "done"
    /\ \/ rc \in {"ETIMEDOUT", "error"} /\ ~(call = "WaitIdle" /\ rc = "ETIMEDOUT")
       \/ call = "ModbusTx" /\ rc = "EINTR"
       \/ call = "ModbusRx" /\ rc = "modbus"
    /\ DisarmWatchdogDeadline
    /\ io' = "idle"
    /\ UNCHANGED <<ioVars, running, wd, wdLeft>>

(* The line is idle: write the request; once written, receive.             *)
CallProceeds ==
    /\ io = "done"
    /\ \/ call = "WaitIdle" /\ rc = "ETIMEDOUT" /\ Enter("ModbusTx")
       \/ call = "ModbusTx" /\ rc = "written" /\ Enter("ModbusRx")
    /\ DisarmWatchdogDeadline
    /\ UNCHANGED <<left, hung, rc, running, wd, wdLeft>>

(* Interrupted, or a report that is not for us: around the loop again.     *)
CallLoops ==
    /\ io = "done"
    /\ call # "ModbusTx"
    /\ \/ rc \in {"EINTR", "other"}
       \/ call = "WaitIdle" /\ rc = "modbus"
    /\ target' = IF call = "WaitIdle" /\ rc = "modbus"
                 THEN callFor + MODBUS_INTERFRAME_TIMEOUT ELSE target
    /\ DisarmWatchdogDeadline
    /\ io' = "loop"
    /\ UNCHANGED <<call, callFor, left, hung, rc, running, wd, wdLeft>>

---------------------------------------------------------------------------
(* The watchdog thread: WatchdogThreadMain().                              *)
Overdue == deadline = Overrun

LooksAtDeadline ==
    /\ wd = "asleep"
    /\ wdLeft = 0
    /\ IF Overdue THEN wd' = "signalling" /\ UNCHANGED wdLeft
       ELSE IF running THEN wdLeft' = MODBUS_WATCHDOG_POLL /\ UNCHANGED wd
       ELSE wd' = "off" /\ UNCHANGED wdLeft
    /\ UNCHANGED <<io, ioVars, deadline, running>>

AfterSignal ==
    IF running THEN wd' = "asleep" /\ wdLeft' = MODBUS_WATCHDOG_POLL
    ELSE wd' = "off" /\ UNCHANGED wdLeft

(* pthread_kill(): the transfer in progress, if any, returns EINTR.        *)
Signal ==
    /\ wd = "signalling"
    /\ AfterSignal
    /\ IF io = "reading" THEN rc' = "EINTR" /\ io' = "done" ELSE UNCHANGED <<io, rc>>
    /\ UNCHANGED <<call, callFor, target, left, hung, deadline, running>>

(* Time passes while the I/O thread is in a transfer, between calls or in  *)
(* pthread_join(); a transfer that honours its timeout does not outlive    *)
(* it, and neither thread is held up for a unit of time elsewhere.         *)
Tick ==
    /\ io \in {"reading", "idle", "joining"}
    /\ io = "reading" => hung \/ left > 0
    /\ wd # "signalling"
    /\ wd = "asleep" => wdLeft > 0
    /\ wdLeft' = IF wd = "asleep" THEN wdLeft - 1 ELSE wdLeft
    /\ left' = IF left > 0 THEN left - 1 ELSE 0
    /\ callFor' = IF io = "reading" THEN Capped(callFor + 1) ELSE callFor
    /\ deadline' = IF deadline >= 0 THEN deadline - 1 ELSE deadline
    /\ UNCHANGED <<io, call, target, hung, rc, running, wd>>

IoNext ==
    \/ LoopGivesUp \/ ArmWatchdogDeadline \/ StartTransfer
    \/ TransferTimesOut \/ CallEnds \/ CallProceeds \/ CallLoops

WdNext == LooksAtDeadline \/ Signal

Next ==
    \/ Open \/ StopWatchdog \/ Join \/ StartTx \/ TransferFails \/ TransferDone
    \/ IoNext \/ WdNext \/ Tick

(* Both threads are scheduled, time passes, and a transfer that honours    *)
(* its timeout returns.  No report ever needs to arrive.                   *)
Spec == Init /\ [][Next]_vars /\ WF_vars(IoNext) /\ WF_vars(WdNext) /\ WF_vars(Tick)

---------------------------------------------------------------------------
(* Properties.                                                             *)

(* A transfer that hangs is interrupted: the signal that a race wasted is  *)
(* sent again.                                                             *)
TransferEnds == io = "reading" ~> io # "reading"

(* ModbusRx() returns within its timeout, the grace period, a poll of the  *)
(* watchdog and the unit by which the deadline must be exceeded, even if   *)
(* the read hangs; and no call computes the time left for a transfer to be *)
(* below zero, which as an unsigned number would be centuries.             *)
RxBound == MODBUS_RESPONSE_TIMEOUT + MODBUS_WATCHDOG_GRACE + MODBUS_WATCHDOG_POLL + 1
RxIsBounded == (call = "ModbusRx" => callFor <= RxBound) /\ left >= 0

(* No signal is sent to the I/O thread once Close() has returned.          *)
NoSignalAfterClose == io = "closed" => wd = "off"
=============================================================================
