------------------------------ MODULE Shutdown ------------------------------
(***************************************************************************)
(* How apcupsd ends: the handshake of src/apcupsd.c between the thread     *)
(* that waits for SIGTERM (src/lib/apcsignal.c) and the main thread, which *)
(* runs do_device() of src/device.c.  Either thread may come to run        *)
(* apcupsd_terminate(): the first when it gets the signal, the second when *)
(* do_device() returns.                                                    *)
(*                                                                         *)
(* The flags are volatile, not atomic: a store becomes visible to the      *)
(* other thread some time after it was made (storeOf), and a thread may    *)
(* read the other flag in between.                                         *)
(***************************************************************************)
EXTENDS Integers

CONSTANTS
    SHUTDOWN_WAIT,          \* how long the handshake waits
    MaxCall,                \* how long a call of the driver takes at most,
    MayWedge,               \* unless it may never end
    SignalAt,               \* where the main thread may be when SIGTERM comes
    terminate_on_powerfail  \* --term-on-powerfail

Startup == {"options", "setup"}
Looping == {"loop", "entering", "cycle"}
Ending == {"wait", "close", "delete", "clear", "unlink", "exit"}

ASSUME ShutdownAssumption ==
    /\ SHUTDOWN_WAIT \in Nat /\ MaxCall \in Nat
    /\ {MayWedge, terminate_on_powerfail} \subseteq BOOLEAN
    /\ SignalAt \subseteq Startup \cup Looping

VARIABLES
    pc,         \* where each thread is
    requested,  \* shutdown_requested, as the main thread sees it
    stopped,    \* device_thread_stopped, as the other thread sees it
    storeOf,    \* the threads whose last store is not visible yet
    waited,     \* how long each thread has waited for the handshake
    busy,       \* how long the call of the driver in progress has taken
    commPtr,    \* whether the driver's _comm is set
    comm,       \* the object: "none", "live", "freed"
    files,      \* the lock file and the pid file
    alive       \* the process

vars == <<pc, requested, stopped, storeOf, waited, busy, commPtr, comm, files, alive>>
flags == <<requested, stopped, storeOf>>
device == <<commPtr, comm>>

Threads == {"main", "term"}
Goto(t, l) == pc' = [pc EXCEPT ![t] = l]

Init ==
    /\ pc = [t \in Threads |-> IF t = "main" THEN "options" ELSE "sigwait"]
    /\ requested = FALSE
    /\ stopped = TRUE
    /\ storeOf = {}
    /\ waited = [t \in Threads |-> 0]
    /\ busy = 0
    /\ commPtr = FALSE
    /\ comm = "none"
    /\ files = {"lock", "pid"}
    /\ alive = TRUE

---------------------------------------------------------------------------
(* The main thread: do_device().                                           *)

(* device_open() of open_ups() succeeds; the rest of the setup and the     *)
(* first fillUPS() follow.                                                 *)
OpenUps ==
    /\ alive /\ pc["main"] = "options"
    /\ commPtr' = TRUE /\ comm' = "live"
    /\ Goto("main", "setup")
    /\ UNCHANGED <<flags, waited, busy, files, alive>>

(* device_thread_stopped = 0, and into the loop.                           *)
EnterLoop ==
    /\ alive /\ pc["main"] = "setup"
    /\ storeOf' = storeOf \cup {"main"}
    /\ Goto("main", "loop")
    /\ UNCHANGED <<requested, stopped, waited, busy, device, files, alive>>

SeesRequest == requested

(* No request: another cycle.  do_action() takes the UPS lock first, which *)
(* makes the store visible; then fillUPS, do_action, check_state.          *)
StartCycle ==
    /\ alive /\ pc["main"] = "loop"
    /\ ~SeesRequest
    /\ Goto("main", "entering")
    /\ UNCHANGED <<flags, waited, busy, device, files, alive>>

LockUps ==
    /\ alive /\ pc["main"] = "entering"
    /\ "main" \notin storeOf
    /\ busy' = 0
    /\ Goto("main", "cycle")
    /\ UNCHANGED <<flags, waited, device, files, alive>>

EndCycle ==
    /\ alive /\ pc["main"] = "cycle"
    /\ Goto("main", "loop")
    /\ UNCHANGED <<flags, waited, busy, device, files, alive>>

(* device_thread_stopped = 1; do_device() returns and main() calls         *)
(* apcupsd_terminate(0).                                                   *)
Stop ==
    /\ alive /\ pc["main"] = "loop"
    /\ SeesRequest
    /\ "main" \notin storeOf
    /\ stopped' = TRUE
    /\ Goto("main", "wait")
    /\ UNCHANGED <<requested, storeOf, waited, busy, device, files, alive>>

(* powerfail(): sendsig_terminate() sends SIGTERM and calls exit().        *)
SendsigTerminate ==
    /\ alive /\ pc["main"] = "cycle"
    /\ terminate_on_powerfail
    /\ pc' = [main |-> "leaving",
              term |-> IF pc["term"] = "sigwait" THEN "signalled" ELSE pc["term"]]
    /\ UNCHANGED <<flags, waited, busy, device, files, alive>>

Leave ==
    /\ alive /\ pc["main"] = "leaving"
    /\ alive' = FALSE
    /\ UNCHANGED <<pc, flags, waited, busy, device, files>>

---------------------------------------------------------------------------
(* apcupsd_terminate().                                                    *)

Signal ==
    /\ alive /\ pc["term"] = "sigwait"
    /\ pc["main"] \in SignalAt
    /\ Goto("term", "signalled")
    /\ UNCHANGED <<flags, waited, busy, device, files, alive>>

(* shutdown_requested = 1.                                                 *)
Request ==
    /\ alive /\ pc["term"] = "signalled"
    /\ storeOf' = storeOf \cup {"term"}
    /\ Goto("term", "wait")
    /\ UNCHANGED <<requested, stopped, waited, busy, device, files, alive>>

(* A store of thread t becomes visible to the other one.                   *)
Visible(t) ==
    /\ alive /\ t \in storeOf
    /\ storeOf' = storeOf \ {t}
    /\ IF t = "main" THEN stopped' = FALSE /\ UNCHANGED requested
       ELSE requested' = TRUE /\ UNCHANGED stopped
    /\ UNCHANGED <<pc, waited, busy, device, files, alive>>

WaitOver_always(t) == TRUE
WaitOver_unbounded(t) == stopped
WaitOver(t) == stopped \/ waited[t] >= SHUTDOWN_WAIT

(* The wait is over: clean_threads(), clear_files(), device_close().       *)
EndWait(t) ==
    /\ alive /\ pc[t] = "wait"
    /\ WaitOver(t)
    /\ Goto(t, "close")
    /\ UNCHANGED <<flags, waited, busy, device, files, alive>>

(* ModbusUpsDriver::Close(): test _comm, close and delete it, clear it.    *)
CloseTests(t) ==
    /\ alive /\ pc[t] = "close"
    /\ Goto(t, IF commPtr THEN "delete" ELSE "unlink")
    /\ UNCHANGED <<flags, waited, busy, device, files, alive>>

CloseDeletes(t) ==
    /\ alive /\ pc[t] = "delete"
    /\ comm' = "freed"
    /\ Goto(t, "clear")
    /\ UNCHANGED <<flags, waited, busy, commPtr, files, alive>>

CloseClears(t) ==
    /\ alive /\ pc[t] = "clear"
    /\ commPtr' = FALSE
    /\ Goto(t, "unlink")
    /\ UNCHANGED <<flags, waited, busy, comm, files, alive>>

(* delete_lockfile() and unlink(pidfile).                                  *)
UnlinkFiles(t) ==
    /\ alive /\ pc[t] = "unlink"
    /\ files' = {}
    /\ Goto(t, "exit")
    /\ UNCHANGED <<flags, waited, busy, device, alive>>

Exit(t) ==
    /\ alive /\ pc[t] = "exit"
    /\ alive' = FALSE
    /\ UNCHANGED <<pc, flags, waited, busy, device, files>>

Terminate(t) ==
    \/ EndWait(t) \/ CloseTests(t) \/ CloseDeletes(t) \/ CloseClears(t)
    \/ UnlinkFiles(t) \/ Exit(t)

(* Time passes while a thread waits for the handshake; the driver's call   *)
(* takes at most MaxCall, unless it is wedged; a store is visible, and the *)
(* head of the loop passed, by then.                                       *)
Tick ==
    /\ alive
    /\ pc["main"] \notin {"loop", "entering"}
    /\ \E t \in Threads : pc[t] = "wait" /\ ~WaitOver(t)
    /\ pc["main"] = "cycle" /\ busy >= MaxCall => MayWedge
    /\ storeOf = {}
    /\ waited' = [t \in Threads |->
                    IF pc[t] = "wait" /\ waited[t] < SHUTDOWN_WAIT THEN waited[t] + 1
                    ELSE waited[t]]
    /\ busy' = IF pc["main"] = "cycle" /\ busy <= MaxCall THEN busy + 1 ELSE busy
    /\ UNCHANGED <<pc, flags, device, files, alive>>

Next ==
    \/ OpenUps \/ EnterLoop \/ StartCycle \/ LockUps \/ EndCycle \/ Stop
    \/ SendsigTerminate \/ Leave \/ Signal \/ Request \/ Tick
    \/ \E t \in Threads : Visible(t) \/ Terminate(t)

(* Both threads are scheduled and time passes; a call of the driver need   *)
(* not end (no fairness on EndCycle).                                      *)
Fairness ==
    /\ WF_vars(Tick)
    /\ \A t \in Threads : WF_vars(Terminate(t)) /\ WF_vars(Visible(t))
    /\ WF_vars(Request) /\ WF_vars(LockUps) /\ WF_vars(Stop) /\ WF_vars(Leave)

Spec == Init /\ [][Next]_vars /\ Fairness

---------------------------------------------------------------------------
(* Properties.                                                             *)

(* Threads that are using the comm object.                                 *)
UsesComm(t) == pc[t] \in {"setup", "cycle", "delete"}

(* The loop of do_device() never uses the comm object once it was deleted: *)
(* while the main thread is in a cycle, apcupsd_terminate() is not past    *)
(* its wait, unless a call of the driver takes longer than MaxCall.        *)
LoopKeepsComm ==
    alive /\ pc["main"] = "cycle" => comm = "live" \/ busy > MaxCall

(* Once SIGTERM was received the process ends, even if the main thread is  *)
(* wedged in a call of the driver.                                         *)
TerminationEnds == pc["term"] = "signalled" ~> ~alive

(* The claim of the handshake (include/extern.h, apcupsd.c): the comm      *)
(* object is not deleted while do_device() may be using it, nor twice.     *)
NeverUsesFreed == alive => \A t \in Threads : UsesComm(t) => comm = "live"
=============================================================================
