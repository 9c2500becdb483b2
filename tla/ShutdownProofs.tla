--------------------------- MODULE ShutdownProofs ---------------------------
(***************************************************************************)
(* The handshake of apcupsd_terminate() with do_device() keeps its promise *)
(* for every SHUTDOWN_WAIT and MaxCall it was made for: once the loop was  *)
(* entered and as long as calls of the driver end within the wait.         *)
(***************************************************************************)
EXTENDS Shutdown, TLAPS

Places == Startup \cup Looping \cup Ending \cup {"leaving", "sigwait", "signalled"}
Types ==
    /\ pc \in [Threads -> Places]
    /\ requested \in BOOLEAN /\ stopped \in BOOLEAN
    /\ storeOf \subseteq Threads
    /\ waited \in [Threads -> Nat]
    /\ busy \in Nat

(* What the handshake is made for (apcupsd.c:71, device.c:232).            *)
HandshakeFits == SignalAt \subseteq {"cycle"} /\ MaxCall < SHUTDOWN_WAIT

(* The thread that terminates has not begun to close the driver.           *)
Waiting == pc["term"] \in {"sigwait", "signalled", "wait"}

(* device_thread_stopped is clear, and seen to be, in every cycle, and at  *)
(* all times in the loop once there was a signal.                          *)
ClearInLoop ==
    /\ pc["main"] \in Startup => pc["term"] = "sigwait"
    /\ pc["main"] = "cycle" => "main" \notin storeOf
    /\ pc["main"] \in {"loop", "entering"} /\ "main" \in storeOf => pc["term"] = "sigwait"
    /\ pc["main"] \in Looping /\ "main" \notin storeOf => ~stopped

(* Time that was waited was waited after the request was seen, and in a    *)
(* cycle the driver's call took it all.                                    *)
WaitIsSeen ==
    /\ pc["term"] \notin {"sigwait", "signalled"} => requested \/ "term" \in storeOf
    /\ waited["term"] > 0 => requested
    /\ pc["main"] = "entering" => waited["term"] = 0
    /\ pc["main"] = "cycle" => waited["term"] <= busy \/ busy > MaxCall

(* The object lives until the wait is over, which is late in the loop.     *)
CommLives ==
    /\ pc["main"] \in {"setup"} \cup Looping /\ Waiting => comm = "live"
    /\ pc["main"] \in Looping /\ ~Waiting => waited["term"] >= SHUTDOWN_WAIT

ShutdownInv == Types /\ ClearInLoop /\ WaitIsSeen /\ CommLives

LEMMA ShutdownStart == Init => ShutdownInv
<1> SUFFICES ASSUME Init PROVE ShutdownInv
  OBVIOUS
<1>1. requested \in BOOLEAN /\ stopped \in BOOLEAN
  BY Zenon DEF Init
<1> QED BY <1>1 DEF Init, ShutdownInv, Types, ClearInLoop, WaitIsSeen, CommLives, Waiting,
           Threads, Places, Startup, Looping, Ending

LEMMA ShutdownStep ==
    ASSUME HandshakeFits, ShutdownInv, [Next]_vars
    PROVE  ShutdownInv'
<1> USE ShutdownAssumption DEF HandshakeFits, ShutdownInv, Types, ClearInLoop, WaitIsSeen,
        CommLives, Waiting, Threads, Places, Startup, Looping, Ending
<1>1. CASE UNCHANGED vars
  BY <1>1 DEF vars
<1>2. CASE OpenUps
  BY <1>2 DEF OpenUps, Goto, flags
<1>3. CASE EnterLoop
  BY <1>3 DEF EnterLoop, Goto, device
<1>4. CASE StartCycle
  BY <1>4 DEF StartCycle, SeesRequest, Goto, flags, device
<1>5. CASE LockUps
  BY <1>5 DEF LockUps, Goto, flags, device
<1>6. CASE EndCycle
  BY <1>6 DEF EndCycle, Goto, flags, device
<1>7. CASE Stop
  BY <1>7 DEF Stop, Goto, device
<1>8. CASE SendsigTerminate
  BY <1>8 DEF SendsigTerminate, flags, device
<1>9. CASE Leave
  BY <1>9 DEF Leave, flags, device
<1>10. CASE Signal
  BY <1>10 DEF Signal, Goto, flags, device
<1>11. CASE Request
  BY <1>11 DEF Request, Goto, device
<1>12. CASE Tick
  BY <1>12 DEF Tick, flags, device, WaitOver
<1>13. ASSUME NEW t \in Threads, Visible(t) PROVE ShutdownInv'
  BY <1>13 DEF Visible, device
<1>14. ASSUME NEW t \in Threads, EndWait(t) PROVE ShutdownInv'
  BY <1>14 DEF EndWait, WaitOver, Goto, flags, device
<1>15. ASSUME NEW t \in Threads, CloseTests(t) PROVE ShutdownInv'
  BY <1>15 DEF CloseTests, Goto, flags, device
<1>16. ASSUME NEW t \in Threads, CloseDeletes(t) PROVE ShutdownInv'
  BY <1>16 DEF CloseDeletes, Goto, flags
<1>17. ASSUME NEW t \in Threads, CloseClears(t) PROVE ShutdownInv'
  BY <1>17 DEF CloseClears, Goto, flags
<1>18. ASSUME NEW t \in Threads, UnlinkFiles(t) PROVE ShutdownInv'
  BY <1>18 DEF UnlinkFiles, Goto, flags, device
<1>19. ASSUME NEW t \in Threads, Exit(t) PROVE ShutdownInv'
  BY <1>19 DEF Exit, flags, device
<1> QED BY <1>1, <1>2, <1>3, <1>4, <1>5, <1>6, <1>7, <1>8, <1>9, <1>10, <1>11, <1>12, <1>13,
           <1>14, <1>15, <1>16, <1>17, <1>18, <1>19 DEF Next, Terminate

(* While do_device() is in a cycle the comm object is not deleted, unless  *)
(* a call of the driver took longer than MaxCall: the flags may be seen    *)
(* late, and SIGTERM or sendsig_terminate() may come at any point of any   *)
(* cycle.                                                                  *)
THEOREM LoopAlwaysKeepsComm ==
    ASSUME HandshakeFits
    PROVE  Spec => []LoopKeepsComm
<1>1. ShutdownInv => LoopKeepsComm
  BY ShutdownAssumption DEF HandshakeFits, ShutdownInv, Types, WaitIsSeen, CommLives,
     LoopKeepsComm, Looping, Threads
<1> QED BY <1>1, ShutdownStart, ShutdownStep, PTL DEF Spec
=============================================================================
