---------------------------- MODULE DeviceProofs ----------------------------
(***************************************************************************)
(* Proofs about the device loop, for every configuration, every set of     *)
(* readings and every duration of a read.                                  *)
(***************************************************************************)
EXTENDS DeviceHistory, TLAPS

USE DEF StatusBits, DriverBits, LocalBits

(* Setting a field to the current time keeps ages within their cap.        *)
LEMMA StampedType ==
    ASSUME NEW a \in [Timers -> 0..AgeCap], NEW S
    PROVE  Stamped(a, S) \in [Timers -> 0..AgeCap]
  BY ConfigAssumption DEF Stamped

(* So does the passage of time.                                            *)
LEMMA AgedType ==
    ASSUME age \in [Timers -> 0..AgeCap], NEW d \in Nat
    PROVE  Aged(d) \in [Timers -> 0..AgeCap]
  BY ConfigAssumption DEF Aged, Capped

(* do_shutdown() keeps the types.                                          *)
LEMMA DoShutdownType ==
    ASSUME ActionTypeOK, NEW st \in SUBSET StatusBits, NEW evs \in SUBSET Events,
           NEW a \in [Timers -> 0..AgeCap], DoShutdown(st, evs, a)
    PROVE  /\ Status' \in SUBSET StatusBits
           /\ events' \in SUBSET Events
           /\ age' \in [Timers -> 0..AgeCap]
           /\ pc' \in PcValues
           /\ disk' \in SUBSET {"nologin", "pwrfail", "lock"}
           /\ nologin_file' \in BOOLEAN
<1>0. Return(pc) \in PcValues /\ "exited" \in PcValues
  BY DEF Return, PcValues
<1>1. CASE AlreadyDown(st)
  BY <1>0, <1>1 DEF DoShutdown, ActionTypeOK
<1>2. CASE ~AlreadyDown(st)
  <2>1. PICK written \in FileWrites, made \in FileWrites :
           /\ Status' = st \cup ShutdownBits
           /\ age' = Stamped(a, {"ShutDown"})
           /\ disk' = ProhibitLogins((disk \ {"lock"})
                          \cup (IF written THEN {"pwrfail"} ELSE {}), made)
           /\ nologin_file' = TRUE
           /\ \/ events' = evs
              \/ events' = evs \cup HibernateEvents \cup {"DOSHUTDOWN"}
              \/ events' = evs \cup {} \cup {"DOSHUTDOWN"}
           /\ pc' \in {"exited", Return(pc)}
    BY <1>2 DEF DoShutdown
  <2>2. age' \in [Timers -> 0..AgeCap]
    BY <2>1, StampedType
  <2>3. events' \in SUBSET Events
    BY <2>1 DEF Events, HibernateEvents
  <2>4. Status' \in SUBSET StatusBits
    BY <2>1 DEF ShutdownBits
  <2>5. disk' \in SUBSET {"nologin", "pwrfail", "lock"}
    BY <2>1 DEF ActionTypeOK, ProhibitLogins
  <2> QED BY <1>0, <2>1, <2>2, <2>3, <2>4, <2>5
<1> QED BY <1>1, <1>2

(* Enter and EnterRemote keep the types: at most one alarm is counted      *)
(* beyond ChangemeMax before the counter is reset.                         *)
LEMMA EnterType ==
    ASSUME ActionTypeOK, Enter \/ EnterRemote
    PROVE  ActionTypeOK'
<1> USE DEF ActionTypeOK
<1>1. /\ EnterCommon
      /\ EnterStatus \in SUBSET StatusBits
      /\ EnterPrev \in SUBSET StatusBits
      /\ EnterEvents \in SUBSET Events
      /\ BattEvents \in SUBSET Events
      /\ EnterAges \in [Timers -> 0..AgeCap]
  BY StampedType DEF Enter, EnterRemote, EnterStatus, EnterPrev, EnterEvents,
     BattEvents, EnterAges, Events
<1>2. /\ first' \in BOOLEAN /\ BattChg' \in Int /\ TimeLeft' \in Int
      /\ inSelfTest' \in BOOLEAN /\ onbattSeen' \in BOOLEAN
      /\ cum_time_on_batt' \in 0..CumCap
  BY <1>1 DEF EnterCommon, accounting
<1>3. ChangeBattCounter' \in 0..(ChangemeMax + 1)
  <2>1. CASE ReplaceSilenced
    BY <1>1, <2>1, ConfigAssumption DEF EnterCommon, ReplaceAlarm
  <2>2. CASE ~ReplaceSilenced /\ ReplaceAlarm
    <3>1. ChangeBattCounter' = ChangeBattCounter + 1
      BY <1>1, <2>2 DEF EnterCommon
    <3>2. ChangeBattCounter <= ChangemeMax
      BY <2>2, ConfigAssumption DEF ReplaceSilenced, ReplaceAlarm
    <3> QED BY <3>1, <3>2, ConfigAssumption
  <2>3. CASE ~ReplaceSilenced /\ ~ReplaceAlarm
    BY <1>1, <2>3 DEF EnterCommon
  <2> QED BY <2>1, <2>2, <2>3
<1>4. CASE Enter
  <2>1. age' \in [Timers -> 0..AgeCap]
    BY <1>1, <1>4, StampedType DEF Enter
  <2>2. pc' \in PcValues
    BY <1>4 DEF Enter, PcValues
  <2> QED BY <1>1, <1>2, <1>3, <1>4, <2>1, <2>2 DEF Enter
<1>5. CASE EnterRemote
  <2>1. CASE "shut_remote" \in EnterPrev
    BY <1>1, <1>2, <1>3, <1>5, <2>1 DEF EnterRemote, Return, PcValues
  <2>2. CASE "shut_remote" \notin EnterPrev
    <3>1. DoShutdown(EnterStatus, EnterEvents \cup {"REMOTEDOWN"}, EnterAges)
      BY <1>5, <2>2 DEF EnterRemote
    <3>2. EnterEvents \cup {"REMOTEDOWN"} \in SUBSET Events
      BY <1>1 DEF Events
    <3> QED BY <1>1, <1>2, <1>3, <1>5, <3>1, <3>2, DoShutdownType DEF EnterRemote
  <2> QED BY <2>1, <2>2
<1> QED BY <1>4, <1>5

(* The limits of st_OnBattery have their types.                            *)
LEMMA LimitType ==
    ASSUME ActionTypeOK
    PROVE  /\ LimitStatus \in SUBSET StatusBits
           /\ LimitAges \in [Timers -> 0..AgeCap]
  BY StampedType DEF ActionTypeOK, LimitStatus, LimitAges

(* What DEVICE_CMD_CHECK_SELFTEST may do to the status word.               *)
LEMMA RefreshedBits ==
    ASSUME CheckSelfTest, Status \in SUBSET StatusBits
    PROVE  \E st \in SUBSET StatusBits, test \in BOOLEAN :
             /\ PowerFailure(st, test)
             /\ "battlow" \in st <=> "battlow" \in Status
             /\ "shut_remote" \in st <=> "shut_remote" \in Status
             /\ "shutdown" \in st <=> "shutdown" \in Status
<1>1. PICK gone \in SUBSET {"onbatt"}, again \in SUBSET {"replacebatt"}, test \in BOOLEAN :
           PowerFailure(Refreshed(gone, again), test)
  BY DEF CheckSelfTest
<1>2. /\ Refreshed(gone, again) \in SUBSET StatusBits
      /\ "battlow" \in Refreshed(gone, again) <=> "battlow" \in Status
      /\ "shut_remote" \in Refreshed(gone, again) <=> "shut_remote" \in Status
      /\ "shutdown" \in Refreshed(gone, again) <=> "shutdown" \in Status
  BY DEF Refreshed
<1> QED BY <1>1, <1>2

(* Every case of the switch of do_action() keeps the types.                *)
LEMMA CaseType ==
    ASSUME ActionTypeOK,
           \/ OnMains \/ CheckSelfTest \/ SelfTestRuns \/ MainsBack \/ Calibration
           \/ OnBatteryAnnounce \/ OnBatteryShuttingDown \/ OnBatteryTimeout
           \/ OnBatteryLimit \/ OnBatteryWait
    PROVE  ActionTypeOK'
<1> USE DEF ActionTypeOK, accounting
<1>0. Return(pc) \in PcValues /\ "exited" \in PcValues
  BY DEF Return, PcValues
<1>1. CASE OnMains
  BY <1>0, <1>1, StampedType DEF OnMains, InCase, Leave
<1>2. CASE CheckSelfTest
  <2>1. PICK st \in SUBSET StatusBits, test \in BOOLEAN : PowerFailure(st, test)
    BY <1>2, RefreshedBits
  <2>2. age' \in [Timers -> 0..AgeCap]
    BY <2>1, StampedType DEF PowerFailure
  <2>3. events' \in SUBSET Events
    BY <2>1 DEF PowerFailure, Events
  <2>4. Status' \in SUBSET StatusBits
    BY <2>1 DEF PowerFailure
  <2>5. inSelfTest' \in BOOLEAN
    BY <2>1 DEF PowerFailure
  <2> QED BY <1>0, <1>2, <2>1, <2>2, <2>3, <2>4, <2>5
          DEF PowerFailure, InCase, Leave, CheckSelfTest
<1>3. CASE SelfTestRuns
  BY <1>0, <1>3 DEF SelfTestRuns, InCase, Leave
<1>4. CASE MainsBack
  <2>1. age' \in [Timers -> 0..AgeCap]
    BY <1>4, StampedType DEF MainsBack
  <2>2. age["last_onbatt_time"] \in Nat
    BY ConfigAssumption DEF Timers
  <2>3. cum_time_on_batt' \in 0..CumCap
    BY <1>4, <2>2, ConfigAssumption DEF MainsBack, CumCapped
  <2>4. events' \in SUBSET Events
    BY <1>4 DEF MainsBack, Events
  <2>5. disk' \in SUBSET {"nologin", "pwrfail", "lock"} /\ nologin_file' \in BOOLEAN
    BY <1>4 DEF MainsBack, AllowLogins
  <2> QED BY <1>0, <1>4, <2>1, <2>3, <2>4, <2>5 DEF MainsBack, InCase, Leave
<1>5. CASE Calibration
  BY <1>0, <1>5 DEF Calibration, InCase, Leave
<1>6. ASSUME InBattery
      PROVE  /\ first' \in BOOLEAN /\ BattChg' \in Int /\ TimeLeft' \in Int
             /\ inSelfTest' \in BOOLEAN /\ onbattSeen' \in BOOLEAN
             /\ cum_time_on_batt' \in 0..CumCap
             /\ ChangeBattCounter' \in 0..(ChangemeMax + 1)
  BY <1>6 DEF InBattery, InCase
<1>7. CASE OnBatteryAnnounce
  <2>1. age' \in [Timers -> 0..AgeCap]
    BY <1>7, StampedType DEF OnBatteryAnnounce
  <2>2. events' \in SUBSET Events
    BY <1>7 DEF OnBatteryAnnounce, Events
  <2> QED BY <1>0, <1>6, <1>7, <2>1, <2>2 DEF OnBatteryAnnounce, Leave
<1>8. CASE OnBatteryShuttingDown
  <2>1. age' \in [Timers -> 0..AgeCap]
    BY <1>8, StampedType DEF OnBatteryShuttingDown
  <2>2. events' \in SUBSET Events
    BY <1>8 DEF OnBatteryShuttingDown, Events, HibernateEvents
  <2> QED BY <1>0, <1>6, <1>8, <2>1, <2>2 DEF OnBatteryShuttingDown
<1>9. CASE OnBatteryTimeout
  <2>1. DoShutdown(Status \cup {"shut_btime"}, events \cup {"TIMEOUT"}, age)
    BY <1>9 DEF OnBatteryTimeout
  <2>2. events \cup {"TIMEOUT"} \in SUBSET Events
    BY DEF Events
  <2>3. Status \cup {"shut_btime"} \in SUBSET StatusBits
    OBVIOUS
  <2> QED BY <1>6, <1>9, <2>1, <2>2, <2>3, DoShutdownType DEF OnBatteryTimeout
<1>10. CASE OnBatteryLimit
  <2>1. DoShutdown(LimitStatus, events \cup {ExpiredLimit}, LimitAges)
    BY <1>10 DEF OnBatteryLimit
  <2>2. events \cup {ExpiredLimit} \in SUBSET Events
    BY <1>10 DEF Events, ExpiredLimit, OnBatteryLimit
  <2> QED BY <1>6, <1>10, <2>1, <2>2, DoShutdownType, LimitType DEF OnBatteryLimit
<1>11. CASE OnBatteryWait
  <2>1. age' \in [Timers -> 0..AgeCap]
    BY <1>11, StampedType, LimitType DEF OnBatteryWait
  <2>2. events' \in SUBSET Events
    BY <1>11 DEF OnBatteryWait, Events
  <2>3. nologin_file' \in BOOLEAN
    BY <1>11 DEF OnBatteryWait
  <2>4. disk' \in SUBSET {"nologin", "pwrfail", "lock"}
    BY <1>11 DEF OnBatteryWait, ProhibitLogins
  <2> QED BY <1>0, <1>6, <1>11, <2>1, <2>2, <2>3, <2>4, LimitType DEF OnBatteryWait, Leave
<1> QED BY <1>1, <1>2, <1>3, <1>4, <1>5, <1>7, <1>8, <1>9, <1>10, <1>11

(* The history keeps its types.                                            *)
LEMMA ObserveType ==
    ASSUME TypeOK, NEW d \in Nat, Observe(d)
    PROVE  /\ lowFor' \in 0..HistCap
           /\ heldFor' \in [Watched -> 0..HistCap]
           /\ sinceShut' \in 0..HistCap
           /\ battKnown' \in BOOLEAN
<1> USE DEF TypeOK, Observe
<1>1. /\ \A n \in Nat : HistCapped(n) \in 0..HistCap
      /\ 0 \in 0..HistCap
  BY HistoryAssumption DEF HistCapped
<1>2. lowFor + d \in Nat /\ sinceShut + d \in Nat
  BY HistoryAssumption
<1>3. \A c \in Watched : heldFor[c] + d \in Nat
  BY HistoryAssumption
<1>4. heldFor' \in [Watched -> 0..HistCap]
  BY <1>1, <1>3
<1>5. lowFor' \in 0..HistCap /\ sinceShut' \in 0..HistCap
  BY <1>1, <1>2
<1> QED BY <1>4, <1>5

(* Type correctness of the daemon with its history.                        *)
THEOREM TypeCorrect == HistSpec => []TypeOK
<1>1. HistInit => TypeOK
  <2> SUFFICES ASSUME HistInit PROVE TypeOK
    OBVIOUS
  <2>1. /\ Status \in SUBSET StatusBits /\ BattChg \in Int /\ TimeLeft \in Int
    BY LoopAssumption DEF HistInit, Init, ReadingType
  <2>2. age \in [Timers -> 0..AgeCap]
    BY ConfigAssumption DEF HistInit, Init
  <2>3. heldFor \in [Watched -> 0..HistCap]
    BY HistoryAssumption DEF HistInit
  <2>4. disk \in SUBSET {"nologin", "pwrfail", "lock"}
    BY DEF HistInit, Init
  <2>5. 0 \in 0..(ChangemeMax + 1) /\ 0 \in 0..CumCap /\ {0, HistCap} \subseteq 0..HistCap
    BY ConfigAssumption, HistoryAssumption
  <2>6. events \in SUBSET Events /\ PrevStatus \in SUBSET StatusBits /\ pc \in PcValues
    BY DEF HistInit, Init, PcValues
  <2> QED BY <2>1, <2>2, <2>3, <2>4, <2>5, <2>6 DEF HistInit, Init, TypeOK, ActionTypeOK
<1>2. TypeOK /\ [HistNext]_histVars => TypeOK'
  <2> SUFFICES ASSUME TypeOK, [HistNext]_histVars PROVE TypeOK'
    OBVIOUS
  <2> USE DEF TypeOK
  <2>0. ReadSecs \subseteq Nat
    BY LoopAssumption
  <2>1. CASE do_action /\ Observe(0)
    BY <2>1, EnterType, CaseType, ObserveType DEF do_action
  <2>2. CASE StartCheck /\ Observe(0)
    <3>1. wait_left' \in Nat
      BY <2>2, LoopAssumption DEF StartCheck, device_wait_time, AtMost, TIMER_FAST
    <3> QED BY <2>2, <3>1, ObserveType DEF StartCheck, ActionTypeOK, PcValues, accounting
  <2>3. CASE CheckTimeout /\ Observe(0)
    BY <2>3, ObserveType DEF CheckTimeout, ActionTypeOK, PcValues, accounting, pollFrame
  <2>4. ASSUME NEW d \in ReadSecs, fillUPS(d), Observe(d) PROVE TypeOK'
    <3>1. Status' \in SUBSET StatusBits /\ BattChg' \in Int /\ TimeLeft' \in Int
      BY <2>4, LoopAssumption DEF fillUPS, FillStatus, FillMeasurements, ReadingType,
         ActionTypeOK
    <3>2. age' \in [Timers -> 0..AgeCap]
      BY <2>0, <2>4, AgedType DEF fillUPS, ActionTypeOK
    <3> QED BY <2>0, <2>4, <3>1, <3>2, ObserveType
            DEF fillUPS, ActionTypeOK, PcValues, accounting
  <2>5. ASSUME NEW d \in ReadSecs, CheckChanged(d), Observe(d) PROVE TypeOK'
    <3>1. age' \in [Timers -> 0..AgeCap]
      BY <2>0, <2>5, AgedType DEF CheckChanged, ActionTypeOK
    <3>2. Status' \in SUBSET StatusBits
      BY <2>5 DEF CheckChanged, ActionTypeOK, Answered
    <3> QED BY <2>0, <2>5, <3>1, <3>2, ObserveType
            DEF CheckChanged, ActionTypeOK, PcValues, accounting, pollFrame
  <2>6. ASSUME NEW d \in ReadSecs, CheckSame(d), Observe(d + 1) PROVE TypeOK'
    <3>0. d \in Nat /\ d + 1 \in Nat
      BY <2>0
    <3>1. age' \in [Timers -> 0..AgeCap]
      BY <3>0, <2>6, AgedType DEF CheckSame, ActionTypeOK
    <3>2. wait_left' \in Nat
      BY <3>0, <2>6 DEF CheckSame, Minus
    <3>3. Status' \in SUBSET StatusBits
      BY <2>6 DEF CheckSame, ActionTypeOK, Answered
    <3> QED BY <2>6, <3>0, <3>1, <3>2, <3>3, ObserveType
            DEF CheckSame, ActionTypeOK, PcValues, accounting, pollFrame
  <2>7. CASE UNCHANGED histVars
    BY <2>7 DEF histVars, loopVars, actionVars, history, ActionTypeOK
  <2> QED BY <2>1, <2>2, <2>3, <2>4, <2>5, <2>6, <2>7 DEF HistNext
<1> QED BY <1>1, <1>2, PTL DEF HistSpec

(***************************************************************************)
(* Debouncing of LOWBATT.  While no shutdown is under way, do_action() has *)
(* seen every change of the battlow bit, so that the low-battery timer is  *)
(* never older than the signal:                                            *)
(*  - a pass that got as far as the switch stamped the timer if the bit    *)
(*    had gone up since the last pass;                                     *)
(*  - the bit only changes between "fill" and "enter2";                    *)
(*  - a pass that returned early, for a remote shutdown, set the shutdown  *)
(*    bit, and with that bit set FAILING is never generated.               *)
(***************************************************************************)
TimerFresh == age["start_shut_lbatt"] <= lowFor \/ lowFor >= ShutTimer

(* The bit battlow as of the last pass, and whether it has gone down since.*)
DebounceInv ==
    "shutdown" \notin Status =>
      /\ pc \in {"case1", "case2"} => "shut_remote" \notin Status /\ ~first
      /\ (pc \in {"case1", "case2"} /\ "battlow" \in Status) => TimerFresh
      /\ (pc \notin {"case1", "case2", "enter2"} /\ ~first) =>
            ("battlow" \in PrevStatus <=> "battlow" \in Status)
      /\ (pc \notin {"case1", "case2"} /\ ~first
          /\ "battlow" \in PrevStatus /\ "battlow" \in Status) => TimerFresh
      /\ ~first => "shut_remote" \notin PrevStatus
      /\ first => pc = "enter1"

(* What do_shutdown() leaves alone.                                        *)
LEMMA DoShutdownFrame ==
    ASSUME NEW st, NEW evs, NEW a, DoShutdown(st, evs, a)
    PROVE  /\ Status' = st \/ Status' = st \cup ShutdownBits
           /\ "shutdown" \in Status'
           /\ age' = a \/ age' = Stamped(a, {"ShutDown"})
           /\ pc' \in {"exited", Return(pc)}
<1>1. CASE AlreadyDown(st)
  BY <1>1 DEF DoShutdown, AlreadyDown
<1>2. CASE ~AlreadyDown(st)
  BY <1>2 DEF DoShutdown, ShutdownBits
<1> QED BY <1>1, <1>2

(* The events do_shutdown() adds to those already executed.                *)
LEMMA DoShutdownEvents ==
    ASSUME NEW st, NEW evs, NEW a, DoShutdown(st, evs, a)
    PROVE  events' \subseteq evs \cup {"KILLPOWER", "DOSHUTDOWN"}
<1>1. CASE AlreadyDown(st)
  BY <1>1 DEF DoShutdown
<1>2. CASE ~AlreadyDown(st)
  BY <1>2 DEF DoShutdown, HibernateEvents
<1> QED BY <1>1, <1>2

(* What the cases of the switch leave alone, and what they remember.       *)
LEMMA CaseFrame ==
    ASSUME TypeOK,
           \/ OnMains \/ CheckSelfTest \/ SelfTestRuns \/ MainsBack \/ Calibration
           \/ OnBatteryAnnounce \/ OnBatteryShuttingDown \/ OnBatteryTimeout
           \/ OnBatteryLimit \/ OnBatteryWait
    PROVE  /\ pc \in {"case1", "case2"}
           /\ pc' \in {"fill", "check", "exited"}
           /\ PrevStatus' = Status'
           /\ "battlow" \in Status' <=> "battlow" \in Status
           /\ "shut_remote" \in Status' <=> "shut_remote" \in Status
           /\ "shutdown" \in Status => "shutdown" \in Status'
           /\ age'["start_shut_lbatt"] = age["start_shut_lbatt"]
           /\ first' = first
<1> USE DEF TypeOK, ActionTypeOK, InCase, Leave, Return, Stamped, Timers, OnLineTimers
<1>1. CASE OnMains
  BY <1>1 DEF OnMains
<1>2. CASE CheckSelfTest
  <2>1. PICK st \in SUBSET StatusBits, test \in BOOLEAN :
           /\ PowerFailure(st, test)
           /\ "battlow" \in st <=> "battlow" \in Status
           /\ "shut_remote" \in st <=> "shut_remote" \in Status
           /\ "shutdown" \in st <=> "shutdown" \in Status
    BY <1>2, RefreshedBits
  <2> QED BY <2>1 DEF PowerFailure
<1>3. CASE SelfTestRuns
  BY <1>3 DEF SelfTestRuns
<1>4. CASE MainsBack
  BY <1>4 DEF MainsBack
<1>5. CASE Calibration
  BY <1>5 DEF Calibration
<1>6. CASE OnBatteryAnnounce
  BY <1>6 DEF OnBatteryAnnounce, InBattery
<1>7. CASE OnBatteryShuttingDown
  BY <1>7 DEF OnBatteryShuttingDown, InBattery
<1>8. CASE OnBatteryTimeout
  <2>1. DoShutdown(Status \cup {"shut_btime"}, events \cup {"TIMEOUT"}, age)
    BY <1>8 DEF OnBatteryTimeout
  <2> QED BY <1>8, <2>1, DoShutdownFrame DEF OnBatteryTimeout, InBattery, ShutdownBits
<1>9. LimitAges["start_shut_lbatt"] = age["start_shut_lbatt"]
  BY DEF LimitAges
<1>10. CASE OnBatteryLimit
  <2>1. DoShutdown(LimitStatus, events \cup {ExpiredLimit}, LimitAges)
    BY <1>10 DEF OnBatteryLimit
  <2>2. age'["start_shut_lbatt"] = age["start_shut_lbatt"]
    BY <1>9, <2>1, DoShutdownFrame
  <2> QED BY <1>10, <2>1, <2>2, DoShutdownFrame
          DEF OnBatteryLimit, InBattery, ShutdownBits, LimitStatus
<1>11. CASE OnBatteryWait
  BY <1>9, <1>11 DEF OnBatteryWait, InBattery, LimitStatus
<1> QED BY <1>1, <1>2, <1>3, <1>4, <1>5, <1>6, <1>7, <1>8, <1>10, <1>11

(* As time passes, the timer does not get older than the signal.           *)
LEMMA FreshKept ==
    ASSUME HistCap >= ShutTimer, TypeOK, TimerFresh, NEW d \in Nat,
           age' = Aged(d), lowFor' = HistCapped(lowFor + d)
    PROVE  TimerFresh'
<1>1. age'["start_shut_lbatt"] = Capped(age["start_shut_lbatt"] + d)
  BY DEF Aged, Timers
<1>2. age["start_shut_lbatt"] \in Nat /\ lowFor \in Nat
  BY ConfigAssumption, HistoryAssumption DEF TypeOK, ActionTypeOK, Timers
<1> QED BY <1>1, <1>2, ConfigAssumption, HistoryAssumption DEF TimerFresh, Capped, HistCapped

(* Nor does it when a step takes no time and leaves both alone.            *)
LEMMA FreshSame ==
    ASSUME TypeOK, TimerFresh, Observe(0), "battlow" \in Status, "battlow" \in Status',
           age'["start_shut_lbatt"] = age["start_shut_lbatt"]
    PROVE  TimerFresh'
<1>1. lowFor' = lowFor
  BY HistoryAssumption DEF Observe, HistCapped, TypeOK
<1> QED BY <1>1 DEF TimerFresh

(* Every step keeps the invariant: the switch of do_action() leaves the    *)
(* bit and its timer alone, a read changes the bit only before the next    *)
(* call, and a poll does not touch it.                                     *)
LEMMA DebounceStep ==
    ASSUME HistCap >= ShutTimer, TypeOK, DebounceInv, [HistNext]_histVars
    PROVE  DebounceInv'
<1> SUFFICES ASSUME "shutdown" \notin Status' PROVE DebounceInv'
  BY DEF DebounceInv
<1>0. ReadSecs \subseteq Nat
  BY LoopAssumption
<1>1. CASE Enter /\ Observe(0)
  <2>1. /\ pc \in {"enter1", "enter2"} /\ pc' \in {"case1", "case2"}
        /\ "shut_remote" \notin Status' /\ "shutdown" \notin Status /\ ~first'
        /\ "battlow" \in Status' <=> "battlow" \in Status
        /\ PrevStatus' = EnterPrev
    BY <1>1 DEF Enter, EnterCommon, EnterStatus
  <2>2. "shut_remote" \notin EnterPrev
    BY <2>1 DEF DebounceInv, EnterPrev
  <2>3. ASSUME "battlow" \in Status' PROVE TimerFresh'
    <3>0. EnterAges["start_shut_lbatt"] = age["start_shut_lbatt"]
      BY DEF EnterAges, Stamped, Timers, OnLineTimers
    <3>1. CASE LowBattRises
      <4>1. age'["start_shut_lbatt"] = 0
        BY <1>1, <3>1 DEF Enter, Stamped, Timers
      <4>2. lowFor' \in 0..HistCap
        BY <1>1, ObserveType
      <4> QED BY <4>1, <4>2, HistoryAssumption DEF TimerFresh
    <3>2. CASE ~LowBattRises
      <4>1. "battlow" \in PrevStatus /\ ~first
        BY <2>1, <2>3, <3>2 DEF LowBattRises, EnterPrev
      <4>2. TimerFresh
        BY <2>1, <2>3, <4>1 DEF DebounceInv
      <4>3. age'["start_shut_lbatt"] = age["start_shut_lbatt"]
        BY <1>1, <3>0, <3>2 DEF Enter
      <4> QED BY <1>1, <2>1, <2>3, <4>2, <4>3, FreshSame
    <3> QED BY <3>1, <3>2
  <2> QED BY <2>1, <2>2, <2>3 DEF DebounceInv
<1>2. CASE EnterRemote /\ Observe(0)
  <2>1. "shutdown" \notin EnterStatus /\ "shut_remote" \notin EnterPrev =>
          DoShutdown(EnterStatus, EnterEvents \cup {"REMOTEDOWN"}, EnterAges)
    BY <1>2 DEF EnterRemote
  <2>2. "shut_remote" \notin EnterPrev => "shutdown" \in Status'
    BY <1>2, DoShutdownFrame DEF EnterRemote
  <2>3. "shut_remote" \in EnterPrev => "shutdown" \in Status
    BY DEF DebounceInv, EnterPrev
  <2>4. "shut_remote" \in EnterPrev /\ "shutdown" \in Status => "shutdown" \in Status'
    BY <1>2 DEF EnterRemote, EnterStatus
  <2> QED BY <2>2, <2>3, <2>4
<1>3. CASE /\ \/ OnMains \/ CheckSelfTest \/ SelfTestRuns \/ MainsBack \/ Calibration
              \/ OnBatteryAnnounce \/ OnBatteryShuttingDown \/ OnBatteryTimeout
              \/ OnBatteryLimit \/ OnBatteryWait
           /\ Observe(0)
  <2>1. /\ pc \in {"case1", "case2"} /\ pc' \in {"fill", "check", "exited"}
        /\ PrevStatus' = Status' /\ "shutdown" \notin Status
        /\ "battlow" \in Status' <=> "battlow" \in Status
        /\ "shut_remote" \in Status' <=> "shut_remote" \in Status
        /\ age'["start_shut_lbatt"] = age["start_shut_lbatt"]
        /\ first' = first
    BY <1>3, CaseFrame
  <2>2. "battlow" \in Status' => TimerFresh'
    BY <1>3, <2>1, FreshSame DEF DebounceInv
  <2> QED BY <2>1, <2>2 DEF DebounceInv
<1>4. ASSUME NEW d \in ReadSecs, fillUPS(d), Observe(d) PROVE DebounceInv'
  <2>1. /\ pc = "fill" /\ pc' = "enter2" /\ "shutdown" \notin Status
        /\ PrevStatus' = PrevStatus /\ first' = first /\ age' = Aged(d)
    BY <1>4 DEF fillUPS, FillStatus
  <2>2. ASSUME "battlow" \in PrevStatus, "battlow" \in Status' PROVE TimerFresh'
    <3>1. "battlow" \in Status /\ TimerFresh
      BY <2>1, <2>2 DEF DebounceInv
    <3>2. lowFor' = HistCapped(lowFor + d)
      BY <1>4, <2>2, <3>1 DEF Observe
    <3> QED BY <1>0, <2>1, <3>1, <3>2, FreshKept
  <2> QED BY <2>1, <2>2 DEF DebounceInv
<1>5. CASE (StartCheck \/ CheckTimeout) /\ Observe(0)
  <2>1. /\ pc \in {"check", "poll"} /\ pc' \in {"poll", "enter1"}
        /\ Status' = Status /\ PrevStatus' = PrevStatus /\ first' = first /\ age' = age
    BY <1>5 DEF StartCheck, CheckTimeout, pollFrame
  <2>2. "battlow" \in Status /\ TimerFresh => TimerFresh'
    BY <1>5, <2>1, FreshSame
  <2> QED BY <2>1, <2>2 DEF DebounceInv
<1>6. ASSUME NEW d \in Nat, Observe(d), age' = Aged(d), pc = "poll", pc' \in {"poll", "enter1"},
             PrevStatus' = PrevStatus, first' = first,
             "battlow" \in Status' <=> "battlow" \in Status,
             "shutdown" \notin Status
      PROVE  DebounceInv'
  <2>1. "battlow" \in Status /\ TimerFresh => TimerFresh'
    <3>1. "battlow" \in Status => lowFor' = HistCapped(lowFor + d)
      BY <1>6 DEF Observe
    <3> QED BY <1>6, <3>1, FreshKept
  <2> QED BY <1>6, <2>1 DEF DebounceInv
<1>7. ASSUME NEW d \in ReadSecs, CheckChanged(d), Observe(d) PROVE DebounceInv'
  BY <1>0, <1>6, <1>7 DEF CheckChanged, pollFrame, Answered
<1>8. ASSUME NEW d \in ReadSecs, CheckSame(d), Observe(d + 1) PROVE DebounceInv'
  <2>1. d + 1 \in Nat
    BY <1>0
  <2> QED BY <1>6, <1>8, <2>1 DEF CheckSame, pollFrame, Answered
<1>9. CASE UNCHANGED histVars
  BY <1>9 DEF histVars, loopVars, actionVars, history, DebounceInv, TimerFresh
<1> QED BY <1>1, <1>2, <1>3, <1>4, <1>5, <1>7, <1>8, <1>9 DEF HistNext, do_action

(* LOWBATT is debounced, whatever the configuration and the readings.      *)
THEOREM LowBatteryIsDebounced ==
    ASSUME HistCap >= ShutTimer
    PROVE  HistSpec => LowBatteryDebounced
<1>1. HistInit => DebounceInv
  BY DEF HistInit, Init, DebounceInv
<1>2. ASSUME TypeOK, DebounceInv, HistNext, pc \in {"case1", "case2"}, Executes("FAILING")
      PROVE  lowFor >= ShutTimer
  <2>1. "FAILING" \in events' /\ "FAILING" \notin events
    BY <1>2 DEF Executes
  <2>2. do_action /\ ~Enter /\ ~EnterRemote
    BY <1>2 DEF HistNext, StartCheck, CheckTimeout, fillUPS, CheckChanged, CheckSame,
       Enter, EnterRemote, EnterCommon
  <2>3. OnBatteryLimit
    <3>1. ~OnMains /\ ~SelfTestRuns /\ ~Calibration
      BY <2>1 DEF OnMains, SelfTestRuns, Calibration
    <3>2. ~CheckSelfTest
      <4>1. ASSUME NEW st, NEW test, PowerFailure(st, test)
            PROVE  events' \subseteq events \cup {"STARTSELFTEST", "POWEROUT"}
        BY <4>1 DEF PowerFailure
      <4> QED BY <2>1, <4>1 DEF CheckSelfTest
    <3>3. ~MainsBack
      BY <2>1 DEF MainsBack
    <3>6. ~OnBatteryAnnounce
      BY <2>1 DEF OnBatteryAnnounce
    <3>4. ~OnBatteryShuttingDown /\ ~OnBatteryWait
      BY <2>1 DEF OnBatteryShuttingDown, OnBatteryWait, HibernateEvents
    <3>5. ~OnBatteryTimeout
      <4>1. OnBatteryTimeout => "FAILING" \in events \cup {"TIMEOUT"}
        BY <2>1, DoShutdownEvents DEF OnBatteryTimeout
      <4> QED BY <2>1, <4>1
    <3> QED BY <2>2, <3>1, <3>2, <3>3, <3>4, <3>5, <3>6 DEF do_action
  <2>4. ExpiredLimit = "FAILING"
    <3>1. "FAILING" \in events \cup {ExpiredLimit}
      BY <2>1, <2>3, DoShutdownEvents DEF OnBatteryLimit
    <3> QED BY <2>1, <3>1
  <2>5. "battlow" \in Status /\ age["start_shut_lbatt"] >= ShutTimer
    BY <2>4 DEF ExpiredLimit
  <2>6. TimerFresh
    BY <1>2, <2>3, <2>5 DEF DebounceInv, OnBatteryLimit
  <2>7. age["start_shut_lbatt"] \in Nat /\ lowFor \in Nat
    BY <1>2, ConfigAssumption, HistoryAssumption DEF TypeOK, ActionTypeOK, Timers
  <2> QED BY <2>5, <2>6, <2>7, ConfigAssumption DEF TimerFresh
<1>3. TypeOK /\ DebounceInv /\ [HistNext]_histVars =>
        [(pc \in {"case1", "case2"} /\ Executes("FAILING")) => lowFor >= ShutTimer]_histVars
  BY <1>2
<1>4. TypeOK /\ DebounceInv /\ [HistNext]_histVars => DebounceInv'
  BY DebounceStep
<1> QED BY <1>1, <1>3, <1>4, TypeCorrect, PTL DEF HistSpec, LowBatteryDebounced

(***************************************************************************)
(* The nologin file.  Until the system is shut down, logins are forbidden  *)
(* only while the pass before saw the UPS on battery: that the power came  *)
(* back is then still a change, to be dealt with.  A remote shutdown that  *)
(* cuts a pass short would lose the change, but it shuts the system down.  *)
(***************************************************************************)
LoginsInv ==
    \/ "shutdown" \in Status
    \/ /\ nologin_file => "onbatt" \in PrevStatus /\ ~first
       /\ ~first => "shut_remote" \notin PrevStatus
       /\ pc \in {"case1", "case2"} => ~first /\ "shut_remote" \notin Status

(* A file is there only while logins are forbidden, or was found.          *)
FileKept == "nologin" \in disk' => nologin_file' \/ ("nologin" \in disk /\ ~nologin_file)

(* do_shutdown() makes the file with the flag, or leaves both alone.       *)
LEMMA DoShutdownFile ==
    ASSUME NEW st, NEW evs, NEW a, DoShutdown(st, evs, a)
    PROVE  FileKept
<1>1. CASE AlreadyDown(st)
  BY <1>1 DEF DoShutdown, FileKept
<1>2. CASE ~AlreadyDown(st)
  BY <1>2 DEF DoShutdown, FileKept
<1> QED BY <1>1, <1>2

LEMMA LoginsStep ==
    ASSUME TypeOK, LoginsInv, [HistNext]_histVars
    PROVE  LoginsInv' /\ FileKept
<1>1. CASE Enter
  <2>1. /\ "shut_remote" \notin Status' /\ ~first' /\ nologin_file' = nologin_file
        /\ PrevStatus' = EnterPrev /\ disk' = disk
        /\ "shutdown" \in Status => "shutdown" \in Status'
    BY <1>1 DEF Enter, EnterCommon, EnterStatus
  <2>2. \/ "shutdown" \in Status
        \/ "shut_remote" \notin EnterPrev /\ (nologin_file => "onbatt" \in EnterPrev)
    <3>1. first \in BOOLEAN
      BY DEF TypeOK, ActionTypeOK
    <3>2. CASE first
      BY <3>2 DEF LoginsInv, EnterPrev
    <3>3. CASE ~first
      BY <3>3 DEF LoginsInv, EnterPrev
    <3> QED
      BY <3>1, <3>2, <3>3
  <2> QED
    BY <2>1, <2>2 DEF LoginsInv, FileKept
<1>2. CASE EnterRemote
  <2>1. CASE "shut_remote" \in EnterPrev
    <3>1. "shutdown" \in Status
      BY <2>1 DEF LoginsInv, EnterPrev
    <3>2. /\ "shutdown" \in Status' /\ disk' = disk /\ nologin_file' = nologin_file
      BY <1>2, <2>1, <3>1 DEF EnterRemote, EnterStatus
    <3> QED
      BY <3>2 DEF LoginsInv, FileKept
  <2>2. CASE "shut_remote" \notin EnterPrev
    <3>1. DoShutdown(EnterStatus, EnterEvents \cup {"REMOTEDOWN"}, EnterAges)
      BY <1>2, <2>2 DEF EnterRemote
    <3> QED
      BY <3>1, DoShutdownFrame, DoShutdownFile DEF LoginsInv
  <2> QED
    BY <2>1, <2>2
<1>3. CASE \/ OnMains \/ CheckSelfTest \/ SelfTestRuns \/ MainsBack \/ Calibration
           \/ OnBatteryAnnounce \/ OnBatteryShuttingDown \/ OnBatteryTimeout
           \/ OnBatteryLimit \/ OnBatteryWait
  <2>1. /\ pc \in {"case1", "case2"} /\ pc' \in {"fill", "check", "exited"}
        /\ PrevStatus' = Status' /\ first' = first
        /\ "shut_remote" \in Status' <=> "shut_remote" \in Status
        /\ "shutdown" \in Status => "shutdown" \in Status'
    BY <1>3, CaseFrame
  <2>2. ASSUME FileKept, nologin_file' => "shutdown" \in Status' \/ "onbatt" \in Status'
        PROVE  LoginsInv' /\ FileKept
    BY <2>1, <2>2 DEF LoginsInv
  <2>3. nologin_file => "shutdown" \in Status \/ "onbatt" \in PrevStatus
    BY DEF LoginsInv
  <2>4. CASE OnMains \/ SelfTestRuns \/ Calibration \/ OnBatteryAnnounce \/ OnBatteryShuttingDown
    <3>1. nologin_file' = nologin_file /\ disk' = disk
      BY <2>4 DEF OnMains, SelfTestRuns, Calibration, OnBatteryAnnounce, OnBatteryShuttingDown
    <3>2. "onbatt" \in PrevStatus => "onbatt" \in Status'
      BY <2>4 DEF OnMains, SelfTestRuns, Calibration, OnBatteryAnnounce, OnBatteryShuttingDown, InBattery,
                  InCase, Changed
    <3> QED
      BY <2>1, <2>2, <2>3, <3>1, <3>2 DEF FileKept
  <2>5. CASE CheckSelfTest
    <3>1. nologin_file' = nologin_file /\ disk' = disk
      BY <2>5 DEF CheckSelfTest, PowerFailure
    <3>2. "onbatt" \notin PrevStatus
      BY <2>5 DEF CheckSelfTest, PowerFailure, InCase, Changed
    <3> QED
      BY <2>1, <2>2, <2>3, <3>1, <3>2 DEF FileKept
  <2>6. CASE MainsBack
    BY <2>2, <2>6 DEF MainsBack, AllowLogins, FileKept
  <2>7. CASE OnBatteryTimeout \/ OnBatteryLimit
    <3>1. PICK st, evs, a : DoShutdown(st, evs, a)
      BY <2>7 DEF OnBatteryTimeout, OnBatteryLimit
    <3> QED
      BY <2>2, <3>1, DoShutdownFrame, DoShutdownFile
  <2>8. CASE OnBatteryWait
    <3>1. "onbatt" \in Status /\ "onbatt" \in Status'
      BY <2>8 DEF OnBatteryWait, InBattery, InCase, LimitStatus
    <3>2. FileKept
      BY <2>8 DEF OnBatteryWait, ProhibitLogins, FileKept
    <3> QED
      BY <2>2, <3>1, <3>2
  <2> QED
    BY <1>3, <2>4, <2>5, <2>6, <2>7, <2>8
<1>4. CASE StartCheck \/ CheckTimeout \/ UNCHANGED histVars
           \/ \E d \in ReadSecs : fillUPS(d) \/ CheckChanged(d) \/ CheckSame(d)
  <2>1. /\ UNCHANGED <<nologin_file, disk, PrevStatus, first>>
        /\ "shutdown" \in Status => "shutdown" \in Status'
        /\ pc' \in {"case1", "case2"} => pc' = pc /\ Status' = Status
    BY <1>4 DEF StartCheck, CheckTimeout, fillUPS, FillStatus, CheckChanged, CheckSame, Answered, pollFrame,
                histVars, loopVars, actionVars
  <2> QED
    BY <2>1 DEF LoginsInv, FileKept
<1> QED
  BY <1>1, <1>2, <1>3, <1>4 DEF HistNext, do_action

(* Logins are forbidden in an outage or a shutdown only, and the file that *)
(* forbids them goes with the outage, whatever the sequence of failures,   *)
(* remote shutdowns and recoveries, and whichever files cannot be made.    *)
THEOREM LoginsAlwaysComeBack == HistSpec => LoginsComeBack
<1>1. HistInit => LoginsInv
  BY DEF HistInit, Init, LoginsInv
<1>2. TypeOK /\ LoginsInv /\ [HistNext]_histVars => LoginsInv'
  BY LoginsStep
<1>3. TypeOK /\ LoginsInv /\ [HistNext]_histVars =>
        [/\ nologin_file' => "onbatt" \in PrevStatus' \/ "shutdown" \in Status'
         /\ "nologin" \in disk' => nologin_file' \/ ("nologin" \in disk /\ ~nologin_file)]_histVars
  BY LoginsStep DEF LoginsInv, FileKept
<1> QED
  BY <1>1, <1>2, <1>3, TypeCorrect, PTL DEF HistSpec, LoginsComeBack

(***************************************************************************)
(* The events of one pass.  Enter leaves the alarm and battery events      *)
(* only; the switch adds others, and the shutdown script exactly where     *)
(* the shutdown bit goes up.                                               *)
(***************************************************************************)
(* With --kill-on-powerfail the powerfail file could be written: otherwise *)
(* initiate_hibernate() ends the daemon before the script is run.          *)
HibernateNeverAborts == kill_on_powerfail /\ ~Slave => FALSE \notin FileWrites

(* What a step does about the shutdown: nothing, apart from the power kill *)
(* of a system that is shutting down, ...                                  *)
KillsPower ==
    /\ "KILLPOWER" \in events'
    /\ "shutdown" \in Status /\ KillDue /\ ~Slave /\ "pwrfail" \in disk
KeepsUp ==
    /\ "shutdown" \in Status' <=> "shutdown" \in Status
    /\ "DOSHUTDOWN" \notin events'
    /\ "KILLPOWER" \in events' => KillsPower
    /\ age'["ShutDown"] \in {0, age["ShutDown"]}

(* ... or it shuts the system down.                                        *)
GoesDown ==
    /\ "shutdown" \notin Status /\ "shutdown" \in Status'
    /\ HibernateNeverAborts \/ ~kill_on_powerfail => "DOSHUTDOWN" \in events'
    /\ age'["ShutDown"] = 0
    /\ "KILLPOWER" \in events' => kill_on_powerfail

LEMMA ShutdownEffect ==
    ASSUME NEW st, NEW evs, NEW a, DoShutdown(st, evs, a),
           "shutdown" \in st <=> "shutdown" \in Status, {"DOSHUTDOWN", "KILLPOWER"} \cap evs = {},
           a["ShutDown"] = age["ShutDown"]
    PROVE  /\ KeepsUp \/ GoesDown
           /\ "shutdown" \in Status'
           /\ \A e \in {"BATTATTACH", "BATTDETACH"} : e \in events' <=> e \in evs
           /\ "battpresent" \in Status' <=> "battpresent" \in st
<1>1. CASE AlreadyDown(st)
  BY <1>1 DEF DoShutdown, AlreadyDown, KeepsUp
<1>2. CASE ~AlreadyDown(st)
  <2> DEFINE files(w, m) == ProhibitLogins((disk \ {"lock"})
                               \cup (IF w THEN {"pwrfail"} ELSE {}), m)
             kills == kill_on_powerfail /\ MayKill
             aborts(w, m) == kills /\ HibernateAborts(files(w, m))
             killed == IF kills THEN HibernateEvents ELSE {}
  <2>1. PICK written \in FileWrites, made \in FileWrites :
           /\ Status' = st \cup ShutdownBits
           /\ age' = Stamped(a, {"ShutDown"})
           /\ events' = IF aborts(written, made) THEN evs ELSE evs \cup killed \cup {"DOSHUTDOWN"}
    BY <1>2 DEF DoShutdown
  <2>2. HibernateNeverAborts \/ ~kill_on_powerfail => ~aborts(written, made)
    <3>1. written => "pwrfail" \in files(written, made)
      BY DEF ProhibitLogins
    <3>2. written \in BOOLEAN
      BY ConfigAssumption
    <3> HIDE DEF files
    <3> QED
      BY <3>1, <3>2 DEF HibernateNeverAborts, HibernateAborts, MayKill
  <2>3. killed \subseteq {"KILLPOWER"} /\ ("KILLPOWER" \in killed => kill_on_powerfail)
    BY DEF HibernateEvents
  <2>4. age'["ShutDown"] = 0
    BY <2>1 DEF Stamped, Timers
  <2> HIDE DEF killed, aborts
  <2>5. GoesDown
    BY <1>2, <2>1, <2>2, <2>3, <2>4 DEF GoesDown, AlreadyDown, ShutdownBits
  <2> QED
    BY <2>1, <2>3, <2>5 DEF ShutdownBits
<1> QED
  BY <1>1, <1>2

(* Before the switch a pass has executed none of the two.                  *)
PassInv == pc \in {"case1", "case2"} => {"DOSHUTDOWN", "KILLPOWER"} \cap events = {}

(* The first half of a pass.                                               *)
LEMMA EnterEffect ==
    ASSUME TypeOK, Enter \/ EnterRemote
    PROVE  /\ KeepsUp \/ GoesDown
           /\ PassInv'
           /\ "battpresent" \in Status' <=> "battpresent" \in Status
           /\ Enter => events' = EnterEvents \cup BattEvents /\ PrevStatus' = EnterPrev
           /\ EnterRemote => /\ "shut_remote" \in EnterPrev \/ "shutdown" \in Status'
                             /\ PrevStatus' = Status'
<1>1. /\ pc \in {"enter1", "enter2"}
      /\ "shutdown" \in EnterStatus <=> "shutdown" \in Status
      /\ "battpresent" \in EnterStatus <=> "battpresent" \in Status
      /\ EnterEvents \subseteq {"CHANGEME"} /\ BattEvents \subseteq {"BATTATTACH", "BATTDETACH"}
      /\ EnterAges["ShutDown"] = age["ShutDown"]
  BY DEF Enter, EnterRemote, EnterCommon, EnterStatus, EnterEvents, BattEvents, EnterAges, Stamped, Timers,
         OnLineTimers
<1>2. CASE Enter
  <2>1. age'["ShutDown"] = age["ShutDown"]
    BY <1>1, <1>2 DEF Enter, Stamped, Timers
  <2> QED
    BY <1>1, <1>2, <2>1 DEF Enter, EnterRemote, KeepsUp, PassInv
<1>3. CASE EnterRemote /\ "shut_remote" \in EnterPrev
  BY <1>1, <1>3 DEF Enter, EnterRemote, KeepsUp, PassInv, Return
<1>4. CASE EnterRemote /\ "shut_remote" \notin EnterPrev
  <2>1. DoShutdown(EnterStatus, EnterEvents \cup {"REMOTEDOWN"}, EnterAges) /\ PrevStatus' = Status'
    BY <1>4 DEF EnterRemote
  <2>2. pc' \in {"exited", Return(pc)}
    BY <2>1, DoShutdownFrame
  <2>3. {"DOSHUTDOWN", "KILLPOWER"} \cap (EnterEvents \cup {"REMOTEDOWN"}) = {}
    BY <1>1
  <2>4. /\ KeepsUp \/ GoesDown
        /\ "shutdown" \in Status'
        /\ "battpresent" \in Status' <=> "battpresent" \in EnterStatus
    BY <1>1, <2>1, <2>3, ShutdownEffect
  <2> QED
    BY <1>1, <1>4, <2>1, <2>2, <2>4 DEF Enter, EnterRemote, PassInv, Return
<1> QED
  BY <1>2, <1>3, <1>4

(* The second half.                                                        *)
LEMMA CaseEffect ==
    ASSUME TypeOK, PassInv,
           \/ OnMains \/ CheckSelfTest \/ SelfTestRuns \/ MainsBack \/ Calibration
           \/ OnBatteryAnnounce \/ OnBatteryShuttingDown \/ OnBatteryTimeout
           \/ OnBatteryLimit \/ OnBatteryWait
    PROVE  /\ KeepsUp \/ GoesDown
           /\ "battpresent" \in Status' <=> "battpresent" \in Status
           /\ \A e \in {"BATTATTACH", "BATTDETACH"} : e \in events' <=> e \in events
<1> USE DEF InCase, Leave
<1>0. {"DOSHUTDOWN", "KILLPOWER"} \cap events = {}
  BY CaseFrame DEF PassInv
<1>1. \A S \in SUBSET Timers : Stamped(age, S)["ShutDown"] = IF "ShutDown" \in S THEN 0 ELSE age["ShutDown"]
  BY DEF Stamped, Timers
<1>2. CASE OnMains
  BY <1>0, <1>1, <1>2 DEF OnMains, KeepsUp, OnLineTimers, Timers
<1>3. CASE CheckSelfTest
  <2>1. PICK gone \in SUBSET {"onbatt"}, again \in SUBSET {"replacebatt"}, test \in BOOLEAN :
             PowerFailure(Refreshed(gone, again), test)
    BY <1>3 DEF CheckSelfTest
  <2>2. "ShutDown" \notin OnLineTimers \cup {"last_onbatt_time"} \cup (IF test THEN {"SelfTest"} ELSE {})
    BY DEF OnLineTimers
  <2>3. age'["ShutDown"] = age["ShutDown"]
    BY <2>1, <2>2 DEF PowerFailure, Stamped, Timers
  <2> QED
    BY <1>0, <2>1, <2>3 DEF PowerFailure, Refreshed, KeepsUp
<1>4. CASE SelfTestRuns \/ Calibration
  BY <1>0, <1>4 DEF SelfTestRuns, Calibration, KeepsUp
<1>5. CASE MainsBack
  <2>1. age'["ShutDown"] = age["ShutDown"]
    BY <1>5 DEF MainsBack, Stamped, Timers
  <2> QED
    BY <1>0, <1>5, <2>1 DEF MainsBack, KeepsUp
<1>6. CASE OnBatteryAnnounce
  BY <1>0, <1>1, <1>6 DEF OnBatteryAnnounce, KeepsUp, OnLineTimers, Timers
<1>7. CASE OnBatteryShuttingDown
  <2>1. age'["ShutDown"] \in {0, age["ShutDown"]}
    BY <1>7 DEF OnBatteryShuttingDown, Stamped, Timers
  <2>2. "KILLPOWER" \in events' => KillsPower
    BY <1>0, <1>7 DEF OnBatteryShuttingDown, KillsPower, MayKill, HibernateAborts
  <2> QED
    BY <1>0, <1>7, <2>1, <2>2 DEF OnBatteryShuttingDown, HibernateEvents, KeepsUp
<1>8. CASE OnBatteryTimeout
  <2>1. DoShutdown(Status \cup {"shut_btime"}, events \cup {"TIMEOUT"}, age)
    BY <1>8 DEF OnBatteryTimeout
  <2>2. {"DOSHUTDOWN", "KILLPOWER"} \cap (events \cup {"TIMEOUT"}) = {}
    BY <1>0
  <2>3. "shutdown" \in Status \cup {"shut_btime"} <=> "shutdown" \in Status
    OBVIOUS
  <2>4. /\ KeepsUp \/ GoesDown
        /\ \A e \in {"BATTATTACH", "BATTDETACH"} : e \in events' <=> e \in events \cup {"TIMEOUT"}
        /\ "battpresent" \in Status' <=> "battpresent" \in Status \cup {"shut_btime"}
    BY <2>1, <2>2, <2>3, ShutdownEffect
  <2> QED
    BY <2>4
<1>9. /\ LimitAges["ShutDown"] = age["ShutDown"]
      /\ "shutdown" \in LimitStatus <=> "shutdown" \in Status
      /\ "battpresent" \in LimitStatus <=> "battpresent" \in Status
  BY DEF LimitAges, LimitStatus, Stamped, Timers
<1>10. CASE OnBatteryLimit
  <2>1. DoShutdown(LimitStatus, events \cup {ExpiredLimit}, LimitAges)
    BY <1>10 DEF OnBatteryLimit
  <2>2. ExpiredLimit \in {"FAILING", "LOADLIMIT", "RUNLIMIT", "none"}
    BY DEF ExpiredLimit
  <2>3. {"DOSHUTDOWN", "KILLPOWER"} \cap (events \cup {ExpiredLimit}) = {}
    BY <1>0, <2>2
  <2>4. /\ KeepsUp \/ GoesDown
        /\ \A e \in {"BATTATTACH", "BATTDETACH"} : e \in events' <=> e \in events \cup {ExpiredLimit}
        /\ "battpresent" \in Status' <=> "battpresent" \in LimitStatus
    BY <1>9, <2>1, <2>3, ShutdownEffect
  <2> QED
    BY <1>9, <2>2, <2>4
<1>11. CASE OnBatteryWait
  <2>1. age'["ShutDown"] = age["ShutDown"]
    BY <1>9, <1>11 DEF OnBatteryWait, Stamped, Timers
  <2> QED
    BY <1>0, <1>9, <1>11, <2>1 DEF OnBatteryWait, KeepsUp
<1> QED
  BY <1>2, <1>3, <1>4, <1>5, <1>6, <1>7, <1>8, <1>10, <1>11

(* A step of the loop that is not do_action()'s executes nothing.          *)
LEMMA LoopEffect ==
    ASSUME TypeOK, [HistNext]_histVars
    PROVE  \/ (Enter \/ EnterRemote) /\ Observe(0)
           \/ /\ \/ OnMains \/ CheckSelfTest \/ SelfTestRuns \/ MainsBack \/ Calibration
                 \/ OnBatteryAnnounce \/ OnBatteryShuttingDown \/ OnBatteryTimeout
                 \/ OnBatteryLimit \/ OnBatteryWait
              /\ Observe(0)
           \/ UNCHANGED histVars
           \/ /\ \E d \in Nat : Observe(d) /\ (age' = Aged(d) \/ (age' = age /\ d = 0))
              /\ events' = events /\ PrevStatus' = PrevStatus /\ first' = first
              /\ pc \in {"fill", "check", "poll"} /\ pc' \in {"enter1", "enter2", "poll"}
              /\ "shutdown" \in Status' <=> "shutdown" \in Status
              /\ pc # "fill" => ("battpresent" \in Status' <=> "battpresent" \in Status)
<1>0. ReadSecs \subseteq Nat
  BY LoopAssumption
<1>1. CASE (do_action \/ StartCheck \/ CheckTimeout) /\ Observe(0)
  BY <1>1 DEF do_action, StartCheck, CheckTimeout, pollFrame
<1>2. ASSUME NEW d \in ReadSecs, fillUPS(d), Observe(d)
      PROVE  "shutdown" \in Status' <=> "shutdown" \in Status
  BY <1>2, LoopAssumption DEF fillUPS, FillStatus, ReadingType
<1>3. ASSUME NEW d \in ReadSecs, CheckChanged(d) \/ CheckSame(d)
      PROVE  /\ "shutdown" \in Status' <=> "shutdown" \in Status
             /\ "battpresent" \in Status' <=> "battpresent" \in Status
  BY <1>3 DEF CheckChanged, CheckSame, Answered
<1>4. ASSUME NEW d \in ReadSecs, (fillUPS(d) \/ CheckChanged(d)) /\ Observe(d)
      PROVE  /\ d \in Nat /\ Observe(d) /\ age' = Aged(d)
             /\ events' = events /\ PrevStatus' = PrevStatus /\ first' = first
             /\ pc \in {"fill", "check", "poll"} /\ pc' \in {"enter1", "enter2", "poll"}
             /\ "shutdown" \in Status' <=> "shutdown" \in Status
             /\ pc # "fill" => ("battpresent" \in Status' <=> "battpresent" \in Status)
  <2>1. CASE fillUPS(d)
    BY <1>0, <1>2, <1>4, <2>1 DEF fillUPS
  <2>2. CASE CheckChanged(d)
    BY <1>0, <1>3, <1>4, <2>2 DEF CheckChanged, pollFrame
  <2> QED
    BY <1>4, <2>1, <2>2
<1>5. ASSUME NEW d \in ReadSecs, CheckSame(d), Observe(d + 1)
      PROVE  /\ d + 1 \in Nat /\ Observe(d + 1) /\ age' = Aged(d + 1)
             /\ events' = events /\ PrevStatus' = PrevStatus /\ first' = first
             /\ pc \in {"fill", "check", "poll"} /\ pc' \in {"enter1", "enter2", "poll"}
             /\ "shutdown" \in Status' <=> "shutdown" \in Status
             /\ pc # "fill" => ("battpresent" \in Status' <=> "battpresent" \in Status)
  BY <1>0, <1>3, <1>5 DEF CheckSame, pollFrame
<1> QED
  BY <1>1, <1>4, <1>5 DEF HistNext

(* What a step executes, seen by the history: the shutdown script where    *)
(* the bit goes up, the power kill where it is due.                        *)
LEMMA ScriptStep ==
    ASSUME TypeOK, PassInv, [HistNext]_histVars
    PROVE  /\ PassInv'
           /\ "shutdown" \in Status => "shutdown" \in Status'
           /\ (HibernateNeverAborts \/ ~kill_on_powerfail) /\ ~UNCHANGED histVars =>
                (Executes("DOSHUTDOWN") <=> "shutdown" \in Status' /\ "shutdown" \notin Status)
           /\ ~UNCHANGED histVars /\ Executes("KILLPOWER") => kill_on_powerfail \/ KillsPower
<1>1. CASE (Enter \/ EnterRemote) /\ Observe(0)
  <2>1. (KeepsUp \/ GoesDown) /\ PassInv' /\ pc \in {"enter1", "enter2"}
    BY <1>1, EnterEffect DEF Enter, EnterRemote, EnterCommon
  <2> QED
    BY <2>1 DEF KeepsUp, GoesDown, Executes, PassInv
<1>2. CASE \/ OnMains \/ CheckSelfTest \/ SelfTestRuns \/ MainsBack \/ Calibration
           \/ OnBatteryAnnounce \/ OnBatteryShuttingDown \/ OnBatteryTimeout
           \/ OnBatteryLimit \/ OnBatteryWait
  <2>1. (KeepsUp \/ GoesDown) /\ pc \in {"case1", "case2"} /\ pc' \notin {"case1", "case2"}
    BY <1>2, CaseEffect, CaseFrame
  <2> QED
    BY <2>1 DEF KeepsUp, GoesDown, Executes, PassInv
<1>3. CASE UNCHANGED histVars
  BY <1>3 DEF histVars, loopVars, actionVars, PassInv
<1>4. CASE /\ events' = events /\ pc \in {"fill", "check", "poll"} /\ pc' \in {"enter1", "enter2", "poll"}
           /\ "shutdown" \in Status' <=> "shutdown" \in Status
  BY <1>4 DEF Executes, PassInv
<1> QED
  BY <1>1, <1>2, <1>3, <1>4, LoopEffect

(* The shutdown script is run exactly once, whichever of its causes comes  *)
(* first and however they coincide; only --kill-on-powerfail without a     *)
(* powerfail file ends the daemon before it.                               *)
THEOREM ScriptRunsOnce ==
    ASSUME HibernateNeverAborts
    PROVE  HistSpec => ShutdownRunsScript
<1>1. HistInit => PassInv
  BY DEF HistInit, Init, PassInv
<1>2. TypeOK /\ PassInv /\ [HistNext]_histVars => PassInv'
  BY ScriptStep
<1>3. TypeOK /\ PassInv /\ [HistNext]_histVars =>
        [/\ Executes("DOSHUTDOWN") <=> "shutdown" \in Status' /\ "shutdown" \notin Status
         /\ "shutdown" \in Status => "shutdown" \in Status']_histVars
  BY ScriptStep
<1> QED
  BY <1>1, <1>2, <1>3, TypeCorrect, PTL DEF HistSpec, ShutdownRunsScript

(* The age of ups->ShutDown never exceeds the time since the script.       *)
ShutAgeInv ==
    ~kill_on_powerfail /\ "shutdown" \in Status =>
        age["ShutDown"] <= sinceShut \/ sinceShut >= killdelay

LEMMA ShutAgeStep ==
    ASSUME HistCap >= killdelay, TypeOK, PassInv, ShutAgeInv, [HistNext]_histVars
    PROVE  ShutAgeInv'
<1> SUFFICES ASSUME ~kill_on_powerfail, "shutdown" \in Status' PROVE ShutAgeInv'
  BY DEF ShutAgeInv
<1>0. age["ShutDown"] \in Nat /\ sinceShut \in 0..HistCap /\ killdelay \in Nat /\ HistCap \in Nat /\ AgeCap \in Nat
  BY ConfigAssumption, HistoryAssumption DEF TypeOK, ActionTypeOK, Timers
<1>1. ASSUME KeepsUp \/ GoesDown, Observe(0), ~UNCHANGED histVars
      PROVE  ShutAgeInv'
  <2>1. CASE KeepsUp
    <3>1. ~Executes("DOSHUTDOWN")
      BY <2>1 DEF KeepsUp, Executes
    <3>2. sinceShut' = sinceShut
      BY <1>0, <1>1, <3>1 DEF Observe, HistCapped
    <3> QED
      BY <1>0, <2>1, <3>2 DEF KeepsUp, ShutAgeInv
  <2>2. CASE GoesDown
    <3>1. sinceShut' \in 0..HistCap
      BY <1>1, ObserveType
    <3> QED
      BY <1>0, <2>2, <3>1 DEF GoesDown, ShutAgeInv
  <2> QED
    BY <1>1, <2>1, <2>2
<1>2. CASE UNCHANGED histVars
  BY <1>2 DEF histVars, loopVars, actionVars, history, ShutAgeInv
<1>3. ASSUME NEW d \in Nat, Observe(d), age' = Aged(d) \/ (age' = age /\ d = 0), events' = events,
             pc \in {"fill", "check", "poll"}, "shutdown" \in Status
      PROVE  ShutAgeInv'
  <2>1. sinceShut' = HistCapped(sinceShut + d)
    BY <1>3 DEF Observe, Executes
  <2>2. age'["ShutDown"] <= age["ShutDown"] + d
    BY <1>0, <1>3 DEF Aged, Capped, Timers
  <2>3. age'["ShutDown"] \in Nat
    BY <1>0, <1>3 DEF Aged, Capped, Timers
  <2> QED
    BY <1>0, <1>3, <2>1, <2>2, <2>3 DEF ShutAgeInv, HistCapped
<1> QED
  BY <1>1, <1>2, <1>3, LoopEffect, EnterEffect, CaseEffect

(* The UPS is told to cut the power no sooner than killdelay seconds after *)
(* the script, by the master, with the powerfail file on disk.             *)
THEOREM KillPowerAlwaysWaits ==
    ASSUME HistCap >= killdelay
    PROVE  HistSpec => KillPowerWaits
<1>1. HistInit => PassInv /\ ShutAgeInv
  <2>1. HistInit => "shutdown" \notin Status
    BY LoopAssumption DEF HistInit, Init, ReadingType
  <2> QED
    BY <2>1 DEF HistInit, Init, PassInv, ShutAgeInv
<1>2. TypeOK /\ PassInv /\ ShutAgeInv /\ [HistNext]_histVars => (PassInv /\ ShutAgeInv)'
  BY ScriptStep, ShutAgeStep
<1>3. ASSUME TypeOK, PassInv, ShutAgeInv, [HistNext]_histVars, ~UNCHANGED histVars,
             Executes("KILLPOWER"), ~kill_on_powerfail
      PROVE  "shutdown" \in Status /\ sinceShut >= killdelay /\ ~Slave /\ "pwrfail" \in disk
  <2>1. KillsPower
    BY <1>3, ScriptStep
  <2>2. age["ShutDown"] \in Nat /\ sinceShut \in Nat /\ killdelay \in Nat
    BY <1>3, ConfigAssumption, HistoryAssumption DEF TypeOK, ActionTypeOK, Timers
  <2> QED
    BY <1>3, <2>1, <2>2 DEF KillsPower, KillDue, ShutAgeInv
<1>4. TypeOK /\ PassInv /\ ShutAgeInv /\ [HistNext]_histVars =>
        [(Executes("KILLPOWER") /\ ~kill_on_powerfail) =>
           "shutdown" \in Status /\ sinceShut >= killdelay /\ ~Slave /\ "pwrfail" \in disk]_histVars
  BY <1>3
<1> QED
  BY <1>1, <1>2, <1>4, TypeCorrect, PTL DEF HistSpec, KillPowerWaits

(***************************************************************************)
(* Battery events: as long as no shutdown is under way, the last event     *)
(* agrees with the status of the last pass, for a pass that returns early  *)
(* shuts the system down.                                                  *)
(***************************************************************************)
InSwitch == pc \in {"case1", "case2"}

BatteryInv ==
    "shutdown" \notin Status =>
      /\ first => pc = "enter1" /\ battKnown
      /\ ~first => "shut_remote" \notin PrevStatus
      /\ InSwitch => ~first /\ "shut_remote" \notin Status /\ battKnown = ("battpresent" \in Status)
      /\ ~InSwitch /\ ~first => battKnown = ("battpresent" \in PrevStatus)
      /\ pc \in {"fill", "check"} => ("battpresent" \in PrevStatus <=> "battpresent" \in Status)

LEMMA BatteryStep ==
    ASSUME TypeOK, PassInv, BatteryInv, [HistNext]_histVars
    PROVE  BatteryInv'
<1> SUFFICES ASSUME "shutdown" \notin Status' PROVE BatteryInv'
  BY DEF BatteryInv
<1>0. "shutdown" \notin Status
  BY ScriptStep
<1>b. battKnown \in BOOLEAN
  BY DEF TypeOK
<1>1. CASE Enter /\ Observe(0)
  <2>1. /\ events' = EnterEvents \cup BattEvents /\ PrevStatus' = EnterPrev
        /\ "battpresent" \in Status' <=> "battpresent" \in Status
    BY <1>1, EnterEffect
  <2>2. /\ pc \in {"enter1", "enter2"} /\ pc' \in {"case1", "case2"} /\ first' = FALSE
        /\ "shut_remote" \notin Status /\ "shut_remote" \notin Status'
    BY <1>1 DEF Enter, EnterCommon, EnterStatus
  <2>3. battKnown = ("battpresent" \in EnterPrev) /\ "shut_remote" \notin EnterPrev
    BY <1>0, <1>b, <2>2 DEF BatteryInv, EnterPrev, InSwitch
  <2>4. \A e \in {"BATTATTACH", "BATTDETACH"} : Executes(e) <=> e \in BattEvents
    BY <2>1, <2>2 DEF Executes, EnterEvents
  <2>5. battKnown' = ("battpresent" \in Status)
    <3>1. battKnown' = IF "BATTATTACH" \in BattEvents THEN TRUE
                       ELSE IF "BATTDETACH" \in BattEvents THEN FALSE ELSE battKnown
      BY <1>1, <2>4 DEF Observe
    <3>2. CASE ("battpresent" \in Status) = ("battpresent" \in EnterPrev)
      BY <1>b, <2>3, <3>1, <3>2 DEF BattEvents
    <3>3. CASE "battpresent" \in Status /\ "battpresent" \notin EnterPrev
      <4>1. BattEvents = {"BATTATTACH"}
        BY <3>3 DEF BattEvents
      <4> QED
        BY <3>1, <3>3, <4>1
    <3>4. CASE "battpresent" \notin Status /\ "battpresent" \in EnterPrev
      <4>1. BattEvents = {"BATTDETACH"}
        BY <3>4 DEF BattEvents
      <4>2. battKnown' = FALSE
        BY <3>1, <4>1
      <4>3. ("battpresent" \in Status) = FALSE
        BY <3>4
      <4> QED
        BY <4>2, <4>3
    <3> QED
      BY <3>2, <3>3, <3>4
  <2> QED
    BY <2>1, <2>2, <2>3, <2>5 DEF BatteryInv, InSwitch
<1>2. CASE EnterRemote /\ Observe(0)
  <2>1. "shut_remote" \in EnterPrev
    BY <1>2, EnterEffect
  <2> QED
    BY <1>0, <2>1 DEF BatteryInv, EnterPrev
<1>3. CASE /\ \/ OnMains \/ CheckSelfTest \/ SelfTestRuns \/ MainsBack \/ Calibration
              \/ OnBatteryAnnounce \/ OnBatteryShuttingDown \/ OnBatteryTimeout
              \/ OnBatteryLimit \/ OnBatteryWait
           /\ Observe(0)
  <2>1. /\ InSwitch /\ ~InSwitch' /\ PrevStatus' = Status' /\ first' = first
        /\ "shut_remote" \in Status' <=> "shut_remote" \in Status
    BY <1>3, CaseFrame DEF InSwitch
  <2>2. /\ "battpresent" \in Status' <=> "battpresent" \in Status
        /\ \A e \in {"BATTATTACH", "BATTDETACH"} : ~Executes(e)
    BY <1>3, <2>1, CaseEffect DEF Executes, InSwitch
  <2>3. battKnown' = battKnown
    BY <1>3, <2>2 DEF Observe
  <2> QED
    BY <1>0, <2>1, <2>2, <2>3 DEF BatteryInv
<1>4. CASE UNCHANGED histVars
  BY <1>4 DEF histVars, loopVars, actionVars, history, BatteryInv, InSwitch
<1>5. ASSUME NEW d \in Nat, Observe(d), events' = events, PrevStatus' = PrevStatus, first' = first,
             pc \in {"fill", "check", "poll"}, pc' \in {"enter1", "enter2", "poll"}
      PROVE  BatteryInv'
  <2>1. battKnown' = battKnown
    BY <1>5 DEF Observe, Executes
  <2> QED
    BY <1>0, <1>5, <2>1 DEF BatteryInv, InSwitch
<1> QED
  BY <1>1, <1>2, <1>3, <1>4, <1>5, LoopEffect

(* After a pass the last BATTATTACH or BATTDETACH agrees with the status,  *)
(* for every sequence of readings, partial and stale ones included.        *)
THEOREM BatteryEventsAlwaysMatch == HistSpec => []BatteryEventsMatch
<1>1. HistInit => PassInv /\ BatteryInv
  BY DEF HistInit, Init, PassInv, BatteryInv, InSwitch
<1>2. TypeOK /\ PassInv /\ BatteryInv /\ [HistNext]_histVars => (PassInv /\ BatteryInv)'
  BY ScriptStep, BatteryStep
<1>3. BatteryInv => BatteryEventsMatch
  BY DEF BatteryInv, BatteryEventsMatch, InSwitch
<1> QED
  BY <1>1, <1>2, <1>3, TypeCorrect, PTL DEF HistSpec

(***************************************************************************)
(* Announcements, shutdowns and power kills in time.  What bounds the time *)
(* a condition has held is made up of what the code waits for (the         *)
(* longest of its timers) and of the time since the last pass: Slack.      *)
(* Before is what that was in the pass before.                             *)
(***************************************************************************)
Slack == IF pc \in {"fill", "check"} \/ (pc = "poll" /\ wait_left > 0) THEN 0
         ELSE IF pc \in {"enter2", "case2"} THEN MaxRead ELSE Gap
Before == IF pc \in {"fill", "enter2", "case2"} THEN Gap ELSE MaxRead

(* No reading tells the daemon to shut down (only a slave's does), or that *)
(* a calibration is running: one that ends while on battery leaves a loop  *)
(* that does not poll fast, with timers that were stamped long ago.        *)
PlainReadings == \A r \in Readings : {"shut_remote", "calibration"} \cap r.bits = {}

Onset == "onbatt" \in Status /\ "onbatt" \notin PrevStatus
Lowers == "battlow" \in Status /\ "battlow" \notin PrevStatus
Said == "onbatt_msg" \in Status
Down == "shutdown" \in Status
OnLine == age["last_time_on_line"]
Longest == Later(onbattdelay, SelfTestLimit)

(* On battery the loop polls fast; what has just come up was not there in  *)
(* the last pass.                                                          *)
PollsFast ==
    /\ "shut_remote" \notin Status /\ "calibration" \notin Status
    /\ first => pc = "enter1" /\ PrevStatus = {}
    /\ pc \in {"fill", "check", "poll"} => ("onbatt" \in Status <=> "onbatt" \in PrevStatus) /\ ~Lowers
    /\ "onbatt" \in Status /\ "onbatt" \in PrevStatus => "fastpoll" \in Status
    /\ pc = "poll" /\ "onbatt" \in Status => wait_left <= TIMER_FAST

(* Where the clocks of a condition are relative to the stamps.             *)
JustBegun(c) ==
    /\ ~Holds(c) => heldFor[c] = 0
    /\ Onset => heldFor[c] = 0
    /\ c = "battlow" /\ Lowers /\ pc \in {"enter1", "enter2"} => heldFor[c] = 0
SinceOnLine(c) == ~Said => heldFor[c] <= OnLine \/ OnLine >= onbattdelay
SinceSaid(c) == Said => heldFor[c] <= OnLine + (Longest + Gap) \/ OnLine > maxtime
SinceTest(c) == inSelfTest => heldFor[c] <= age["SelfTest"] \/ age["SelfTest"] >= SelfTestLimit
Unsaid(c) == ~Said => heldFor[c] <= Longest + Slack

(* And how far they may have come.                                         *)
OnBatteryFor(c) ==
    c = "onbatt" =>
        /\ maxtime > 0 /\ ~Down => heldFor[c] <= (maxtime + Longest + Gap) + Slack
        /\ killdelay > 0 /\ Down => \/ age["ShutDown"] <= killdelay + Slack
                                    \/ heldFor[c] <= (Longest + Gap) + Slack
BattLowFor(c) ==
    c = "battlow" /\ ~Down =>
        /\ heldFor[c] <= age["start_shut_lbatt"] \/ age["start_shut_lbatt"] >= ShutTimer
        /\ \/ heldFor[c] < ShutTimer + Slack
           \/ Said /\ heldFor[c] < ShutTimer + Before + Slack
Crossed(h, flag, timer) ==
    /\ flag \in Status => h <= age[timer] + AnnounceDeadline \/ age[timer] >= ShutTimer
    /\ flag \notin Status => h <= Longest + Before + Slack
    /\ h <= (AnnounceDeadline + ShutTimer) + Slack
LimitFor(c) ==
    ~Down => /\ c = "charge" => Crossed(heldFor[c], "shut_load", "start_shut_load")
             /\ c = "runtime" => Crossed(heldFor[c], "shut_ltime", "start_shut_ltime")

Bounded(c) == /\ SinceOnLine(c) /\ SinceSaid(c) /\ SinceTest(c) /\ Unsaid(c)
              /\ OnBatteryFor(c) /\ BattLowFor(c) /\ LimitFor(c)

LateInv == pc # "exited" => PollsFast /\ \A c \in Watched : JustBegun(c) /\ Bounded(c)

LEMMA ReadsEnd ==
    /\ MaxRead \in Nat /\ Gap \in Nat /\ Gap = MaxRead + 1
    /\ \A d \in ReadSecs : d \in Nat /\ d <= MaxRead
<1>1. ReadSecs \subseteq Nat
  BY LoopAssumption
<1>2. MaxRead \in ReadSecs /\ \A e \in ReadSecs : e <= MaxRead
  BY ReadsAssumption DEF MaxRead
<1> QED
  BY <1>1, <1>2 DEF Gap, TIMER_FAST

LEMMA Limits ==
    /\ Longest \in Nat /\ onbattdelay <= Longest /\ SelfTestLimit <= Longest
    /\ onbattdelay \in Nat /\ SelfTestLimit \in Nat
    /\ maxtime \in Nat /\ killdelay \in Nat /\ ShutTimer \in Nat /\ AgeCap \in Nat
    /\ onbattdelay < AgeCap /\ SelfTestLimit < AgeCap /\ maxtime < AgeCap /\ ShutTimer < AgeCap
    /\ AnnounceDeadline = Longest + Gap + MaxRead
<1>1. {onbattdelay, SelfTestLimit, maxtime, killdelay, ShutTimer, AgeCap} \subseteq Nat
  BY ConfigAssumption
<1>2. onbattdelay < AgeCap /\ SelfTestLimit < AgeCap /\ maxtime < AgeCap /\ ShutTimer < AgeCap
  BY AgeCapAssumption
<1> QED
  BY <1>1, <1>2 DEF Longest, Later, AnnounceDeadline

LEMMA SlackIs ==
    /\ Slack \in Nat /\ Slack <= Gap /\ Slack' \in Nat /\ Slack' <= Gap
    /\ Before \in Nat /\ Before' \in Nat
    /\ pc \in {"fill", "check"} => Slack = 0
    /\ Before + Slack <= Gap + MaxRead
  BY ReadsEnd DEF Slack, Before

(* The kind of a clock, whatever the condition.                            *)
LEMMA ClocksAre ==
    ASSUME TypeOK, NEW c \in Watched
    PROVE  /\ heldFor[c] \in Nat /\ OnLine \in Nat
           /\ \A t \in Timers : age[t] \in Nat /\ age[t] <= AgeCap
           /\ {"last_time_on_line", "SelfTest", "ShutDown", "start_shut_lbatt",
               "start_shut_load", "start_shut_ltime"} \subseteq Timers
<1>1. heldFor[c] \in 0..HistCap /\ HistCap \in Nat
  BY HistoryAssumption DEF TypeOK
<1>2. "last_time_on_line" \in Timers /\ \A t \in Timers : age[t] \in 0..AgeCap
  BY DEF TypeOK, ActionTypeOK, Timers
<1>3. AgeCap \in Nat
  BY Limits
<1> QED
  BY <1>1, <1>2, <1>3 DEF OnLine, Timers

LEMMA ClocksNext ==
    ASSUME TypeOK', NEW c \in Watched
    PROVE  /\ heldFor'[c] \in Nat /\ OnLine' \in Nat /\ OnLine' = age'["last_time_on_line"]
           /\ \A t \in Timers : age'[t] \in Nat
<1>1. heldFor'[c] \in 0..HistCap /\ HistCap \in Nat
  BY HistoryAssumption DEF TypeOK
<1>2. "last_time_on_line" \in Timers /\ \A t \in Timers : age'[t] \in 0..AgeCap
  BY DEF TypeOK, ActionTypeOK, Timers
<1>3. AgeCap \in Nat
  BY Limits
<1>4. OnLine' = age'["last_time_on_line"]
  BY DEF OnLine
<1> QED
  BY <1>1, <1>2, <1>3, <1>4

(* A clock that does not run is within every bound.                        *)
LEMMA AtRest ==
    ASSUME TypeOK', ShutTimer > 0, NEW c \in Watched, heldFor'[c] = 0
    PROVE  Bounded(c)'
<1>1. /\ OnLine' \in Nat /\ age'["SelfTest"] \in Nat /\ age'["ShutDown"] \in Nat
      /\ age'["start_shut_lbatt"] \in Nat /\ age'["start_shut_load"] \in Nat
      /\ age'["start_shut_ltime"] \in Nat
  BY ClocksNext DEF Timers
<1>2. /\ Slack' \in Nat /\ Before' \in Nat /\ Longest \in Nat /\ Gap \in Nat /\ MaxRead \in Nat
      /\ maxtime \in Nat /\ killdelay \in Nat /\ ShutTimer \in Nat
      /\ AnnounceDeadline = Longest + Gap + MaxRead
  BY SlackIs, Limits, ReadsEnd
<1>3. /\ heldFor'[c] <= OnLine' /\ heldFor'[c] <= OnLine' + (Longest + Gap)
      /\ heldFor'[c] <= age'["SelfTest"] /\ heldFor'[c] <= age'["start_shut_lbatt"]
      /\ heldFor'[c] <= Longest + Slack' /\ heldFor'[c] < ShutTimer + Slack'
      /\ heldFor'[c] <= (maxtime + Longest + Gap) + Slack' /\ heldFor'[c] <= (Longest + Gap) + Slack'
      /\ heldFor'[c] <= Longest + Before' + Slack'
      /\ heldFor'[c] <= (AnnounceDeadline + ShutTimer) + Slack'
      /\ heldFor'[c] <= age'["start_shut_load"] + AnnounceDeadline
      /\ heldFor'[c] <= age'["start_shut_ltime"] + AnnounceDeadline
  <2> DEFINE h == heldFor'[c]
             L == OnLine'
             s == Slack'
             b == Before'
             A == AnnounceDeadline
             B == age'["start_shut_lbatt"]
             C == age'["start_shut_load"]
             D == age'["start_shut_ltime"]
             T == age'["SelfTest"]
  <2>1. h = 0 /\ {L, s, b, B, C, D, T} \subseteq Nat /\ ShutTimer > 0
    BY <1>1, <1>2
  <2>2. {Longest, Gap, MaxRead, maxtime, ShutTimer} \subseteq Nat /\ A = Longest + Gap + MaxRead
    BY <1>2
  <2>3. A \in Nat
    BY <2>2
  <2> HIDE DEF h, L, s, b, A, B, C, D, T
  <2>4. h <= L /\ h <= L + (Longest + Gap) /\ h <= T /\ h <= B
    BY <2>1, <2>2
  <2>5. /\ h <= Longest + s /\ h < ShutTimer + s /\ h <= (maxtime + Longest + Gap) + s
        /\ h <= (Longest + Gap) + s /\ h <= Longest + b + s
    BY <2>1, <2>2
  <2>6. h <= (A + ShutTimer) + s /\ h <= C + A /\ h <= D + A
    BY <2>1, <2>2, <2>3
  <2> QED
    BY <2>4, <2>5, <2>6 DEF h, L, s, b, A, B, C, D, T
<1>4. OnBatteryFor(c)'
  BY <1>3 DEF OnBatteryFor
<1>5. BattLowFor(c)'
  BY <1>3 DEF BattLowFor
<1>6. Crossed(heldFor[c], "shut_load", "start_shut_load")' /\ Crossed(heldFor[c], "shut_ltime", "start_shut_ltime")'
  BY <1>3 DEF Crossed
<1> QED
  BY <1>3, <1>4, <1>5, <1>6 DEF Bounded, LimitFor, SinceOnLine, SinceSaid, SinceTest, Unsaid

(* d seconds pass between two passes, or between Enter and the switch.     *)
Waits(c, d) ==
    /\ Slack + d <= Slack' /\ Before' = Before
    /\ \A t \in {"last_time_on_line", "SelfTest", "ShutDown", "start_shut_load", "start_shut_ltime"} :
          age'[t] = Capped(age[t] + d)
    /\ c = "battlow" => age'["start_shut_lbatt"] = Capped(age["start_shut_lbatt"] + d)
    /\ \A b \in {"onbatt_msg", "shutdown", "shut_load", "shut_ltime"} : b \in Status' <=> b \in Status
    /\ inSelfTest' = inSelfTest

LEMMA CappedIs ==
    ASSUME NEW a \in Nat, NEW d \in Nat
    PROVE  /\ Capped(a + d) \in Nat /\ Capped(a + d) <= a + d
           /\ Capped(a + d) = a + d \/ Capped(a + d) = AgeCap
  BY Limits DEF Capped

LEMMA WaitsKeep ==
    ASSUME TypeOK, TypeOK', NEW d \in Nat, NEW c \in Watched, Waits(c, d), Bounded(c),
           heldFor'[c] <= heldFor[c] + d
    PROVE  Bounded(c)'
<1> DEFINE h == heldFor[c]
           hh == heldFor'[c]
           s == Slack
           ss == Slack'
           L == OnLine
           LL == OnLine'
           T == age["SelfTest"]
           TT == age'["SelfTest"]
           S == age["ShutDown"]
           SS == age'["ShutDown"]
           B == age["start_shut_lbatt"]
           BB == age'["start_shut_lbatt"]
<1>1. /\ h \in Nat /\ hh \in Nat /\ s \in Nat /\ ss \in Nat /\ Before \in Nat
      /\ hh <= h + d /\ s + d <= ss /\ Before' = Before
  BY ClocksAre, ClocksNext, SlackIs DEF Waits
<1>2. /\ \A t \in {"last_time_on_line", "SelfTest", "ShutDown", "start_shut_load", "start_shut_ltime"}
                   \cup (IF c = "battlow" THEN {"start_shut_lbatt"} ELSE {}) :
             /\ age[t] \in Nat /\ age'[t] \in Nat
             /\ age'[t] <= age[t] + d
             /\ age'[t] = age[t] + d \/ age'[t] = AgeCap
      /\ L = age["last_time_on_line"] /\ LL = age'["last_time_on_line"]
  <2>1. \A t \in Timers : age[t] \in Nat
    BY ClocksAre
  <2>2. L = age["last_time_on_line"] /\ LL = age'["last_time_on_line"]
    BY DEF OnLine
  <2>3. ASSUME NEW t \in Timers, age'[t] = Capped(age[t] + d)
        PROVE  /\ age[t] \in Nat /\ age'[t] \in Nat
               /\ age'[t] <= age[t] + d
               /\ age'[t] = age[t] + d \/ age'[t] = AgeCap
    BY <2>1, <2>3, CappedIs
  <2> QED
    BY <2>2, <2>3 DEF Waits, Timers
<1>3. /\ Said' <=> Said
      /\ Down' <=> Down
      /\ "shut_load" \in Status' <=> "shut_load" \in Status
      /\ "shut_ltime" \in Status' <=> "shut_ltime" \in Status
      /\ inSelfTest' = inSelfTest
  BY DEF Waits, Said, Down
<1>4. /\ Longest \in Nat /\ Gap \in Nat /\ MaxRead \in Nat /\ maxtime \in Nat /\ killdelay \in Nat
      /\ ShutTimer \in Nat /\ AgeCap \in Nat /\ onbattdelay \in Nat /\ SelfTestLimit \in Nat
      /\ onbattdelay < AgeCap /\ SelfTestLimit < AgeCap /\ maxtime < AgeCap /\ ShutTimer < AgeCap
      /\ AnnounceDeadline = Longest + Gap + MaxRead
  BY Limits, ReadsEnd
<1>5. SinceOnLine(c)'
  <2>1. L \in Nat /\ LL \in Nat /\ (LL = L + d \/ LL = AgeCap)
    BY <1>2
  <2>2. h <= L \/ L >= onbattdelay => hh <= LL \/ LL >= onbattdelay
    <3> HIDE DEF h, hh, L, LL
    <3> QED
      BY <1>1, <1>4, <2>1
  <2> QED
    BY <1>3, <2>2 DEF Bounded, SinceOnLine
<1>6. SinceSaid(c)'
  <2>1. L \in Nat /\ LL \in Nat /\ (LL = L + d \/ LL = AgeCap)
    BY <1>2
  <2>2. h <= L + (Longest + Gap) \/ L > maxtime => hh <= LL + (Longest + Gap) \/ LL > maxtime
    <3> HIDE DEF h, hh, L, LL
    <3> QED
      BY <1>1, <1>4, <2>1
  <2> QED
    BY <1>3, <2>2 DEF Bounded, SinceSaid
<1>7. SinceTest(c)'
  <2>1. T \in Nat /\ TT \in Nat /\ (TT = T + d \/ TT = AgeCap)
    BY <1>2
  <2>2. h <= T \/ T >= SelfTestLimit => hh <= TT \/ TT >= SelfTestLimit
    <3> HIDE DEF h, hh, T, TT
    <3> QED
      BY <1>1, <1>4, <2>1
  <2> QED
    BY <1>3, <2>2 DEF Bounded, SinceTest
<1>8. ASSUME NEW k \in Nat, h <= k + s PROVE hh <= k + ss
  <2> HIDE DEF h, hh, s, ss
  <2> QED
    BY <1>1, <1>8
<1>9. Unsaid(c)'
  BY <1>3, <1>4, <1>8 DEF Bounded, Unsaid
<1>10. OnBatteryFor(c)'
  <2>1. S \in Nat /\ SS \in Nat /\ SS <= S + d
    BY <1>2
  <2>2. S <= killdelay + s => SS <= killdelay + ss
    <3> HIDE DEF s, ss, S, SS
    <3> QED
      BY <1>1, <1>4, <2>1
  <2>3. maxtime + Longest + Gap \in Nat /\ Longest + Gap \in Nat
    BY <1>4
  <2> QED
    BY <1>3, <1>8, <2>2, <2>3 DEF Bounded, OnBatteryFor
<1>11. BattLowFor(c)'
  <2> SUFFICES ASSUME c = "battlow" PROVE BattLowFor(c)'
    BY DEF BattLowFor
  <2>1. B \in Nat /\ BB \in Nat /\ (BB = B + d \/ BB = AgeCap)
    BY <1>2
  <2>2. /\ h <= B \/ B >= ShutTimer => hh <= BB \/ BB >= ShutTimer
        /\ h < ShutTimer + s => hh < ShutTimer + ss
        /\ h < ShutTimer + Before + s => hh < ShutTimer + Before + ss
    <3> HIDE DEF h, hh, s, ss, B, BB
    <3> QED
      BY <1>1, <1>4, <2>1
  <2> QED
    BY <1>1, <1>3, <2>2 DEF Bounded, BattLowFor
<1>12. ASSUME NEW flag, NEW t \in {"start_shut_load", "start_shut_ltime"},
              flag \in Status' <=> flag \in Status, Crossed(h, flag, t)
       PROVE  Crossed(heldFor[c], flag, t)'
  <2> DEFINE C == age[t]
             CC == age'[t]
             A == AnnounceDeadline
  <2>1. C \in Nat /\ CC \in Nat /\ (CC = C + d \/ CC = AgeCap)
    BY <1>2
  <2>2. h <= C + A \/ C >= ShutTimer => hh <= CC + A \/ CC >= ShutTimer
    <3>1. A \in Nat
      BY <1>4
    <3> HIDE DEF h, hh, C, CC, A
    <3> QED
      BY <1>1, <1>4, <2>1, <3>1
  <2>3. h <= Longest + Before + s => hh <= Longest + Before + ss
    BY <1>1, <1>4, <1>8
  <2>4. h <= (A + ShutTimer) + s => hh <= (A + ShutTimer) + ss
    BY <1>1, <1>4, <1>8
  <2> QED
    BY <1>1, <1>12, <2>2, <2>3, <2>4 DEF Crossed
<1>13. LimitFor(c)'
  BY <1>3, <1>12 DEF Bounded, LimitFor
<1> QED
  BY <1>5, <1>6, <1>7, <1>9, <1>10, <1>11, <1>13 DEF Bounded

(* What the history makes of a step of d seconds.                          *)
LEMMA Observed ==
    ASSUME TypeOK, NEW d \in Nat, Observe(d), NEW c \in Watched
    PROVE  /\ heldFor'[c] <= heldFor[c] + d
           /\ ~Holds(c) \/ ~Holds(c)' => heldFor'[c] = 0
           /\ heldFor[c] = 0 /\ d = 0 => heldFor'[c] = 0
<1>1. heldFor'[c] = IF Holds(c) /\ Holds(c)' THEN HistCapped(heldFor[c] + d) ELSE 0
  BY DEF Observe
<1>2. heldFor[c] \in Nat /\ heldFor[c] <= HistCap /\ HistCap \in Nat
  BY HistoryAssumption DEF TypeOK
<1>3. HistCapped(heldFor[c] + d) <= heldFor[c] + d /\ (heldFor[c] = 0 /\ d = 0 => HistCapped(heldFor[c] + d) = 0)
  BY <1>2 DEF HistCapped
<1> HIDE DEF Holds
<1> QED
  BY <1>1, <1>2, <1>3

(* Only on battery does a clock run.                                       *)
LEMMA HoldsOnBattery ==
    ASSUME NEW c
    PROVE  /\ Holds(c) => "onbatt" \in Status
           /\ Holds(c)' => "onbatt" \in Status'
           /\ c = "battlow" /\ Holds(c) => "battlow" \in Status
           /\ c = "battlow" /\ Holds(c)' => "battlow" \in Status'
           /\ c = "charge" /\ Holds(c) => LowCharge
           /\ c = "runtime" /\ Holds(c) => LowRuntime
  BY DEF Holds

(* A step of d seconds between two passes, or Enter: either no clock runs, *)
(* or it is waited for.                                                    *)
Elapses(c) == heldFor'[c] = 0 \/ \E d \in Nat : Waits(c, d) /\ heldFor'[c] <= heldFor[c] + d

LEMMA FillElapses ==
    ASSUME TypeOK, PlainReadings, PollsFast, \A c \in Watched : JustBegun(c),
           NEW d \in ReadSecs, fillUPS(d), Observe(d)
    PROVE  PollsFast' /\ \A c \in Watched : JustBegun(c)' /\ Elapses(c)
<1>0. d \in Nat /\ d <= MaxRead /\ MaxRead \in Nat
  BY ReadsEnd
<1>1. /\ pc = "fill" /\ pc' = "enter2" /\ age' = Aged(d)
      /\ UNCHANGED <<PrevStatus, first, inSelfTest>>
  BY DEF fillUPS
<1>2. \A b \in {"onbatt_msg", "shutdown", "shut_load", "shut_ltime", "fastpoll"} :
         b \in Status' <=> b \in Status
  <2>1. \A r \in Readings : r.bits \subseteq DriverBits
    BY LoopAssumption DEF ReadingType
  <2>2. ASSUME NEW b, b \notin DriverBits PROVE b \in Status' <=> b \in Status
    BY <2>1, <2>2 DEF fillUPS, FillStatus
  <2>3. \A b \in {"onbatt_msg", "shutdown", "shut_load", "shut_ltime", "fastpoll"} : b \notin DriverBits
    BY DEF DriverBits
  <2> QED
    BY <2>2, <2>3
<1>3. "shut_remote" \notin Status' /\ "calibration" \notin Status'
  BY DEF fillUPS, FillStatus, PollsFast, PlainReadings
<1>4. PollsFast'
  <2>1. ~first'
    BY <1>1 DEF PollsFast
  <2>2. "onbatt" \in PrevStatus' => "fastpoll" \in Status'
    BY <1>1, <1>2 DEF PollsFast
  <2> QED
    BY <1>1, <1>3, <2>1, <2>2 DEF PollsFast
<1>5. ASSUME NEW c \in Watched PROVE JustBegun(c)' /\ Elapses(c)
  <2>1. /\ heldFor'[c] <= heldFor[c] + d
        /\ ~Holds(c) \/ ~Holds(c)' => heldFor'[c] = 0
    BY <1>0, Observed
  <2>2. Onset' => ~Holds(c)
    BY <1>1, HoldsOnBattery DEF PollsFast, Onset
  <2>3. c = "battlow" /\ Lowers' => ~Holds(c)
    BY <1>1, HoldsOnBattery DEF PollsFast, Lowers
  <2>4. JustBegun(c)'
    BY <2>1, <2>2, <2>3 DEF JustBegun
  <2>5. Waits(c, d)
    <3>1. Slack + d <= Slack' /\ Before' = Before
      BY <1>0, <1>1, ReadsEnd DEF Slack, Before
    <3>2. \A t \in Timers : age'[t] = Capped(age[t] + d)
      BY <1>1 DEF Aged
    <3>3. \A t \in {"last_time_on_line", "SelfTest", "ShutDown", "start_shut_load", "start_shut_ltime",
                     "start_shut_lbatt"} : age'[t] = Capped(age[t] + d)
      BY <3>2 DEF Timers
    <3>4. inSelfTest' = inSelfTest
      BY <1>1
    <3> QED
      BY <1>2, <3>1, <3>3, <3>4 DEF Waits
  <2> QED
    BY <1>0, <2>1, <2>4, <2>5 DEF Elapses
<1> QED
  BY <1>4, <1>5

LEMMA StartElapses ==
    ASSUME TypeOK, PollsFast, \A c \in Watched : JustBegun(c),
           StartCheck, Observe(0)
    PROVE  PollsFast' /\ \A c \in Watched : JustBegun(c)' /\ Elapses(c)
<1>1. /\ pc = "check" /\ pc' = "poll" /\ age' = age
      /\ UNCHANGED <<Status, PrevStatus, first, inSelfTest>> /\ wait_left' = device_wait_time
  BY DEF StartCheck
<1>2. "onbatt" \in Status => wait_left' = TIMER_FAST
  <2>1. "onbatt" \in Status => "fastpoll" \in Status
    BY <1>1 DEF PollsFast
  <2>2. datatime \in Nat /\ stattime \in Nat
    BY LoopAssumption
  <2> QED
    BY <1>1, <2>1, <2>2 DEF device_wait_time, AtMost, TIMER_FAST
<1>3. PollsFast'
  BY <1>1, <1>2 DEF PollsFast, Onset, Lowers, TIMER_FAST
<1>4. ASSUME NEW c \in Watched PROVE JustBegun(c)' /\ Elapses(c)
  <2>1. /\ heldFor'[c] <= heldFor[c] + 0
        /\ ~Holds(c) \/ ~Holds(c)' => heldFor'[c] = 0
    BY Observed
  <2>2. JustBegun(c)'
    BY <1>1, <1>3, <2>1 DEF JustBegun, PollsFast, Onset
  <2>3. "onbatt" \in Status => Waits(c, 0)
    <3>1. "onbatt" \in Status => Slack + 0 <= Slack'
      BY <1>1, <1>2 DEF Slack, TIMER_FAST
    <3>2. Before' = Before
      BY <1>1 DEF Before
    <3>3. \A t \in Timers : age'[t] = Capped(age[t] + 0)
      <4>1. \A t \in Timers : age[t] \in Nat /\ age[t] <= AgeCap
        BY <2>1, ClocksAre
      <4> QED
        BY <1>1, <4>1, Limits DEF Capped
    <3> QED
      BY <1>1, <3>1, <3>2, <3>3 DEF Waits, Timers
  <2> QED
    BY <2>1, <2>2, <2>3, HoldsOnBattery DEF Elapses
<1> QED
  BY <1>3, <1>4

LEMMA TimeoutElapses ==
    ASSUME TypeOK, PollsFast, \A c \in Watched : JustBegun(c),
           CheckTimeout, Observe(0)
    PROVE  PollsFast' /\ \A c \in Watched : JustBegun(c)' /\ Elapses(c)
<1>1. /\ pc = "poll" /\ wait_left = 0 /\ pc' = "enter1" /\ age' = age
      /\ UNCHANGED <<Status, PrevStatus, first, inSelfTest>>
  BY DEF CheckTimeout, pollFrame
<1>2. PollsFast' /\ ~Onset' /\ ~Lowers'
  BY <1>1 DEF PollsFast, Onset, Lowers
<1>3. ASSUME NEW c \in Watched PROVE JustBegun(c)' /\ Elapses(c)
  <2>1. /\ heldFor'[c] <= heldFor[c] + 0
        /\ ~Holds(c) \/ ~Holds(c)' => heldFor'[c] = 0
    BY Observed
  <2>2. JustBegun(c)'
    BY <1>1, <1>2, <2>1 DEF JustBegun
  <2>3. Waits(c, 0)
    <3>1. Slack' = Slack /\ Before' = Before
      BY <1>1 DEF Slack, Before
    <3>2. \A t \in Timers : age'[t] = Capped(age[t] + 0)
      <4>1. \A t \in Timers : age[t] \in Nat /\ age[t] <= AgeCap
        BY <2>1, ClocksAre
      <4> QED
        BY <1>1, <4>1, Limits DEF Capped
    <3>3. Slack + 0 <= Slack'
      BY <3>1, SlackIs
    <3> QED
      BY <1>1, <3>1, <3>2, <3>3 DEF Waits, Timers
  <2> QED
    BY <2>1, <2>2, <2>3 DEF Elapses
<1> QED
  BY <1>2, <1>3

LEMMA ChangedElapses ==
    ASSUME TypeOK, PollsFast, \A c \in Watched : JustBegun(c),
           NEW d \in ReadSecs, CheckChanged(d), Observe(d)
    PROVE  PollsFast' /\ \A c \in Watched : JustBegun(c)' /\ Elapses(c)
<1>0. d \in Nat
  BY ReadsEnd
<1>1. /\ pc = "poll" /\ pc' = "enter1" /\ UNCHANGED <<PrevStatus, first>>
      /\ Status' = Answered(IF "onbatt" \in Status THEN Status \ {"onbatt"} ELSE Status \cup {"onbatt"})
  BY DEF CheckChanged, pollFrame
<1>2. /\ "onbatt" \in Status' <=> "onbatt" \notin Status
      /\ \A b \in {"shut_remote", "calibration", "battlow", "fastpoll"} : b \in Status' <=> b \in Status
  BY <1>1 DEF Answered
<1>3. PollsFast'
  BY <1>1, <1>2 DEF PollsFast, Onset, Lowers
<1>4. ASSUME NEW c \in Watched PROVE JustBegun(c)' /\ Elapses(c)
  <2>1. heldFor'[c] = 0
    BY <1>0, <1>2, Observed, HoldsOnBattery
  <2> QED
    BY <2>1 DEF JustBegun, Elapses
<1> QED
  BY <1>3, <1>4

LEMMA SameElapses ==
    ASSUME TypeOK, PollsFast, \A c \in Watched : JustBegun(c),
           NEW d \in ReadSecs, CheckSame(d), Observe(d + 1)
    PROVE  PollsFast' /\ \A c \in Watched : JustBegun(c)' /\ Elapses(c)
<1>0. d \in Nat /\ d + 1 \in Nat /\ d <= MaxRead /\ MaxRead \in Nat /\ Gap = MaxRead + 1
  BY ReadsEnd
<1>1. /\ pc = "poll" /\ pc' = "poll" /\ age' = Aged(d + 1) /\ wait_left > 0
      /\ UNCHANGED <<PrevStatus, first, inSelfTest>> /\ wait_left' = Minus(wait_left, d + 1)
  BY DEF CheckSame, pollFrame
<1>2. \A b \in {"onbatt_msg", "shutdown", "shut_load", "shut_ltime", "fastpoll", "onbatt",
               "battlow", "shut_remote", "calibration"} : b \in Status' <=> b \in Status
  <2>1. ASSUME NEW b, b # "commlost" PROVE b \in Status' <=> b \in Status
    BY <2>1 DEF CheckSame, Answered
  <2> QED
    BY <2>1
<1>3. "onbatt" \in Status => wait_left' = 0
  BY <1>0, <1>1 DEF PollsFast, TIMER_FAST, Minus, TypeOK
<1>4. PollsFast'
  <2>1. ~first'
    BY <1>1 DEF PollsFast
  <2>2. ("onbatt" \in Status' <=> "onbatt" \in PrevStatus') /\ ~Lowers'
    BY <1>1, <1>2 DEF PollsFast, Lowers
  <2>3. "onbatt" \in Status' => "fastpoll" \in Status'
    BY <1>1, <1>2 DEF PollsFast
  <2>4. "onbatt" \in Status' => wait_left' <= TIMER_FAST
    BY <1>2, <1>3 DEF TIMER_FAST
  <2>5. "shut_remote" \notin Status' /\ "calibration" \notin Status'
    BY <1>2 DEF PollsFast
  <2> QED
    BY <2>1, <2>2, <2>3, <2>4, <2>5 DEF PollsFast
<1>5. ASSUME NEW c \in Watched PROVE JustBegun(c)' /\ Elapses(c)
  <2>1. /\ heldFor'[c] <= heldFor[c] + (d + 1)
        /\ ~Holds(c) \/ ~Holds(c)' => heldFor'[c] = 0
    BY <1>0, Observed
  <2>2. JustBegun(c)'
    BY <1>1, <1>4, <2>1 DEF JustBegun, PollsFast, Onset
  <2>3. "onbatt" \in Status => Waits(c, d + 1)
    <3>1. "onbatt" \in Status => Slack + (d + 1) <= Slack'
      <4>1. Slack = 0
        BY <1>1 DEF Slack
      <4>2. "onbatt" \in Status => Slack' = Gap
        BY <1>1, <1>3 DEF Slack
      <4> QED
        BY <1>0, <4>1, <4>2
    <3>2. Before' = Before
      BY <1>1 DEF Before
    <3>3. \A t \in Timers : age'[t] = Capped(age[t] + (d + 1))
      BY <1>1 DEF Aged
    <3>4. \A t \in {"last_time_on_line", "SelfTest", "ShutDown", "start_shut_load", "start_shut_ltime",
                     "start_shut_lbatt"} : age'[t] = Capped(age[t] + (d + 1))
      BY <3>3 DEF Timers
    <3>5. inSelfTest' = inSelfTest
      BY <1>1
    <3> QED
      BY <1>2, <3>1, <3>2, <3>4, <3>5 DEF Waits
  <2> QED
    BY <1>0, <2>1, <2>2, <2>3, HoldsOnBattery DEF Elapses
<1> QED
  BY <1>4, <1>5

(* The first half of a pass.                                               *)
LEMMA EnterElapses ==
    ASSUME TypeOK, PollsFast, \A c \in Watched : JustBegun(c),
           Enter, Observe(0)
    PROVE  PollsFast' /\ \A c \in Watched : JustBegun(c)' /\ Elapses(c)
<1>1. /\ pc \in {"enter1", "enter2"} /\ pc' = IF pc = "enter1" THEN "case1" ELSE "case2"
      /\ first' = FALSE /\ PrevStatus' = EnterPrev /\ Status' = EnterStatus
      /\ UNCHANGED <<inSelfTest, BattChg, TimeLeft>>
  BY DEF Enter, EnterCommon
<1>2. \A b \in {"onbatt_msg", "shutdown", "shut_load", "shut_ltime", "fastpoll", "onbatt",
               "battlow", "shut_remote", "calibration"} : b \in Status' <=> b \in Status
  <2>1. ASSUME NEW b, b # "replacebatt" PROVE b \in Status' <=> b \in Status
    BY <1>1, <2>1 DEF EnterStatus
  <2> QED
    BY <2>1
<1>3. /\ first => "onbatt" \notin PrevStatus' /\ "onbatt" \notin PrevStatus
      /\ ~first => PrevStatus' = PrevStatus
  BY <1>1 DEF EnterPrev, PollsFast
<1>4. PollsFast'
  <2>1. "onbatt" \in Status' /\ "onbatt" \in PrevStatus' => "fastpoll" \in Status'
    <3>1. CASE first
      BY <1>3, <3>1
    <3>2. CASE ~first
      BY <1>2, <1>3, <3>2 DEF PollsFast
    <3> QED
      BY <3>1, <3>2
  <2>2. "shut_remote" \notin Status' /\ "calibration" \notin Status'
    BY <1>2 DEF PollsFast
  <2> QED
    BY <1>1, <2>1, <2>2 DEF PollsFast
<1>5. ASSUME NEW c \in Watched PROVE JustBegun(c)' /\ Elapses(c)
  <2>1. /\ heldFor'[c] <= heldFor[c] + 0
        /\ ~Holds(c) \/ ~Holds(c)' => heldFor'[c] = 0
        /\ heldFor[c] = 0 => heldFor'[c] = 0
    BY Observed
  <2>2. Onset' => Onset
    <3>1. CASE first
      BY <1>2, <1>3, <3>1 DEF Onset
    <3>2. CASE ~first
      BY <1>2, <1>3, <3>2 DEF Onset
    <3> QED
      BY <3>1, <3>2
  <2>3. JustBegun(c)'
    BY <1>1, <2>1, <2>2 DEF JustBegun
  <2>4. first => heldFor'[c] = 0
    <3>1. first /\ "onbatt" \in Status => Onset
      BY <1>3 DEF Onset
    <3> QED
      BY <2>1, <3>1, HoldsOnBattery DEF JustBegun
  <2>5. c = "battlow" /\ LowBattRises => heldFor'[c] = 0
    <3>1. LowBattRises => Lowers
      BY DEF LowBattRises, Lowers, EnterPrev, PollsFast
    <3> QED
      BY <1>1, <2>1, <3>1 DEF JustBegun
  <2>6. ~first /\ ~(c = "battlow" /\ LowBattRises) => Waits(c, 0)
    <3>1. Slack' = Slack /\ Before' = Before
      BY <1>1 DEF Slack, Before
    <3>2. Slack + 0 <= Slack'
      BY <3>1, SlackIs
    <3>3. ASSUME ~first PROVE \A t \in Timers \ {"last_time_changeme", "start_shut_lbatt"} : age'[t] = age[t]
      BY <3>3 DEF Enter, EnterAges, Stamped
    <3>4. ASSUME ~first, ~LowBattRises PROVE age'["start_shut_lbatt"] = age["start_shut_lbatt"]
      BY <3>4 DEF Enter, EnterAges, Stamped, Timers
    <3>5. \A t \in Timers : age[t] = Capped(age[t] + 0)
      <4>1. \A t \in Timers : age[t] \in Nat /\ age[t] <= AgeCap
        BY <2>1, ClocksAre
      <4> QED
        BY <4>1, Limits DEF Capped
    <3>6. ASSUME ~first
          PROVE  \A t \in {"last_time_on_line", "SelfTest", "ShutDown", "start_shut_load",
                            "start_shut_ltime"} : age'[t] = Capped(age[t] + 0)
      BY <3>3, <3>5, <3>6 DEF Timers
    <3>7. ASSUME ~first, ~LowBattRises
          PROVE  age'["start_shut_lbatt"] = Capped(age["start_shut_lbatt"] + 0)
      BY <3>4, <3>5, <3>7 DEF Timers
    <3>8. inSelfTest' = inSelfTest
      BY <1>1
    <3> QED
      BY <1>2, <3>1, <3>2, <3>6, <3>7, <3>8 DEF Waits
  <2> QED
    BY <2>1, <2>3, <2>4, <2>5, <2>6 DEF Elapses
<1> QED
  BY <1>4, <1>5

(* The switch of do_action(): where it leaves the loop, and what it finds. *)
LEMMA SwitchFrame ==
    ASSUME pc \in {"case1", "case2"}, pc' = Return(pc), PrevStatus' = Status'
    PROVE  /\ Slack' = 0 /\ Before' = Slack
           /\ ~Onset' /\ pc' \in {"fill", "check"}
<1>1. (pc = "case1" /\ pc' = "fill") \/ (pc = "case2" /\ pc' = "check")
  <2>1. CASE pc = "case1"
    BY <2>1 DEF Return
  <2>2. CASE pc = "case2"
    BY <2>2 DEF Return
  <2> QED
    BY <2>1, <2>2
<1>2. Slack' = 0 /\ Before' = Slack
  BY <1>1 DEF Slack, Before
<1> QED
  BY <1>1, <1>2 DEF Onset

LEMMA SwitchPolls ==
    ASSUME TypeOK, pc \in {"case1", "case2"}, pc' = Return(pc), PrevStatus' = Status', first' = first,
           PollsFast, "shut_remote" \notin Status', "calibration" \notin Status',
           "onbatt" \in Status' => "fastpoll" \in Status', Observe(0)
    PROVE  /\ PollsFast'
           /\ \A c \in Watched : JustBegun(c)' /\ heldFor'[c] <= heldFor[c]
           /\ \A c \in Watched : ~Holds(c) \/ ~Holds(c)' \/ heldFor[c] = 0 => heldFor'[c] = 0
<1>1. ~Onset' /\ pc' \in {"fill", "check"}
  BY SwitchFrame
<1>2. PollsFast'
  <2>1. ~first'
    BY DEF PollsFast
  <2>2. ~Lowers'
    BY DEF Lowers
  <2> QED
    BY <1>1, <2>1, <2>2 DEF PollsFast
<1>3. ASSUME NEW c \in Watched
      PROVE  /\ JustBegun(c)' /\ heldFor'[c] <= heldFor[c]
             /\ ~Holds(c) \/ ~Holds(c)' \/ heldFor[c] = 0 => heldFor'[c] = 0
  <2>1. /\ heldFor'[c] <= heldFor[c] + 0
        /\ ~Holds(c) \/ ~Holds(c)' => heldFor'[c] = 0
        /\ heldFor[c] = 0 => heldFor'[c] = 0
    BY Observed
  <2>2. heldFor[c] \in Nat
    BY ClocksAre
  <2>3. JustBegun(c)'
    BY <1>1, <2>1 DEF JustBegun
  <2> QED
    BY <2>1, <2>2, <2>3
<1> QED
  BY <1>2, <1>3

(* On battery for the first time, or no longer: no clock runs.             *)
LEMMA CaseRests ==
    ASSUME TypeOK, TypeOK', ShutTimer > 0, PollsFast, \A c \in Watched : JustBegun(c),
           Observe(0), OnMains \/ MainsBack \/ CheckSelfTest
    PROVE  PollsFast' /\ \A c \in Watched : JustBegun(c)' /\ Bounded(c)'
<1>1. /\ pc \in {"case1", "case2"} /\ pc' = Return(pc) /\ PrevStatus' = Status' /\ first' = first
      /\ "onbatt" \notin Status \/ Onset
  <2>1. CASE OnMains
    BY <2>1 DEF OnMains, InCase, Leave
  <2>2. CASE MainsBack
    BY <2>2 DEF MainsBack, InCase, Leave
  <2>3. CASE CheckSelfTest
    BY <2>3 DEF CheckSelfTest, PowerFailure, InCase, Leave, Changed, Onset
  <2> QED
    BY <2>1, <2>2, <2>3
<1>2. /\ "shut_remote" \notin Status' /\ "calibration" \notin Status'
      /\ "onbatt" \in Status' => "fastpoll" \in Status'
  <2>1. CASE OnMains
    BY <2>1 DEF OnMains, InCase, PollsFast
  <2>2. CASE MainsBack
    BY <2>2 DEF MainsBack, InCase, PollsFast
  <2>3. CASE CheckSelfTest
    BY <2>3 DEF CheckSelfTest, PowerFailure, Refreshed, PollsFast
  <2> QED
    BY <2>1, <2>2, <2>3
<1>3. PollsFast' /\ \A c \in Watched : JustBegun(c)'
  BY <1>1, <1>2, SwitchPolls
<1>4. ASSUME NEW c \in Watched PROVE Bounded(c)'
  <2>1. "onbatt" \notin Status => ~Holds(c)
    BY HoldsOnBattery
  <2>2. Onset => heldFor[c] = 0
    BY DEF JustBegun
  <2>3. heldFor'[c] = 0
    BY <1>1, <1>2, <2>1, <2>2, SwitchPolls
  <2> QED
    BY <2>3, AtRest
<1> QED
  BY <1>3, <1>4

(* What every case on battery, other than the first, does not touch.       *)
BatteryFrame ==
    /\ pc \in {"case1", "case2"} /\ pc' = Return(pc) /\ PrevStatus' = Status' /\ first' = first
    /\ "onbatt" \in Status /\ "onbatt" \in PrevStatus
    /\ \A b \in {"shut_remote", "calibration", "fastpoll"} : b \in Status' <=> b \in Status

LEMMA BatteryPolls ==
    ASSUME TypeOK, PollsFast, BatteryFrame, Observe(0)
    PROVE  /\ PollsFast' /\ Slack' = 0 /\ Before' = Slack
           /\ \A c \in Watched : JustBegun(c)' /\ heldFor'[c] <= heldFor[c]
           /\ \A c \in Watched : ~Holds(c) \/ ~Holds(c)' \/ heldFor[c] = 0 => heldFor'[c] = 0
<1>1. /\ "shut_remote" \notin Status' /\ "calibration" \notin Status'
      /\ "onbatt" \in Status' => "fastpoll" \in Status'
  BY DEF BatteryFrame, PollsFast
<1>2. Slack' = 0 /\ Before' = Slack
  BY SwitchFrame DEF BatteryFrame
<1> QED
  BY <1>1, <1>2, SwitchPolls DEF BatteryFrame

LEMMA SelfTestFrame ==
    ASSUME PollsFast, SelfTestRuns
    PROVE  BatteryFrame
  BY DEF SelfTestRuns, InCase, Changed, Leave, PollsFast, BatteryFrame

LEMMA AnnounceFrame ==
    ASSUME PollsFast, OnBatteryAnnounce
    PROVE  BatteryFrame
  BY DEF OnBatteryAnnounce, InBattery, InCase, Changed, Leave, PollsFast, BatteryFrame

(* A self test in progress has not lasted longer than the clock that       *)
(* cancels it, and the battery is not low.                                 *)
LEMMA SelfTestBounded ==
    ASSUME TypeOK, TypeOK', ShutTimer > 0, PollsFast, Observe(0), SelfTestRuns,
           NEW c \in Watched, Bounded(c)
    PROVE  Bounded(c)'
<1>1. BatteryFrame
  BY SelfTestFrame
<1>2. /\ inSelfTest /\ age' = age /\ Status' = Status /\ inSelfTest' = inSelfTest
      /\ ~(age["SelfTest"] >= SelfTestLimit) /\ "battlow" \notin Status
  BY DEF SelfTestRuns, InCase, SelfTestCancelled, PollsFast
<1>3. /\ heldFor'[c] <= heldFor[c] /\ Slack' = 0
      /\ ~Holds(c) => heldFor'[c] = 0
  BY <1>1, BatteryPolls
<1>4. CASE c = "battlow"
  <2>1. ~Holds(c)
    BY <1>2, <1>4, HoldsOnBattery
  <2> QED
    BY <1>3, <2>1, AtRest
<1>5. CASE c # "battlow"
  <2> DEFINE h == heldFor[c]
             hh == heldFor'[c]
             T == age["SelfTest"]
             L == OnLine
             A == AnnounceDeadline
             b == Before'
             s == Slack'
             C == age["start_shut_load"]
             D == age["start_shut_ltime"]
  <2>1. {h, hh, T, L, b, C, D, A} \subseteq Nat /\ s = 0 /\ hh <= h
    <3>1. h \in Nat /\ L \in Nat /\ T \in Nat /\ C \in Nat /\ D \in Nat
      BY ClocksAre DEF Timers
    <3>2. hh \in Nat /\ b \in Nat /\ A \in Nat
      BY ClocksNext, SlackIs, Limits, ReadsEnd
    <3> QED
      BY <1>3, <3>1, <3>2
  <2>2. /\ {Longest, Gap, MaxRead, maxtime, ShutTimer, onbattdelay, SelfTestLimit} \subseteq Nat
        /\ A = Longest + Gap + MaxRead /\ SelfTestLimit <= Longest
    BY Limits, ReadsEnd
  <2>3. OnLine' = L /\ Said' = Said /\ Down' = Down
    BY <1>2 DEF OnLine, Said, Down
  <2>4. h <= T /\ ~(T >= SelfTestLimit)
    BY <1>2 DEF Bounded, SinceTest
  <2>5. /\ ~Said => h <= L \/ L >= onbattdelay
        /\ Said => h <= L + (Longest + Gap) \/ L > maxtime
    BY DEF Bounded, SinceOnLine, SinceSaid
  <2>6. /\ ~Down /\ c = "charge" /\ "shut_load" \in Status => h <= C + A \/ C >= ShutTimer
        /\ ~Down /\ c = "runtime" /\ "shut_ltime" \in Status => h <= D + A \/ D >= ShutTimer
    BY DEF Bounded, LimitFor, Crossed
  <2>7. /\ hh <= Longest + s /\ hh <= (maxtime + Longest + Gap) + s /\ hh <= (Longest + Gap) + s
        /\ hh <= Longest + b + s /\ hh <= (A + ShutTimer) + s /\ hh <= T
    <3> HIDE DEF h, hh, T, L, A, b, s, C, D
    <3>1. hh <= Longest
      BY <2>1, <2>2, <2>4
    <3> QED
      BY <2>1, <2>2, <2>4, <3>1
  <2>8. /\ h <= L \/ L >= onbattdelay => hh <= L \/ L >= onbattdelay
        /\ h <= L + (Longest + Gap) \/ L > maxtime => hh <= L + (Longest + Gap) \/ L > maxtime
        /\ h <= C + A \/ C >= ShutTimer => hh <= C + A \/ C >= ShutTimer
        /\ h <= D + A \/ D >= ShutTimer => hh <= D + A \/ D >= ShutTimer
    <3> HIDE DEF h, hh, T, L, A, b, s, C, D
    <3> QED
      BY <2>1, <2>2
  <2>9. SinceOnLine(c)' /\ SinceSaid(c)' /\ SinceTest(c)' /\ Unsaid(c)'
    BY <1>2, <2>3, <2>5, <2>7, <2>8 DEF SinceOnLine, SinceSaid, SinceTest, Unsaid
  <2>10. OnBatteryFor(c)' /\ BattLowFor(c)'
    BY <1>5, <2>7 DEF OnBatteryFor, BattLowFor
  <2>11. LimitFor(c)'
    BY <1>2, <2>3, <2>6, <2>7, <2>8 DEF LimitFor, Crossed
  <2> QED
    BY <2>9, <2>10, <2>11 DEF Bounded
<1> QED
  BY <1>4, <1>5

(* The failure is announced, and the timers start over.                    *)
LEMMA AnnounceBounded ==
    ASSUME TypeOK, TypeOK', ShutTimer > 0, PollsFast, Observe(0), OnBatteryAnnounce,
           NEW c \in Watched, Bounded(c)
    PROVE  Bounded(c)'
<1>1. BatteryFrame
  BY AnnounceFrame
<1>2. /\ ~Said /\ Said' /\ ~inSelfTest'
      /\ age'["last_time_on_line"] = 0
      /\ \A t \in {"start_shut_lbatt", "start_shut_load", "start_shut_ltime", "ShutDown"} : age'[t] = age[t]
      /\ \A f \in {"shutdown", "shut_load", "shut_ltime"} : f \in Status' <=> f \in Status
  BY DEF OnBatteryAnnounce, InBattery, AnnounceDue, Stamped, Timers, OnLineTimers, Said
<1>3. /\ heldFor'[c] <= heldFor[c] /\ Slack' = 0 /\ Before' = Slack
  BY <1>1, BatteryPolls
<1> DEFINE h == heldFor[c]
           hh == heldFor'[c]
           A == AnnounceDeadline
           b == Before'
           s == Slack'
           k == Slack
           B == age["start_shut_lbatt"]
           C == age["start_shut_load"]
           D == age["start_shut_ltime"]
           L == OnLine'
<1>4. {h, hh, b, k, B, C, D, A} \subseteq Nat /\ s = 0 /\ hh <= h /\ b = k /\ k <= Gap /\ L = 0
  <2>1. h \in Nat /\ B \in Nat /\ C \in Nat /\ D \in Nat
    BY ClocksAre DEF Timers
  <2>2. hh \in Nat /\ b \in Nat /\ k \in Nat /\ k <= Gap /\ A \in Nat /\ L = 0
    BY <1>2, ClocksNext, SlackIs, Limits, ReadsEnd
  <2> QED
    BY <1>3, <2>1, <2>2
<1>5. /\ {Longest, Gap, MaxRead, maxtime, ShutTimer} \subseteq Nat
      /\ A = Longest + Gap + MaxRead
  BY Limits, ReadsEnd
<1>6. h <= Longest + k
  BY <1>2 DEF Bounded, Unsaid
<1>7. ~Down /\ c = "battlow" => (h <= B \/ B >= ShutTimer) /\ h < ShutTimer + k
  BY <1>2 DEF Bounded, BattLowFor
<1>8. /\ ~Down /\ c = "charge" /\ "shut_load" \in Status => h <= C + A \/ C >= ShutTimer
      /\ ~Down /\ c = "runtime" /\ "shut_ltime" \in Status => h <= D + A \/ D >= ShutTimer
  BY DEF Bounded, LimitFor, Crossed
<1>9. /\ hh <= L + (Longest + Gap) /\ hh <= (maxtime + Longest + Gap) + s /\ hh <= (Longest + Gap) + s
      /\ hh <= Longest + b + s /\ hh <= (A + ShutTimer) + s
  <2> HIDE DEF h, hh, A, b, s, k, B, C, D, L
  <2>1. hh <= Longest + Gap
    BY <1>4, <1>5, <1>6
  <2> QED
    BY <1>4, <1>5, <1>6, <2>1
<1>10. /\ h <= B \/ B >= ShutTimer => hh <= B \/ B >= ShutTimer
       /\ h < ShutTimer + k => hh < ShutTimer + b + s
       /\ h <= C + A \/ C >= ShutTimer => hh <= C + A \/ C >= ShutTimer
       /\ h <= D + A \/ D >= ShutTimer => hh <= D + A \/ D >= ShutTimer
  <2> HIDE DEF h, hh, A, b, s, k, B, C, D, L
  <2> QED
    BY <1>4, <1>5
<1>11. SinceOnLine(c)' /\ SinceSaid(c)' /\ SinceTest(c)' /\ Unsaid(c)'
  BY <1>2, <1>9 DEF SinceOnLine, SinceSaid, SinceTest, Unsaid
<1>12. OnBatteryFor(c)'
  BY <1>9 DEF OnBatteryFor
<1>13. Down' <=> Down
  BY <1>2 DEF Down
<1>14. BattLowFor(c)'
  BY <1>2, <1>7, <1>10, <1>13 DEF BattLowFor
<1>15. LimitFor(c)'
  BY <1>2, <1>8, <1>9, <1>10, <1>13 DEF LimitFor, Crossed
<1> QED
  BY <1>11, <1>12, <1>14, <1>15 DEF Bounded

(* Before the failure is announced, the timer of ONBATTERYDELAY bounds the *)
(* clocks; after it, last_time_on_line.                                    *)
LEMMA UndueBounded ==
    ASSUME TypeOK, TypeOK', ~AnnounceDue, NEW c \in Watched, Bounded(c),
           heldFor'[c] <= heldFor[c], Slack' = 0,
           age'["last_time_on_line"] = age["last_time_on_line"], Said' = Said, inSelfTest' = FALSE
    PROVE  /\ SinceOnLine(c)' /\ SinceSaid(c)' /\ SinceTest(c)' /\ Unsaid(c)'
           /\ ~Said => heldFor'[c] <= Longest
           /\ Said => heldFor'[c] <= OnLine + (Longest + Gap) \/ OnLine > maxtime
<1> DEFINE h == heldFor[c]
           hh == heldFor'[c]
           L == OnLine
           s == Slack'
<1>1. /\ {h, hh, L} \subseteq Nat /\ s = 0 /\ hh <= h
      /\ {Longest, Gap, maxtime, onbattdelay} \subseteq Nat /\ onbattdelay <= Longest
  <2>1. h \in Nat /\ hh \in Nat /\ L \in Nat
    BY ClocksAre, ClocksNext
  <2> QED
    BY <2>1, Limits, ReadsEnd
<1>2. ~Said => h <= L /\ ~(L >= onbattdelay)
  BY DEF Bounded, SinceOnLine, AnnounceDue, Said, OnLine
<1>3. Said => h <= L + (Longest + Gap) \/ L > maxtime
  BY DEF Bounded, SinceSaid
<1>4. /\ h <= L /\ ~(L >= onbattdelay) => hh <= L /\ hh <= Longest /\ hh <= Longest + s
      /\ h <= L + (Longest + Gap) \/ L > maxtime => hh <= L + (Longest + Gap) \/ L > maxtime
  <2> HIDE DEF h, hh, L, s
  <2> QED
    BY <1>1
<1>5. OnLine' = L
  BY DEF OnLine
<1> QED
  BY <1>2, <1>3, <1>4, <1>5 DEF SinceOnLine, SinceSaid, SinceTest, Unsaid

LEMMA DownEffect ==
    ASSUME pc' # "exited", OnBatteryShuttingDown \/ OnBatteryTimeout \/ OnBatteryLimit
    PROVE  /\ InBattery /\ ~AnnounceDue /\ first' = first /\ PrevStatus' = Status' /\ pc' = Return(pc)
           /\ Down' /\ age'["last_time_on_line"] = age["last_time_on_line"]
           /\ \A b \in {"shut_remote", "calibration", "onbatt_msg"} : b \in Status' <=> b \in Status
           /\ "fastpoll" \in Status => "fastpoll" \in Status'
           /\ killdelay > 0 => age'["ShutDown"] = 0 \/ (age'["ShutDown"] = age["ShutDown"] /\ ~(age["ShutDown"] >= killdelay))
<1>1. InBattery /\ ~AnnounceDue /\ first' = first /\ PrevStatus' = Status'
  BY DEF OnBatteryShuttingDown, OnBatteryTimeout, OnBatteryLimit, InBattery, InCase
<1>2. CASE OnBatteryShuttingDown
  <2>1. pc' = Return(pc) /\ Status' = Status /\ Down'
    BY <1>2 DEF OnBatteryShuttingDown, Down
  <2>2. age' = IF KillDue THEN Stamped(age, {"ShutDown"}) ELSE age
    BY <1>2 DEF OnBatteryShuttingDown
  <2>3. age'["last_time_on_line"] = age["last_time_on_line"]
    BY <2>2 DEF Stamped, Timers
  <2>4. killdelay > 0 => age'["ShutDown"] = 0 \/ (age'["ShutDown"] = age["ShutDown"] /\ ~(age["ShutDown"] >= killdelay))
    BY <2>2 DEF Stamped, Timers, KillDue
  <2> QED
    BY <1>1, <2>1, <2>3, <2>4
<1>3. ASSUME NEW st, NEW evs, NEW a, DoShutdown(st, evs, a), "shutdown" \notin st
      PROVE  pc' = Return(pc) /\ Status' = st \cup ShutdownBits /\ age' = Stamped(a, {"ShutDown"})
  BY <1>3 DEF DoShutdown, AlreadyDown
<1>4. CASE OnBatteryTimeout
  <2>1. /\ pc' = Return(pc) /\ Status' = (Status \cup {"shut_btime"}) \cup ShutdownBits
        /\ age' = Stamped(age, {"ShutDown"})
    BY <1>3, <1>4 DEF OnBatteryTimeout
  <2>2. /\ Down' /\ \A b \in {"shut_remote", "calibration", "onbatt_msg"} : b \in Status' <=> b \in Status
        /\ "fastpoll" \in Status'
    BY <2>1 DEF ShutdownBits, Down
  <2>3. age'["last_time_on_line"] = age["last_time_on_line"] /\ age'["ShutDown"] = 0
    BY <2>1 DEF Stamped, Timers
  <2> QED
    BY <1>1, <2>1, <2>2, <2>3
<1>5. CASE OnBatteryLimit
  <2>1. /\ pc' = Return(pc) /\ Status' = LimitStatus \cup ShutdownBits
        /\ age' = Stamped(LimitAges, {"ShutDown"})
    <3>1. "shutdown" \notin LimitStatus
      BY <1>5 DEF OnBatteryLimit, LimitStatus
    <3> QED
      BY <1>3, <1>5, <3>1 DEF OnBatteryLimit
  <2>2. /\ Down' /\ \A b \in {"shut_remote", "calibration", "onbatt_msg"} : b \in Status' <=> b \in Status
        /\ "fastpoll" \in Status'
    BY <2>1 DEF ShutdownBits, LimitStatus, Down
  <2>3. age'["last_time_on_line"] = age["last_time_on_line"] /\ age'["ShutDown"] = 0
    BY <2>1 DEF LimitAges, Stamped, Timers
  <2> QED
    BY <1>1, <2>1, <2>2, <2>3
<1> QED
  BY <1>2, <1>4, <1>5

LEMMA DownFrame ==
    ASSUME pc' # "exited", PollsFast, OnBatteryShuttingDown \/ OnBatteryTimeout \/ OnBatteryLimit
    PROVE  BatteryFrame
<1>1. pc \in {"case1", "case2"} /\ "onbatt" \in Status /\ "onbatt" \in PrevStatus
  BY DownEffect DEF InBattery, InCase, Changed, PollsFast
<1>2. "fastpoll" \in Status
  BY <1>1 DEF PollsFast
<1> QED
  BY DownEffect, <1>1, <1>2 DEF BatteryFrame

(* The system is going down, or the shutdown begins: the power is killed   *)
(* again in time.                                                          *)
LEMMA DownBounded ==
    ASSUME TypeOK, TypeOK', PollsFast, Observe(0), pc' # "exited",
           OnBatteryShuttingDown \/ OnBatteryTimeout \/ OnBatteryLimit,
           NEW c \in Watched, Bounded(c)
    PROVE  Bounded(c)'
<1>1. /\ InBattery /\ ~AnnounceDue /\ Down'
      /\ age'["last_time_on_line"] = age["last_time_on_line"]
      /\ "onbatt_msg" \in Status' <=> "onbatt_msg" \in Status
      /\ killdelay > 0 => \/ age'["ShutDown"] = 0
                          \/ age'["ShutDown"] = age["ShutDown"] /\ ~(age["ShutDown"] >= killdelay)
  BY DownEffect
<1>2. BatteryFrame
  BY DownFrame
<1>3. heldFor'[c] <= heldFor[c] /\ Slack' = 0
  BY <1>2, BatteryPolls
<1>4. Said' = Said /\ inSelfTest' = FALSE
  BY <1>1 DEF Said, InBattery
<1>5. SinceOnLine(c)' /\ SinceSaid(c)' /\ SinceTest(c)' /\ Unsaid(c)'
  BY <1>1, <1>3, <1>4, UndueBounded
<1>6. killdelay > 0 => age'["ShutDown"] <= killdelay + Slack'
  <2>1. age["ShutDown"] \in Nat /\ killdelay \in Nat
    BY ClocksAre, Limits DEF Timers
  <2> HIDE DEF Down
  <2> QED
    BY <1>1, <1>3, <2>1
<1>7. OnBatteryFor(c)' /\ BattLowFor(c)' /\ LimitFor(c)'
  BY <1>1, <1>6 DEF OnBatteryFor, BattLowFor, LimitFor
<1> QED
  BY <1>5, <1>7 DEF Bounded

LEMMA WaitFrame ==
    ASSUME PollsFast, OnBatteryWait
    PROVE  BatteryFrame
<1>1. /\ pc \in {"case1", "case2"} /\ "onbatt" \in Status /\ "onbatt" \in PrevStatus
      /\ first' = first
  BY DEF OnBatteryWait, InBattery, InCase, Changed, PollsFast
<1>2. pc' = Return(pc) /\ PrevStatus' = Status'
  BY DEF OnBatteryWait, Leave
<1>3. \A b \in {"shut_remote", "calibration", "fastpoll"} : b \in Status' <=> b \in Status
  BY DEF OnBatteryWait, LimitStatus
<1> QED
  BY <1>1, <1>2, <1>3 DEF BatteryFrame

(* No timer has expired: none of the clocks they bound has run out.        *)
LEMMA WaitBounded ==
    ASSUME TypeOK, TypeOK', ShutTimer > 0, PollsFast, Observe(0), OnBatteryWait,
           NEW c \in Watched, Bounded(c)
    PROVE  Bounded(c)'
<1>1. /\ InBattery /\ ~AnnounceDue /\ ~Down /\ Status' = LimitStatus /\ Leave
      /\ maxtime > 0 => ~(OnLine > maxtime)
      /\ ExpiredLimit = "none"
      /\ \A t \in Timers \ {"last_time_annoy"} : age'[t] = LimitAges[t]
  BY DEF OnBatteryWait, TimeExpired, Down, OnLine, Stamped
<1>2. BatteryFrame
  BY WaitFrame
<1>3. /\ heldFor'[c] <= heldFor[c] /\ Slack' = 0 /\ Before' = Slack
      /\ ~Holds(c) => heldFor'[c] = 0
  BY <1>2, BatteryPolls
<1>4. /\ age'["last_time_on_line"] = age["last_time_on_line"]
      /\ age'["start_shut_lbatt"] = age["start_shut_lbatt"]
      /\ age'["start_shut_load"] = IF LowCharge /\ "shut_load" \notin Status THEN 0 ELSE age["start_shut_load"]
      /\ age'["start_shut_ltime"] = IF LowRuntime /\ "shut_ltime" \notin Status THEN 0 ELSE age["start_shut_ltime"]
  BY <1>1 DEF LimitAges, Stamped, Timers
<1>5. /\ "battlow" \in Status => ~(age["start_shut_lbatt"] >= ShutTimer)
      /\ LowCharge => ~(age'["start_shut_load"] >= ShutTimer) /\ "shut_load" \in Status'
      /\ LowRuntime => ~(age'["start_shut_ltime"] >= ShutTimer) /\ "shut_ltime" \in Status'
  <2>1. /\ age'["start_shut_load"] = LimitAges["start_shut_load"]
        /\ age'["start_shut_ltime"] = LimitAges["start_shut_ltime"]
    BY <1>1 DEF Timers
  <2>2. /\ "battlow" \in Status => ~(age["start_shut_lbatt"] >= ShutTimer)
        /\ LowCharge => ~(LimitAges["start_shut_load"] >= ShutTimer)
        /\ LowRuntime => ~(LimitAges["start_shut_ltime"] >= ShutTimer)
    BY <1>1 DEF ExpiredLimit
  <2>3. /\ LowCharge => "shut_load" \in Status'
        /\ LowRuntime => "shut_ltime" \in Status'
    BY <1>1 DEF LimitStatus
  <2> QED
    BY <2>1, <2>2, <2>3
<1>6. Said' = Said /\ inSelfTest' = FALSE /\ ~Down'
  BY <1>1 DEF Said, Down, InBattery, LimitStatus
<1>7. /\ SinceOnLine(c)' /\ SinceSaid(c)' /\ SinceTest(c)' /\ Unsaid(c)'
      /\ ~Said => heldFor'[c] <= Longest
      /\ Said => heldFor'[c] <= OnLine + (Longest + Gap) \/ OnLine > maxtime
  BY <1>1, <1>3, <1>4, <1>6, UndueBounded
<1> DEFINE h == heldFor[c]
           hh == heldFor'[c]
           L == OnLine
           A == AnnounceDeadline
           k == Slack
           e == Before
           s == Slack'
           B == age["start_shut_lbatt"]
<1>8. /\ {h, hh, L, A, k, e, B} \subseteq Nat /\ s = 0 /\ hh <= h /\ e + k <= Gap + MaxRead
      /\ {Longest, Gap, MaxRead, maxtime, ShutTimer} \subseteq Nat
      /\ A = Longest + Gap + MaxRead
  <2>1. h \in Nat /\ hh \in Nat /\ L \in Nat /\ B \in Nat
    BY ClocksAre, ClocksNext DEF Timers
  <2>2. k \in Nat /\ e \in Nat /\ e + k <= Gap + MaxRead
    BY SlackIs
  <2>3. A \in Nat
    BY Limits, ReadsEnd
  <2> QED
    BY <1>3, <2>1, <2>2, <2>3, Limits, ReadsEnd
<1>9. OnBatteryFor(c)'
  <2>1. maxtime > 0 => hh <= (maxtime + Longest + Gap) + s
    <3>1. maxtime > 0 /\ ~Said => hh <= Longest
      BY <1>7
    <3>2. maxtime > 0 /\ Said => hh <= L + (Longest + Gap) /\ ~(L > maxtime)
      BY <1>1, <1>7
    <3> HIDE DEF h, hh, L, A, k, e, s, B, Said
    <3> QED
      BY <1>8, <3>1, <3>2
  <2> QED
    BY <1>6, <2>1 DEF OnBatteryFor
<1>10. CASE hh = 0
  BY <1>10, AtRest
<1>11. CASE hh # 0
  <2>1. Holds(c)
    BY <1>3, <1>11
  <2>2. BattLowFor(c)'
    <3>1. c = "battlow" => (h <= B \/ B >= ShutTimer) /\ ~(B >= ShutTimer)
      BY <1>1, <1>5, <2>1, HoldsOnBattery DEF Bounded, BattLowFor
    <3>2. (h <= B \/ B >= ShutTimer) /\ ~(B >= ShutTimer) => hh <= B /\ hh < ShutTimer + s
      <4> HIDE DEF h, hh, L, A, k, e, s, B
      <4> QED
        BY <1>8
    <3> QED
      BY <1>4, <3>1, <3>2 DEF BattLowFor
  <2>3. ASSUME NEW flag, NEW t \in {"start_shut_load", "start_shut_ltime"}, Crossed(h, flag, t),
               flag \in Status', ~(age'[t] >= ShutTimer),
               age'[t] = IF flag \notin Status THEN 0 ELSE age[t]
        PROVE  Crossed(heldFor[c], flag, t)'
    <3> DEFINE C == age[t]
               CC == age'[t]
    <3>1. C \in Nat /\ CC \in Nat
      BY ClocksAre, ClocksNext DEF Timers
    <3>2. (flag \in Status /\ CC = C /\ (h <= C + A \/ C >= ShutTimer))
          \/ (flag \notin Status /\ CC = 0 /\ h <= Longest + e + k)
      BY <2>3 DEF Crossed
    <3>3. hh <= CC + A /\ hh <= (A + ShutTimer) + s
      <4>1. ~(CC >= ShutTimer)
        BY <2>3
      <4> HIDE DEF h, hh, L, A, k, e, s, B, C, CC
      <4>2. h <= CC + A
        BY <1>8, <3>1, <3>2, <4>1
      <4> QED
        BY <1>8, <3>1, <4>1, <4>2
    <3> QED
      BY <2>3, <3>3 DEF Crossed
  <2>4. LimitFor(c)'
    <3>1. c = "charge" => Crossed(heldFor[c], "shut_load", "start_shut_load")'
      <4> SUFFICES ASSUME c = "charge" PROVE Crossed(heldFor[c], "shut_load", "start_shut_load")'
        OBVIOUS
      <4>1. LowCharge
        BY <2>1, HoldsOnBattery
      <4>2. Crossed(h, "shut_load", "start_shut_load")
        BY <1>1 DEF Bounded, LimitFor
      <4> QED
        BY <1>4, <1>5, <2>3, <4>1, <4>2
    <3>2. c = "runtime" => Crossed(heldFor[c], "shut_ltime", "start_shut_ltime")'
      <4> SUFFICES ASSUME c = "runtime" PROVE Crossed(heldFor[c], "shut_ltime", "start_shut_ltime")'
        OBVIOUS
      <4>1. LowRuntime
        BY <2>1, HoldsOnBattery
      <4>2. Crossed(h, "shut_ltime", "start_shut_ltime")
        BY <1>1 DEF Bounded, LimitFor
      <4> QED
        BY <1>4, <1>5, <2>3, <4>1, <4>2
    <3> QED
      BY <3>1, <3>2 DEF LimitFor
  <2> QED
    BY <1>7, <1>9, <2>2, <2>4 DEF Bounded
<1> QED
  BY <1>10, <1>11

(***************************************************************************)
(* LateInv holds, if readings are plain and the shutdown timers have a     *)
(* length.                                                                 *)
(***************************************************************************)
LEMMA LateInit == HistInit /\ PlainReadings => LateInv
<1> SUFFICES ASSUME HistInit, PlainReadings PROVE LateInv
  OBVIOUS
<1>1. /\ pc = "enter1" /\ PrevStatus = {} /\ inSelfTest = FALSE
      /\ \A b \in {"shut_remote", "calibration", "onbatt_msg", "shutdown", "shut_load", "shut_ltime"} : b \notin Status
  <2>1. \A r \in Readings : r.bits \subseteq DriverBits
    BY LoopAssumption DEF ReadingType
  <2>2. Status \subseteq DriverBits /\ "shut_remote" \notin Status /\ "calibration" \notin Status
    BY <2>1 DEF HistInit, Init, PlainReadings
  <2>3. \A b \in {"onbatt_msg", "shutdown", "shut_load", "shut_ltime"} : b \notin DriverBits
    BY DEF DriverBits
  <2>4. pc = "enter1" /\ PrevStatus = {} /\ inSelfTest = FALSE
    BY DEF HistInit, Init
  <2> QED
    BY <2>2, <2>3, <2>4
<1>2. PollsFast
  BY <1>1 DEF PollsFast
<1>3. ASSUME NEW c \in Watched PROVE JustBegun(c) /\ Bounded(c)
  <2>1. heldFor[c] = 0
    BY DEF HistInit
  <2>2. /\ \A t \in Timers \ {"start_time"} : age[t] = AgeCap
        /\ AgeCap \in Nat /\ ShutTimer < AgeCap /\ AgeCap >= ShutTimer /\ ShutTimer \in Nat
    BY Limits DEF HistInit, Init
  <2>3. OnLine = AgeCap /\ age["start_shut_lbatt"] = AgeCap /\ 0 <= AgeCap
    BY <2>2 DEF OnLine, Timers
  <2>4. Slack \in Nat /\ Before \in Nat /\ Slack = Gap /\ Gap > 0
    BY <1>1, SlackIs, ReadsEnd DEF Slack
  <2>5. /\ 0 <= Longest + Slack /\ 0 <= (maxtime + Longest + Gap) + Slack /\ 0 < ShutTimer + Slack
        /\ 0 <= Longest + Before + Slack /\ 0 <= (AnnounceDeadline + ShutTimer) + Slack
    <3> DEFINE s == Slack
               b == Before
               A == AnnounceDeadline
    <3>1. s \in Nat /\ b \in Nat /\ s > 0
      BY <2>4, ReadsEnd
    <3>2. A \in Nat /\ {Longest, Gap, maxtime, ShutTimer} \subseteq Nat
      BY Limits, ReadsEnd
    <3> HIDE DEF s, b, A
    <3>3. /\ 0 <= Longest + s /\ 0 <= (maxtime + Longest + Gap) + s /\ 0 < ShutTimer + s
          /\ 0 <= Longest + b + s /\ 0 <= (A + ShutTimer) + s
      BY <3>1, <3>2
    <3> QED
      BY <3>3 DEF s, b, A
  <2>6. SinceOnLine(c) /\ SinceSaid(c) /\ SinceTest(c) /\ Unsaid(c)
    BY <1>1, <2>1, <2>3, <2>5 DEF SinceOnLine, SinceSaid, SinceTest, Unsaid, Said
  <2>7. OnBatteryFor(c) /\ BattLowFor(c)
    BY <1>1, <2>1, <2>3, <2>5 DEF OnBatteryFor, BattLowFor, Down
  <2>8. LimitFor(c)
    BY <1>1, <2>1, <2>5 DEF LimitFor, Crossed
  <2> QED
    BY <2>1, <2>6, <2>7, <2>8 DEF JustBegun, Bounded
<1> QED
  BY <1>2, <1>3 DEF LateInv

LEMMA LateStep ==
    ASSUME PlainReadings, ShutTimer > 0, TypeOK, TypeOK', LateInv, [HistNext]_histVars
    PROVE  LateInv'
<1> SUFFICES ASSUME pc' # "exited" PROVE PollsFast' /\ \A c \in Watched : JustBegun(c)' /\ Bounded(c)'
  BY DEF LateInv
<1>1. CASE UNCHANGED histVars
  <2>1. PollsFast' /\ \A c \in Watched : JustBegun(c)' /\ Bounded(c)'
    <3>1. UNCHANGED <<pc, Status, PrevStatus, BattChg, TimeLeft, age, inSelfTest, first, wait_left, heldFor>>
      BY <1>1 DEF histVars, loopVars, actionVars, history
    <3>2. Slack' = Slack /\ Before' = Before /\ OnLine' = OnLine /\ Onset' = Onset /\ Lowers' = Lowers
          /\ Said' = Said /\ Down' = Down
      BY <3>1 DEF Slack, Before, OnLine, Onset, Lowers, Said, Down
    <3>3. PollsFast'
      BY <3>1, <3>2 DEF LateInv, PollsFast
    <3>4. ASSUME NEW c \in Watched PROVE JustBegun(c)' /\ Bounded(c)'
      <4>1. JustBegun(c) /\ Bounded(c)
        BY <3>1 DEF LateInv
      <4>2. Holds(c)' = Holds(c)
        BY <3>1 DEF Holds, LowCharge, LowRuntime
      <4>3. JustBegun(c)'
        BY <3>1, <3>2, <4>1, <4>2 DEF JustBegun
      <4>4. SinceOnLine(c)' /\ SinceSaid(c)' /\ SinceTest(c)' /\ Unsaid(c)'
        BY <3>1, <3>2, <4>1 DEF Bounded, SinceOnLine, SinceSaid, SinceTest, Unsaid
      <4>5. OnBatteryFor(c)' /\ BattLowFor(c)'
        BY <3>1, <3>2, <4>1 DEF Bounded, OnBatteryFor, BattLowFor
      <4>6. LimitFor(c)'
        BY <3>1, <3>2, <4>1 DEF Bounded, LimitFor, Crossed
      <4> QED
        BY <4>3, <4>4, <4>5, <4>6 DEF Bounded
    <3> QED
      BY <3>3, <3>4
  <2> QED
    BY <2>1
<1>2. ASSUME HistNext, pc # "exited" PROVE PollsFast /\ \A c \in Watched : JustBegun(c) /\ Bounded(c)
  BY <1>2 DEF LateInv
<1>3. ASSUME PollsFast' /\ \A c \in Watched : JustBegun(c)' /\ Elapses(c),
             \A c \in Watched : Bounded(c)
      PROVE  PollsFast' /\ \A c \in Watched : JustBegun(c)' /\ Bounded(c)'
  <2>1. ASSUME NEW c \in Watched PROVE Bounded(c)'
    <3>1. CASE heldFor'[c] = 0
      BY <3>1, AtRest
    <3>2. ASSUME NEW d \in Nat, Waits(c, d), heldFor'[c] <= heldFor[c] + d PROVE Bounded(c)'
      BY <1>3, <3>2, WaitsKeep
    <3> QED
      BY <1>3, <3>1, <3>2 DEF Elapses
  <2> QED
    BY <1>3, <2>1
<1>4. CASE Enter /\ Observe(0)
  <2>1. pc # "exited"
    BY <1>4 DEF Enter, EnterCommon
  <2>2. PollsFast' /\ \A c \in Watched : JustBegun(c)' /\ Elapses(c)
    BY <1>4, <2>1, EnterElapses DEF LateInv
  <2> QED
    BY <1>3, <2>1, <2>2 DEF LateInv
<1>5. CASE EnterRemote /\ Observe(0)
  BY <1>5 DEF EnterRemote, EnterCommon, LateInv, PollsFast
<1>6. CASE (OnMains \/ MainsBack \/ CheckSelfTest) /\ Observe(0)
  <2>1. pc # "exited"
    BY <1>6 DEF OnMains, MainsBack, CheckSelfTest, PowerFailure, InCase
  <2> QED
    BY <1>6, <2>1, CaseRests DEF LateInv
<1>7. CASE Calibration /\ Observe(0)
  <2>1. pc # "exited" /\ "calibration" \in Status
    BY <1>7 DEF Calibration, InCase
  <2> QED
    BY <2>1 DEF LateInv, PollsFast
<1>8. CASE (\/ SelfTestRuns \/ OnBatteryAnnounce \/ OnBatteryShuttingDown
            \/ OnBatteryTimeout \/ OnBatteryLimit \/ OnBatteryWait) /\ Observe(0)
  <2>1. pc # "exited"
    BY <1>8 DEF SelfTestRuns, OnBatteryAnnounce, OnBatteryShuttingDown, OnBatteryTimeout,
                OnBatteryLimit, OnBatteryWait, InBattery, InCase
  <2>2. PollsFast /\ \A c \in Watched : Bounded(c)
    BY <2>1 DEF LateInv
  <2>3. BatteryFrame
    BY <1>8, <2>2, SelfTestFrame, AnnounceFrame, DownFrame, WaitFrame
  <2>4. ASSUME NEW c \in Watched PROVE Bounded(c)'
    BY <1>8, <2>2, SelfTestBounded, AnnounceBounded, DownBounded, WaitBounded
  <2> QED
    BY <1>8, <2>2, <2>3, <2>4, BatteryPolls
<1>9. CASE (StartCheck \/ CheckTimeout) /\ Observe(0)
  <2>1. pc # "exited"
    BY <1>9 DEF StartCheck, CheckTimeout
  <2>2. PollsFast' /\ \A c \in Watched : JustBegun(c)' /\ Elapses(c)
    BY <1>9, <2>1, StartElapses, TimeoutElapses DEF LateInv
  <2> QED
    BY <1>3, <2>1, <2>2 DEF LateInv
<1>10. ASSUME NEW d \in ReadSecs,
              \/ (fillUPS(d) \/ CheckChanged(d)) /\ Observe(d)
              \/ CheckSame(d) /\ Observe(d + 1)
       PROVE  PollsFast' /\ \A c \in Watched : JustBegun(c)' /\ Bounded(c)'
  <2>1. pc # "exited"
    BY <1>10 DEF fillUPS, CheckChanged, CheckSame
  <2>2. PollsFast' /\ \A c \in Watched : JustBegun(c)' /\ Elapses(c)
    BY <1>10, <2>1, FillElapses, ChangedElapses, SameElapses DEF LateInv
  <2> QED
    BY <1>3, <2>1, <2>2 DEF LateInv
<1> QED
  BY <1>1, <1>4, <1>5, <1>6, <1>7, <1>8, <1>9, <1>10 DEF HistNext, do_action

LEMMA LateAlways == PlainReadings /\ ShutTimer > 0 => (HistSpec => [](TypeOK /\ LateInv))
<1> SUFFICES ASSUME PlainReadings, ShutTimer > 0 PROVE HistSpec => [](TypeOK /\ LateInv)
  OBVIOUS
<1>1. HistInit => LateInv
  BY LateInit
<1>2. TypeOK /\ TypeOK' /\ LateInv /\ [HistNext]_histVars => LateInv'
  BY LateStep
<1> QED
  BY <1>1, <1>2, TypeCorrect, PTL DEF HistSpec

LEMMA LateMeans ==
    ASSUME TypeOK, LateInv
    PROVE  AnnouncedInTime /\ ShutdownInTime /\ KillPowerRepeats
<1> SUFFICES ASSUME pc # "exited" PROVE AnnouncedInTime /\ ShutdownInTime /\ KillPowerRepeats
  BY DEF AnnouncedInTime, ShutdownInTime, KillPowerRepeats
<1> DEFINE A == AnnounceDeadline
           s == Slack
           e == Before
           S == age["ShutDown"]
<1>1. /\ {A, s, e, S, Longest, Gap, MaxRead, maxtime, killdelay, ShutTimer} \subseteq Nat
      /\ A = Longest + Gap + MaxRead /\ Gap = MaxRead + 1 /\ s <= Gap /\ e + s <= Gap + MaxRead
  <2>1. S \in Nat
    BY DEF TypeOK, ActionTypeOK, Timers
  <2>2. A \in Nat
    BY Limits, ReadsEnd
  <2> QED
    BY <2>1, <2>2, Limits, ReadsEnd, SlackIs
<1>2. ASSUME NEW c \in Watched PROVE heldFor[c] \in Nat /\ Bounded(c)
  BY ClocksAre DEF LateInv
<1>3. AnnouncedInTime
  <2> SUFFICES ASSUME "onbatt" \in Watched, heldFor["onbatt"] > A, ~Said PROVE FALSE
    BY DEF AnnouncedInTime, Said
  <2> DEFINE h == heldFor["onbatt"]
  <2>1. h \in Nat /\ h <= Longest + s /\ h > A
    BY <1>2 DEF Bounded, Unsaid
  <2> HIDE DEF h, A, s, e, S
  <2> QED
    BY <1>1, <2>1
<1>4. ShutdownInTime
  <2> SUFFICES ASSUME NEW c \in Watched, heldFor[c] > Deadline(c), c = "onbatt" => maxtime > 0, ~Down
               PROVE  FALSE
    BY DEF ShutdownInTime, Down
  <2> DEFINE h == heldFor[c]
  <2>1. h \in Nat /\ c \in {"onbatt", "battlow", "charge", "runtime"}
    BY <1>2, HistoryAssumption DEF Conditions
  <2>2. CASE c = "onbatt"
    <3>1. h <= (maxtime + Longest + Gap) + s /\ h > A + maxtime + Gap
      BY <1>2, <2>2 DEF Bounded, OnBatteryFor, Deadline
    <3> HIDE DEF h, A, s, e, S
    <3> QED
      BY <1>1, <2>1, <3>1
  <2>3. CASE c = "battlow"
    <3>1. (h < ShutTimer + s \/ h < ShutTimer + e + s) /\ h > ShutTimer + 2 * MaxRead
      BY <1>2, <2>3 DEF Bounded, BattLowFor, Deadline
    <3> HIDE DEF h, A, s, e, S
    <3> QED
      BY <1>1, <2>1, <3>1
  <2>4. CASE c \in {"charge", "runtime"}
    <3>1. h <= (A + ShutTimer) + s /\ h > A + ShutTimer + Gap
      BY <1>2, <2>4 DEF Bounded, LimitFor, Crossed, Deadline
    <3> HIDE DEF h, A, s, e, S
    <3> QED
      BY <1>1, <2>1, <3>1
  <2> QED
    BY <2>1, <2>2, <2>3, <2>4
<1>5. KillPowerRepeats
  <2> SUFFICES ASSUME "onbatt" \in Watched, killdelay > 0, Down, heldFor["onbatt"] > A + killdelay + Gap,
                      ~(S <= killdelay + Gap)
               PROVE  FALSE
    BY DEF KillPowerRepeats, Down
  <2> DEFINE h == heldFor["onbatt"]
  <2>1. h \in Nat /\ (S <= killdelay + s \/ h <= (Longest + Gap) + s)
    BY <1>2 DEF Bounded, OnBatteryFor
  <2>2. h > A + killdelay + Gap /\ ~(S <= killdelay + Gap)
    OBVIOUS
  <2> HIDE DEF h, A, s, e, S
  <2> QED
    BY <1>1, <2>1, <2>2
<1> QED
  BY <1>3, <1>4, <1>5

(* A failure that lasts is announced by ONBATTERY in time.                 *)
THEOREM AlwaysAnnouncedInTime ==
    ASSUME PlainReadings, ShutTimer > 0
    PROVE  HistSpec => []AnnouncedInTime
<1>1. HistSpec => [](TypeOK /\ LateInv)
  BY LateAlways
<1>2. TypeOK /\ LateInv => AnnouncedInTime
  BY LateMeans
<1> QED
  BY <1>1, <1>2, PTL

(* A shutdown whose limit is crossed on battery is under way in time.      *)
THEOREM ShutdownAlwaysInTime ==
    ASSUME PlainReadings, ShutTimer > 0
    PROVE  HistSpec => []ShutdownInTime
<1>1. HistSpec => [](TypeOK /\ LateInv)
  BY LateAlways
<1>2. TypeOK /\ LateInv => ShutdownInTime
  BY LateMeans
<1> QED
  BY <1>1, <1>2, PTL

(* The power kill of a system that is down is repeated in time.            *)
THEOREM KillPowerAlwaysRepeats ==
    ASSUME PlainReadings, ShutTimer > 0
    PROVE  HistSpec => []KillPowerRepeats
<1>1. HistSpec => [](TypeOK /\ LateInv)
  BY LateAlways
<1>2. TypeOK /\ LateInv => KillPowerRepeats
  BY LateMeans
<1> QED
  BY <1>1, <1>2, PTL
=============================================================================
