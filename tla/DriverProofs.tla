---------------------------- MODULE DriverProofs ----------------------------
(***************************************************************************)
(* The MODBUS driver implements the device loop's contract, for every      *)
(* configuration, every set of readings and every failure of the           *)
(* connection: DriverSpec => Spec.  The step that needs an argument is     *)
(* entry_point(), which copies the cached registers into UPSINFO in the    *)
(* middle of do_action(): the invariant is that they still agree with it.  *)
(***************************************************************************)
EXTENDS DriverHistory, TLAPS

(* The inductive invariant: CacheMatches, and where the cache comes from.  *)
CacheInv ==
    /\ ups \in Truths
    /\ \E u \in Truths : blockC = CReads(u)
    /\ CacheMatches

(* What a reading may hold, and what the UPS can be doing.                 *)
LEMMA TruthReads ==
    ASSUME NEW u \in Truths
    PROVE  /\ u.rd \in Readings
           /\ u.rd.bits \subseteq DriverBits
           /\ "shut_remote" \notin u.rd.bits
           /\ CReads(u).bits = u.rd.bits
           /\ AReads(u).chg = u.rd.chg /\ AReads(u).left = u.rd.left
<1>1. u.rd \in Readings
  BY DEF Truths
<1>2. u.rd.bits \subseteq DriverBits /\ "shut_remote" \notin u.rd.bits
  BY <1>1, LoopAssumption, DriverAssumption DEF ReadingType
<1> QED BY <1>1, <1>2 DEF CReads, AReads

(* What do_action() leaves alone of what the driver reports.               *)
DriverFrame ==
    /\ \A b \in {"battlow", "calibration", "battpresent", "shut_remote"} :
          b \in Status' <=> b \in Status
    /\ "replacebatt" \in Status' => "replacebatt" \in Status
    /\ UNCHANGED <<BattChg, TimeLeft>>

(* do_shutdown() adds only bits of its own to the status word.             *)
LEMMA ShutdownFrame ==
    ASSUME NEW st, NEW evs, NEW a, DoShutdown(st, evs, a)
    PROVE  Status' = st \/ Status' = st \cup {"shutdown", "fastpoll"}
  BY DEF DoShutdown, AlreadyDown, ShutdownBits

(* No step of do_action() itself touches the driver's bits, but for        *)
(* silencing replacebatt.                                                  *)
LEMMA LoopStepFrame ==
    ASSUME LoopStep
    PROVE  DriverFrame
<1>1. CASE StartCheck
  BY <1>1 DEF StartCheck, DriverFrame
<1>2. CASE CheckTimeout
  BY <1>2 DEF CheckTimeout, pollFrame, DriverFrame
<1>3. CASE Enter
  BY <1>3 DEF Enter, EnterCommon, EnterStatus, DriverFrame
<1>4. CASE OnMains
  BY <1>4 DEF OnMains, DriverFrame
<1>5. CASE SelfTestRuns
  BY <1>5 DEF SelfTestRuns, DriverFrame
<1>6. CASE MainsBack
  BY <1>6 DEF MainsBack, DriverFrame
<1>7. CASE Calibration
  BY <1>7 DEF Calibration, DriverFrame
<1>8. CASE OnBatteryAnnounce
  BY <1>8 DEF OnBatteryAnnounce, InBattery, DriverFrame
<1>9. CASE OnBatteryShuttingDown
  BY <1>9 DEF OnBatteryShuttingDown, InBattery, DriverFrame
<1>10. CASE OnBatteryTimeout
  <2>1. DoShutdown(Status \cup {"shut_btime"}, events \cup {"TIMEOUT"}, age)
    BY <1>10 DEF OnBatteryTimeout
  <2> QED BY <1>10, <2>1, ShutdownFrame DEF OnBatteryTimeout, InBattery, DriverFrame
<1>11. CASE OnBatteryLimit
  <2>1. DoShutdown(LimitStatus, events \cup {ExpiredLimit}, LimitAges)
    BY <1>11 DEF OnBatteryLimit
  <2> QED BY <1>11, <2>1, ShutdownFrame DEF OnBatteryLimit, InBattery, LimitStatus, DriverFrame
<1>12. CASE OnBatteryWait
  BY <1>12 DEF OnBatteryWait, InBattery, LimitStatus, DriverFrame
<1> QED BY <1>1, <1>2, <1>3, <1>4, <1>5, <1>6, <1>7, <1>8, <1>9, <1>10, <1>11, <1>12
        DEF LoopStep

(* Every step keeps the invariant.                                         *)
LEMMA CacheStep ==
    ASSUME CacheInv, [DriverNext]_driverVars
    PROVE  CacheInv'
<1> USE DEF CacheInv, CacheMatches
<1>1. CASE UNCHANGED driverVars
  BY <1>1 DEF driverVars, driver, cache, loopVars, actionVars
<1>2. CASE UpsChanges
  BY <1>2 DEF UpsChanges, cache, loopVars, actionVars
<1>4. CASE LoopStep
  <2>1. UNCHANGED <<ups, valid, blockA, blockC>>
    BY <1>4 DEF LoopStep, driver, cache
  <2> QED BY <1>4, <2>1, LoopStepFrame DEF DriverFrame
<1>5. CASE entry_point
  <2>1. /\ UNCHANGED <<ups, valid, blockA, blockC>>
        /\ Status' = AppliedStatus(valid, blockC) \cup {"fastpoll"}
    BY <1>5 DEF entry_point, cache, PowerFailure, SelfTestBlock
  <2>2. PICK u \in Truths : blockC = CReads(u)
    OBVIOUS
  <2>3. "A" \in valid => BattChg' = blockA.chg /\ TimeLeft' = blockA.left
    BY <1>5 DEF entry_point, ApplyMeasurements, FillMeasurements
  <2>4. CASE "C" \in valid
    <3>1. Status' = ((Status \ DriverBits) \cup blockC.bits) \cup {"fastpoll"}
      BY <2>1, <2>4 DEF AppliedStatus
    <3>2. "shut_remote" \notin blockC.bits
      BY <2>2, TruthReads
    <3> QED BY <2>1, <2>2, <2>3, <3>1, <3>2 DEF DriverBits
  <2>5. CASE "C" \notin valid
    BY <2>1, <2>2, <2>3, <2>5
  <2> QED BY <2>4, <2>5
<1>6. ASSUME NEW d \in ReadSecs, read_volatile_data(d)
      PROVE  CacheInv'
  <2>1. /\ UNCHANGED ups
        /\ blockA' = IF "A" \in valid' THEN AReads(ups) ELSE blockA
        /\ blockC' = IF "C" \in valid' THEN CReads(ups) ELSE blockC
        /\ Status' = AppliedStatus(valid', blockC')
        /\ ApplyMeasurements(valid', blockA')
    BY <1>6 DEF read_volatile_data
  <2>2. \E u \in Truths : blockC' = CReads(u)
    BY <2>1
  <2>3. "A" \in valid' => BattChg' = blockA'.chg /\ TimeLeft' = blockA'.left
    BY <2>1 DEF ApplyMeasurements, FillMeasurements
  <2>4. ASSUME "C" \in valid'
        PROVE  /\ Status' = (Status \ DriverBits) \cup blockC'.bits
               /\ "shut_remote" \notin blockC'.bits
    BY <2>1, <2>4, TruthReads DEF AppliedStatus
  <2> QED BY <2>1, <2>2, <2>3, <2>4 DEF DriverBits
<1>7. ASSUME PollAnswered
      PROVE  CacheInv'
  <2>1. UNCHANGED <<ups, valid, blockA, blockC, BattChg, TimeLeft>>
    BY <1>7 DEF PollAnswered, cache, pollFrame
  <2>2. /\ \A b \in {"battlow", "calibration", "battpresent", "shut_remote", "replacebatt"} :
              b \in Status' <=> b \in Status
    BY <1>7 DEF PollAnswered, Answered
  <2> QED BY <2>1, <2>2
<1>8. ASSUME NEW d \in ReadSecs, PollFails(d)
      PROVE  CacheInv'
  <2>1. UNCHANGED <<ups, valid, blockA, blockC, BattChg, TimeLeft>>
    BY <1>8 DEF PollFails, cache, pollFrame
  <2>2. Status' = Status \/ Status' = Status \cup {"commlost"}
    BY <1>8 DEF PollFails
  <2> QED BY <2>1, <2>2
<1> QED BY <1>1, <1>2, <1>4, <1>5, <1>6, <1>7, <1>8
        DEF DriverNext, PollChanged, PollSame

(* The cache and UPSINFO agree in every reachable state, whatever fails.   *)
THEOREM CacheAlwaysMatches == DriverSpec => []CacheMatches
<1>1. DriverInit => CacheInv
  <2> SUFFICES ASSUME DriverInit PROVE CacheInv
    OBVIOUS
  <2> QED BY TruthReads DEF DriverInit, CacheInv, CacheMatches
<1>2. CacheInv /\ [DriverNext]_driverVars => CacheInv'
  BY CacheStep
<1>3. CacheInv => CacheMatches
  BY DEF CacheInv
<1> QED BY <1>1, <1>2, <1>3, PTL DEF DriverSpec

---------------------------------------------------------------------------
(* The self-test question, answered from the cache, is one the contract    *)
(* allows: it may take back onbatt and bring back replacebatt.             *)
LEMMA EntryPointAllowed ==
    ASSUME CacheInv, entry_point
    PROVE  CheckSelfTest /\ UNCHANGED wait_left
<1> DEFINE st == AppliedStatus(valid, blockC)
           test == valid # {} /\ AppliedXfer(valid, blockC)
<1>1. PowerFailure(st, test) /\ UNCHANGED wait_left
  BY DEF entry_point, SelfTestBlock
<1>2. "onbatt" \in Status
  BY <1>1 DEF PowerFailure, InCase
<1>3. PICK u \in Truths : blockC = CReads(u)
  BY DEF CacheInv
<1>4. UNCHANGED <<BattChg, TimeLeft>>
  BY DEF entry_point, ApplyMeasurements, FillMeasurements, CacheInv, CacheMatches
<1>5. "stale" \in Lapses
  BY DriverAssumption DEF DriverLapses
<1>6. \E gone \in SUBSET {"onbatt"}, again \in SUBSET {"replacebatt"} :
         /\ st = Refreshed(gone, again)
         /\ again # {} => \E r \in Readings : "replacebatt" \in r.bits
  <2>1. CASE "C" \notin valid
    <3>1. st = Refreshed({}, {})
      BY <2>1 DEF AppliedStatus, Refreshed
    <3> QED BY <3>1
  <2>2. CASE "C" \in valid
    <3> DEFINE gone == {"onbatt"} \ blockC.bits
               again == {"replacebatt"} \cap blockC.bits
    <3>1. blockC.bits = u.rd.bits /\ u.rd \in Readings
      BY <1>3, TruthReads
    <3>2. st = (Status \ DriverBits) \cup blockC.bits
      BY <2>2 DEF AppliedStatus
    <3>3. st = Refreshed(gone, again)
      <4>1. \A b : b \in st <=> b \in Refreshed(gone, again)
        BY <1>2, <1>3, <2>2, <3>1, <3>2, TruthReads
           DEF Refreshed, CacheInv, CacheMatches, DriverBits
      <4> QED BY <4>1
    <3> QED BY <3>1, <3>3
  <2> QED BY <2>1, <2>2
<1>7. test \in BOOLEAN
  OBVIOUS
<1> QED BY <1>1, <1>4, <1>5, <1>6, <1>7 DEF CheckSelfTest

(* A read of the blocks fills UPSINFO, in whole, in part or not at all.    *)
LEMMA ReadAllowed ==
    ASSUME CacheInv, NEW d \in ReadSecs, read_volatile_data(d)
    PROVE  fillUPS(d)
<1>1. /\ blockA' = IF "A" \in valid' THEN AReads(ups) ELSE blockA
      /\ blockC' = IF "C" \in valid' THEN CReads(ups) ELSE blockC
      /\ Status' = AppliedStatus(valid', blockC')
      /\ ApplyMeasurements(valid', blockA')
  BY DEF read_volatile_data
<1>2. ups.rd \in Readings /\ "partial" \in Lapses
  BY TruthReads, DriverAssumption DEF CacheInv, DriverLapses
<1>3. IF "C" \in valid' THEN FillStatus(ups.rd) ELSE UNCHANGED Status
  BY <1>1, TruthReads DEF CacheInv, AppliedStatus, FillStatus
<1>4. IF "A" \in valid' THEN FillMeasurements(ups.rd) ELSE UNCHANGED <<BattChg, TimeLeft>>
  BY <1>1, TruthReads DEF CacheInv, ApplyMeasurements, FillMeasurements
<1> QED BY <1>2, <1>3, <1>4 DEF read_volatile_data, fillUPS

(* The polls of check_state() are polls the contract allows.               *)
LEMMA PollAllowed ==
    ASSUME CacheInv, NEW d \in ReadSecs
    PROVE  /\ PollChanged(d) => CheckChanged(d)
           /\ PollSame(d) => CheckSame(d)
           /\ PollFails(d) => CheckSame(d)
<1>1. ASSUME PollChanged(d) PROVE CheckChanged(d)
  <2>1. /\ Status' = Answered((Status \ {"onbatt"}) \cup (ups.rd.bits \cap {"onbatt"}))
        /\ ("onbatt" \in Status') # ("onbatt" \in Status)
    BY <1>1 DEF PollChanged, PollAnswered, PolledStatus
  <2>2. ups.rd \in Readings
    BY TruthReads DEF CacheInv
  <2>3. ("onbatt" \in ups.rd.bits) # ("onbatt" \in Status)
    BY <2>1 DEF Answered
  <2>4. Status' = Answered(IF "onbatt" \in Status THEN Status \ {"onbatt"}
                           ELSE Status \cup {"onbatt"})
    BY <2>1, <2>3 DEF Answered
  <2> QED BY <1>1, <2>2, <2>3, <2>4 DEF PollChanged, PollAnswered, CheckChanged
<1>2. ASSUME PollSame(d) PROVE CheckSame(d)
  <2>1. Status' = Answered(Status)
    BY <1>2 DEF PollSame, PollAnswered, Answered
  <2> QED BY <1>2, <2>1 DEF PollSame, PollAnswered, PollAgain, CheckSame
<1>3. ASSUME PollFails(d) PROVE CheckSame(d)
  <2>1. Status' = Status \/ Status' = Status \cup {"commlost"}
    BY <1>3 DEF PollFails
  <2>2. "commlost" \in Lapses
    BY DriverAssumption DEF DriverLapses
  <2> QED BY <1>3, <2>1, <2>2 DEF PollFails, PollAgain, CheckSame
<1> QED BY <1>1, <1>2, <1>3

(* The MODBUS driver keeps the contract of the device loop: what is shown  *)
(* of DeviceLoop over every driver holds over this one.                    *)
THEOREM DriverImplementsLoop == DriverSpec => ImplementsLoop
<1>1. DriverInit => Init
  BY DEF DriverInit
<1>2. DriverInit => CacheInv
  <2> SUFFICES ASSUME DriverInit PROVE CacheInv
    OBVIOUS
  <2> QED BY TruthReads DEF DriverInit, CacheInv, CacheMatches
<1>3. CacheInv /\ [DriverNext]_driverVars => CacheInv'
  BY CacheStep
<1>4. CacheInv /\ [DriverNext]_driverVars => [Next]_loopVars
  <2> SUFFICES ASSUME CacheInv, [DriverNext]_driverVars PROVE [Next]_loopVars
    OBVIOUS
  <2>1. CASE UNCHANGED driverVars \/ UpsChanges
    BY <2>1 DEF driverVars, UpsChanges
  <2>2. CASE LoopStep
    BY <2>2 DEF LoopStep, Next, do_action
  <2>3. CASE entry_point
    BY <2>3, EntryPointAllowed DEF Next, do_action
  <2>4. ASSUME NEW d \in ReadSecs,
               read_volatile_data(d) \/ PollChanged(d) \/ PollSame(d) \/ PollFails(d)
        PROVE  Next
    BY <2>4, ReadAllowed, PollAllowed DEF Next
  <2> QED BY <2>1, <2>2, <2>3, <2>4 DEF DriverNext
<1> QED BY <1>1, <1>2, <1>3, <1>4, PTL DEF DriverSpec, ImplementsLoop, Spec

(***************************************************************************)
(* Time.  From the end of one poll to the end of the next no more than     *)
(* PollGap passes, and a poll of a connection that works is answered,      *)
(* fails for want of an open port - of which there are fewer than the      *)
(* threshold -, or opens the port again.  A condition that a poll ends has *)
(* so lasted no longer than the polls since its beginning account for.     *)
(***************************************************************************)
(* The polls that failed, and the time since the last one ended.           *)
Polls == IF ~Lost /\ ~open THEN statusFailCount ELSE STATUS_FAIL_THRESHOLD
Since == IF pc \in {"enter1", "case1", "fill"} \/ (pc = "poll" /\ wait_left = 0) THEN 0 ELSE LongestRead
Account == Polls * PollGap + Since

ClockType == [up : Nat, wrong : Nat, stuck : Nat]

TimingTypeOK ==
    /\ CacheInv
    /\ link \in {"good", "stuck", "down"} /\ open \in BOOLEAN
    /\ statusFailCount \in 0..STATUS_FAIL_THRESHOLD
    /\ ~Lost => statusFailCount < STATUS_FAIL_THRESHOLD
    /\ sinceOk \in Nat /\ wait_left \in Nat
    /\ clocks \in ClockType

LEMMA Longest ==
    /\ LongestRead \in Nat /\ ReadSecs \subseteq Nat /\ \A d \in ReadSecs : d <= LongestRead
    /\ PollGap = LongestRead + LongestRead + 1 /\ PollGap \in Nat
<1>1. LongestRead \in ReadSecs /\ \A d \in ReadSecs : d <= LongestRead
  <2>1. PICK d \in ReadSecs : \A e \in ReadSecs : e <= d
    BY ReadsAssumption
  <2> QED
    BY <2>1 DEF LongestRead
<1>2. ReadSecs \subseteq Nat
  BY LoopAssumption
<1> QED
  BY <1>1, <1>2 DEF PollGap, TIMER_FAST

LEMMA ClockedLess ==
    ASSUME NEW n \in Nat
    PROVE  /\ Clocked(n) \in Nat /\ Clocked(n) <= n
           /\ \A m \in Nat : m <= n => Clocked(m) <= Clocked(n)
  BY DriverAssumption DEF Clocked

(* What the history does in d seconds.                                     *)
LEMMA ClocksType ==
    ASSUME TimingTypeOK, NEW d \in Nat, Observe(d)
    PROVE  clocks' \in ClockType
<1>1. \A a, b \in BOOLEAN : \A n \in Nat : Held(a, b, n, d) \in Nat
  BY ClockedLess DEF Held
<1>2. clocks.up \in Nat /\ clocks.wrong \in Nat /\ clocks.stuck \in Nat
  BY DEF TimingTypeOK, ClockType
<1>3. Connected \in BOOLEAN /\ Wrong \in BOOLEAN /\ Stuck \in BOOLEAN
  BY DEF Connected, Wrong, Stuck
<1>4. Connected' \in BOOLEAN /\ Wrong' \in BOOLEAN /\ Stuck' \in BOOLEAN
  BY DEF Connected, Wrong, Stuck
<1> QED
  BY <1>1, <1>2, <1>3, <1>4 DEF Observe, ClockType

(* Where the loop goes, and what do_action() leaves to the driver.         *)
Forward ==
    \/ pc \in {"enter1", "case1"} /\ pc' \in {"case1", "fill", "exited"} /\ UNCHANGED wait_left
    \/ pc \in {"enter2", "case2"} /\ pc' \in {"case2", "check", "exited"} /\ UNCHANGED wait_left
    \/ pc = "check" /\ pc' = "poll" /\ wait_left' = device_wait_time
    \/ pc = "poll" /\ wait_left = 0 /\ pc' = "enter1" /\ UNCHANGED wait_left

LEMMA ActionsForward ==
    ASSUME CacheInv, LoopStep \/ entry_point
    PROVE  /\ Forward
           /\ "commlost" \in Status' <=> "commlost" \in Status
           /\ UNCHANGED <<ups, link, open, statusFailCount, sinceOk>>
<1> USE DEF InCase, Leave, Return, Forward
<1>1. CASE StartCheck /\ UNCHANGED <<ups, driver>>
  BY <1>1 DEF StartCheck, driver
<1>2. CASE CheckTimeout /\ UNCHANGED <<ups, driver>>
  BY <1>2 DEF CheckTimeout, driver
<1>3. ASSUME NEW st, NEW evs, NEW a, DoShutdown(st, evs, a)
      PROVE  pc' \in {"exited", Return(pc)} /\ (Status' = st \/ Status' = st \cup {"shutdown", "fastpoll"})
  BY <1>3 DEF DoShutdown, AlreadyDown, ShutdownBits
<1>4. CASE entry_point
  <2>1. PICK u \in Truths : blockC = CReads(u)
    BY DEF CacheInv
  <2>2. "commlost" \notin blockC.bits
    BY <2>1, TruthReads DEF DriverBits
  <2>3. Status' = AppliedStatus(valid, blockC) \cup {"fastpoll"}
    BY <1>4 DEF entry_point, PowerFailure, SelfTestBlock
  <2>4. "commlost" \in Status' <=> "commlost" \in Status
    BY <2>2, <2>3 DEF AppliedStatus, DriverBits
  <2> QED
    BY <1>4, <2>4 DEF entry_point, PowerFailure
<1>5. CASE Enter /\ UNCHANGED <<ups, driver, wait_left>>
  BY <1>5 DEF Enter, EnterCommon, EnterStatus, driver
<1>6. CASE (OnMains \/ SelfTestRuns \/ MainsBack \/ Calibration) /\ UNCHANGED <<ups, driver, wait_left>>
  BY <1>6 DEF OnMains, SelfTestRuns, MainsBack, Calibration, driver
<1>7. CASE (OnBatteryAnnounce \/ OnBatteryShuttingDown) /\ UNCHANGED <<ups, driver, wait_left>>
  BY <1>7 DEF OnBatteryAnnounce, OnBatteryShuttingDown, InBattery, driver
<1>8. CASE OnBatteryTimeout /\ UNCHANGED <<ups, driver, wait_left>>
  <2>1. DoShutdown(Status \cup {"shut_btime"}, events \cup {"TIMEOUT"}, age)
    BY <1>8 DEF OnBatteryTimeout
  <2> QED
    BY <1>3, <1>8, <2>1 DEF OnBatteryTimeout, InBattery, driver
<1>9. CASE OnBatteryLimit /\ UNCHANGED <<ups, driver, wait_left>>
  <2>1. DoShutdown(LimitStatus, events \cup {ExpiredLimit}, LimitAges)
    BY <1>9 DEF OnBatteryLimit
  <2> QED
    BY <1>3, <1>9, <2>1 DEF OnBatteryLimit, InBattery, LimitStatus, driver
<1>10. CASE OnBatteryWait /\ UNCHANGED <<ups, driver, wait_left>>
  BY <1>10 DEF OnBatteryWait, InBattery, LimitStatus, driver
<1> QED
  BY <1>1, <1>2, <1>4, <1>5, <1>6, <1>7, <1>8, <1>9, <1>10 DEF LoopStep

LEMMA PollsBounded ==
    ASSUME TimingTypeOK
    PROVE  Polls \in 0..STATUS_FAIL_THRESHOLD /\ Since \in {0, LongestRead} /\ Account \in Nat
<1>1. Polls \in 0..STATUS_FAIL_THRESHOLD /\ Polls \in Nat
  BY DriverAssumption DEF TimingTypeOK, Polls
<1>2. Since \in {0, LongestRead} /\ Since \in Nat
  BY Longest DEF Since
<1>3. Polls * PollGap \in Nat
  BY <1>1, Longest
<1> QED
  BY <1>1, <1>2, <1>3 DEF Account

LEMMA More ==
    ASSUME NEW k \in Nat, NEW m \in Nat, NEW g \in Nat
    PROVE  (k + 1) * g = k * g + g /\ (k <= m => k * g <= m * g)
<1>1. (k + 1) * g = k * g + g
  OBVIOUS
<1>2. ASSUME k <= m PROVE k * g <= m * g
  <2>1. PICK n \in Nat : m = k + n
    <3>1. m - k \in Nat /\ m = k + (m - k)
      BY <1>2
    <3> QED
      BY <3>1
  <2>2. (k + n) * g = k * g + n * g /\ n * g \in Nat /\ k * g \in Nat
    OBVIOUS
  <2> QED
    BY <2>1, <2>2
<1> QED
  BY <1>1, <1>2

(* The account grows when polls are added, or time within one.             *)
LEMMA AccountGrows ==
    ASSUME TimingTypeOK, TimingTypeOK', NEW d \in Nat,
           \/ Polls <= Polls' /\ Since + d <= Since'
           \/ Polls' = Polls + 1 /\ Since + d <= PollGap
    PROVE  Account + d <= Account'
<1>1. Polls \in Nat /\ Polls' \in Nat /\ Since \in Nat /\ Since' \in Nat
  <2>1. Polls \in 0..STATUS_FAIL_THRESHOLD /\ Since \in {0, LongestRead}
    BY PollsBounded
  <2>2. Polls' \in 0..STATUS_FAIL_THRESHOLD /\ Since' \in {0, LongestRead}
    <3>1. Polls' \in 0..STATUS_FAIL_THRESHOLD
      BY DriverAssumption DEF TimingTypeOK, Polls
    <3> QED
      BY <3>1 DEF Since
  <2> QED
    BY <2>1, <2>2, Longest, DriverAssumption
<1> DEFINE G == PollGap
           p == Polls
           q == Polls'
           s == Since
           t == Since'
<1>2. p \in Nat /\ q \in Nat /\ s \in Nat /\ t \in Nat /\ G \in Nat
  BY <1>1, Longest
<1>3. (p <= q /\ s + d <= t) \/ (q = p + 1 /\ s + d <= G)
  OBVIOUS
<1>4. Account = p * G + s /\ Account' = q * G + t
  BY DEF Account, PollGap, TIMER_FAST
<1> HIDE DEF G, p, q, s, t
<1>5. p * G \in Nat /\ q * G \in Nat
  BY <1>2
<1>6. p * G + s + d <= q * G + t
  <2>1. CASE p <= q /\ s + d <= t
    <3>1. p * G <= q * G
      BY <2>1, <1>2, More
    <3> QED
      BY <3>1, <2>1, <1>2, <1>5
  <2>2. CASE q = p + 1 /\ s + d <= G
    <3>1. q * G = p * G + G
      BY <2>2, <1>2, More
    <3> QED
      BY <3>1, <2>2, <1>2, <1>5
  <2> QED
    BY <1>3, <2>1, <2>2
<1> QED
  BY <1>4, <1>6

(* The kinds of steps of the driver with its clocks.                       *)
LEMMA TimedStep ==
    ASSUME TimingTypeOK, HistNext
    PROVE  \/ UpsChanges /\ Observe(0)
           \/ (LoopStep \/ entry_point) /\ Observe(0)
           \/ \E d \in ReadSecs : read_volatile_data(d) /\ Observe(d)
           \/ \E d \in ReadSecs : PollChanged(d) /\ Observe(d)
           \/ \E d \in ReadSecs : PollSame(d) /\ Observe(d + 1)
           \/ \E d \in ReadSecs : PollFails(d) /\ Observe(d + 1)
BY DEF HistNext

LEMMA WaitTime ==
    /\ device_wait_time \in Nat /\ device_wait_time >= 1
    /\ ~Lost => device_wait_time <= 1 \/ device_wait_time <= polltime
    /\ device_wait_time <= 5 \/ device_wait_time <= polltime
BY LoopAssumption DEF device_wait_time, AtMost, TIMER_FAST, Lost

(* What a read leaves behind.                                              *)
LEMMA ReadLeaves ==
    ASSUME TimingTypeOK, NEW d \in ReadSecs, read_volatile_data(d)
    PROVE  /\ pc = "fill" /\ pc' = "enter2" /\ Lost' = Lost
           /\ UNCHANGED <<wait_left, ups, statusFailCount>>
           /\ \/ UNCHANGED <<link, open>>
              \/ open' = (link # "down") /\ link' = (IF link = "stuck" THEN "good" ELSE link)
           /\ sinceOk' \in Nat
           /\ link = "stuck" /\ link' = "stuck" =>
                sinceOk + d < VOLATILE_STALE_RECOVERY_SECS /\ sinceOk' = Clocked(sinceOk + d)
<1>1. PICK ok \in Fetches : /\ valid' = ok /\ Recover(ok, d)
                            /\ blockC' = IF "C" \in ok THEN CReads(ups) ELSE blockC
                            /\ Status' = AppliedStatus(ok, blockC')
  BY DEF read_volatile_data
<1>2. d \in Nat /\ sinceOk \in Nat
  BY Longest DEF TimingTypeOK
<1>3. \E u \in Truths : blockC' = CReads(u)
  BY <1>1 DEF TimingTypeOK, CacheInv
<1>4. "commlost" \notin blockC'.bits
  BY <1>3, TruthReads DEF DriverBits
<1>5. Lost' = Lost
  BY <1>1, <1>4 DEF AppliedStatus, Lost, DriverBits
<1>6. link = "stuck" => ok # Blocks
  BY DEF Fetches, Blocks
<1>7. Clocked(sinceOk + d) \in Nat
  BY <1>2, ClockedLess
<1>8. /\ \/ UNCHANGED <<link, open>>
         \/ open' = (link # "down") /\ link' = (IF link = "stuck" THEN "good" ELSE link)
      /\ sinceOk' \in Nat
      /\ link = "stuck" /\ link' = "stuck" =>
           ~(sinceOk + d >= VOLATILE_STALE_RECOVERY_SECS) /\ sinceOk' = Clocked(sinceOk + d)
  BY <1>1, <1>6, <1>7 DEF Recover, StaleClockRestarts, Opens, Renegotiated
<1>9. link = "stuck" /\ link' = "stuck" => sinceOk + d < VOLATILE_STALE_RECOVERY_SECS
  BY <1>2, <1>8, DriverAssumption
<1> QED
  BY <1>5, <1>8, <1>9 DEF read_volatile_data

(* What a poll that is answered leaves behind, and one that fails.         *)
LEMMA AnswerLeaves ==
    ASSUME TimingTypeOK, PollAnswered
    PROVE  /\ pc = "poll" /\ wait_left > 0 /\ ~Lost' /\ open' /\ ~Wrong' /\ statusFailCount' = 0
           /\ Port /\ link' = Line /\ UNCHANGED ups
<1>1. Port \in BOOLEAN
  BY DEF Port, Opens, TimingTypeOK
<1>2. Status' = ((Status \ {"onbatt"}) \cup (ups.rd.bits \cap {"onbatt"})) \ {"commlost"} /\ UNCHANGED ups
  BY DEF PollAnswered, Answered, PolledStatus
<1>3. ~Wrong' /\ ~Lost'
  BY <1>2 DEF Wrong, Lost
<1> QED
  BY <1>1, <1>3 DEF PollAnswered

LEMMA FailureLeaves ==
    ASSUME TimingTypeOK, NEW d \in ReadSecs, PollFails(d)
    PROVE  /\ pc = "poll" /\ pc' = "poll" /\ wait_left > 0 /\ UNCHANGED ups
           /\ Noise \/ ~Port \/ Line = "down"
           /\ statusFailCount' = (IF Lost THEN statusFailCount ELSE statusFailCount + 1)
           /\ Lost => Lost' /\ open' = Port /\ link' = Line
           /\ ~Lost /\ Lost' => open' = FALSE /\ UNCHANGED link
           /\ ~Lost /\ ~Lost' => open' = open /\ UNCHANGED link
           /\ ~Lost => (Lost' <=> statusFailCount + 1 >= STATUS_FAIL_THRESHOLD)
<1>1. /\ statusFailCount' = (IF Lost THEN statusFailCount ELSE statusFailCount + 1)
      /\ IF ~Lost /\ statusFailCount' >= STATUS_FAIL_THRESHOLD
         THEN Status' = Status \cup {"commlost"} /\ open' = FALSE /\ UNCHANGED link
         ELSE open' = Port /\ link' = Line /\ UNCHANGED Status
  BY DEF PollFails, FailCount
<1>2. ~Lost => Port = open /\ Line = link
  BY DEF Port, Line
<1>3. CASE Lost
  BY <1>1, <1>3 DEF PollFails, PollAgain, Lost
<1>4. CASE ~Lost
  BY <1>1, <1>2, <1>4 DEF PollFails, PollAgain, Lost
<1> QED
  BY <1>3, <1>4

LEMMA TimingTypeStep ==
    ASSUME TimingTypeOK, [HistNext]_histVars
    PROVE  TimingTypeOK'
<1>0. CacheInv'
  BY CacheStep DEF HistNext, DriverNext, histVars, TimingTypeOK
<1> USE DEF TimingTypeOK
<1>1. CASE UNCHANGED histVars
  BY <1>0, <1>1 DEF histVars, driverVars, driver, loopVars, actionVars, Lost
<1>d. ASSUME NEW d \in Nat, Observe(d) PROVE clocks' \in ClockType
  BY <1>d, ClocksType
<1>n. \A d \in ReadSecs : d \in Nat /\ d + 1 \in Nat
  BY Longest
<1>2. CASE UpsChanges /\ Observe(0)
  <2>1. link' \in {"good", "stuck", "down"}
    BY <1>2, DriverAssumption DEF UpsChanges
  <2> QED
    BY <1>0, <1>2, <1>d, <2>1 DEF UpsChanges, loopVars, actionVars, Lost
<1>3. CASE (LoopStep \/ entry_point) /\ Observe(0)
  <2>1. /\ Forward /\ Lost' = Lost
        /\ UNCHANGED <<ups, link, open, statusFailCount, sinceOk>>
    BY <1>3, ActionsForward DEF Lost
  <2>2. wait_left' \in Nat
    BY <2>1, WaitTime DEF Forward
  <2> QED
    BY <1>0, <1>3, <1>d, <2>1, <2>2
<1>4. ASSUME NEW d \in ReadSecs, read_volatile_data(d), Observe(d) PROVE TimingTypeOK'
  <2>1. link' \in {"good", "stuck", "down"} /\ open' \in BOOLEAN
    BY <1>4, ReadLeaves
  <2> QED
    BY <1>0, <1>4, <1>d, <1>n, <2>1, ReadLeaves
<1>5. ASSUME PollAnswered
      PROVE  link' \in {"good", "stuck", "down"} /\ open' \in BOOLEAN /\ ~Lost' /\ statusFailCount' = 0
  BY <1>5, AnswerLeaves DEF Line, Renegotiated
<1>c. \A d \in Nat : Clocked(sinceOk + d) \in Nat /\ Clocked(sinceOk + d + 1) \in Nat
                     /\ Minus(wait_left, d + 1) \in Nat
  BY ClockedLess DEF Minus
<1>6. ASSUME NEW d \in ReadSecs, PollChanged(d), Observe(d) PROVE TimingTypeOK'
  BY <1>0, <1>5, <1>6, <1>c, <1>d, <1>n, DriverAssumption DEF PollChanged
<1>7. ASSUME NEW d \in ReadSecs, PollSame(d), Observe(d + 1) PROVE TimingTypeOK'
  BY <1>0, <1>5, <1>7, <1>c, <1>d, <1>n, DriverAssumption DEF PollSame, PollAgain
<1>8. ASSUME NEW d \in ReadSecs, PollFails(d), Observe(d + 1) PROVE TimingTypeOK'
  <2>1. link' \in {"good", "stuck", "down"} /\ open' \in BOOLEAN
    BY <1>8, FailureLeaves DEF Line, Renegotiated, Port, Opens
  <2>2. statusFailCount' \in 0..STATUS_FAIL_THRESHOLD
        /\ (~Lost' => statusFailCount' < STATUS_FAIL_THRESHOLD)
    <3>1. STATUS_FAIL_THRESHOLD \in Nat /\ statusFailCount \in 0..STATUS_FAIL_THRESHOLD
      BY DriverAssumption
    <3>2. CASE Lost
      <4>1. Lost' /\ statusFailCount' = statusFailCount
        BY <1>8, <3>2, FailureLeaves
      <4> QED
        BY <3>1, <4>1
    <3>3. CASE ~Lost
      <4>1. statusFailCount' = statusFailCount + 1 /\ statusFailCount < STATUS_FAIL_THRESHOLD
            /\ (Lost' <=> statusFailCount + 1 >= STATUS_FAIL_THRESHOLD)
        BY <1>8, <3>3, FailureLeaves
      <4> QED
        BY <3>1, <4>1
    <3> QED
      BY <3>2, <3>3
  <2>3. sinceOk' \in Nat /\ wait_left' \in Nat
    BY <1>8, <1>c, <1>n DEF PollFails, PollAgain
  <2> QED
    BY <1>0, <1>8, <1>d, <1>n, <2>1, <2>2, <2>3
<1> QED
  BY <1>1, <1>2, <1>3, <1>4, <1>6, <1>7, <1>8, TimedStep

(* A connection that works, over a step of d seconds: either a poll is     *)
(* answered, or the account grows by as much.                              *)
LEMMA Advance ==
    ASSUME TimingTypeOK, TimingTypeOK', ~Noise, HistNext, Connected, Connected'
    PROVE  /\ \/ ~Lost' /\ open' /\ ~Wrong'
              \/ \E d \in Nat : Observe(d) /\ Account + d <= Account'
           /\ open /\ ~Lost => open' /\ ~Lost'
<1> DEFINE Goal == /\ \/ ~Lost' /\ open' /\ ~Wrong'
                      \/ \E d \in Nat : Observe(d) /\ Account + d <= Account'
                   /\ open /\ ~Lost => open' /\ ~Lost'
<1>0. STATUS_FAIL_THRESHOLD \in Nat /\ LongestRead \in Nat /\ ReadSecs \subseteq Nat
      /\ Since \in Nat /\ Polls \in Nat /\ Polls <= STATUS_FAIL_THRESHOLD
  <2>1. Polls \in 0..STATUS_FAIL_THRESHOLD /\ Since \in {0, LongestRead}
    BY PollsBounded
  <2> QED
    BY <2>1, Longest, DriverAssumption
<1>1. CASE UpsChanges /\ Observe(0)
  <2>1. UNCHANGED <<Status, pc, wait_left, open, statusFailCount>>
    BY <1>1 DEF UpsChanges, loopVars, actionVars
  <2>2. Polls <= Polls' /\ Since + 0 <= Since'
    BY <1>0, <2>1 DEF Polls, Since, Lost
  <2> QED
    BY <1>1, <2>1, <2>2, AccountGrows DEF Lost
<1>2. CASE (LoopStep \/ entry_point) /\ Observe(0)
  <2>1. Forward /\ Lost' = Lost /\ UNCHANGED <<open, statusFailCount>>
    BY <1>2, ActionsForward DEF Lost, TimingTypeOK
  <2>2. Polls <= Polls'
    BY <1>0, <2>1 DEF Polls
  <2>3. Since <= Since'
    BY <1>0, <2>1, WaitTime DEF Since, Forward
  <2>4. Since + 0 <= Since'
    BY <1>0, <2>3
  <2> QED
    BY <1>2, <2>1, <2>2, <2>4, AccountGrows
<1>3. ASSUME NEW d \in ReadSecs, read_volatile_data(d), Observe(d) PROVE Goal
  <2>1. pc = "fill" /\ pc' = "enter2" /\ Lost' = Lost /\ UNCHANGED statusFailCount
        /\ (UNCHANGED open \/ open')
    BY <1>3, ReadLeaves DEF Connected
  <2>2. Polls <= Polls'
    BY <1>0, <2>1 DEF Polls
  <2>3. Since = 0 /\ Since' = LongestRead
    BY <2>1 DEF Since
  <2>4. d <= LongestRead /\ d \in Nat
    BY Longest
  <2>5. Since + d <= Since'
    BY <1>0, <2>3, <2>4
  <2> QED
    BY <1>3, <2>1, <2>2, <2>4, <2>5, AccountGrows
<1>4. CASE PollAnswered
  BY <1>4, AnswerLeaves
<1>5. ASSUME NEW d \in ReadSecs, PollFails(d), Observe(d + 1) PROVE Goal
  <2>1. ~Port /\ ~Lost /\ ~open
    <3>1. ~Port \/ Line = "down"
      BY <1>5, FailureLeaves
    <3> QED
      BY <3>1 DEF Line, Renegotiated, Port, Opens, Connected
  <2>2. /\ pc = "poll" /\ wait_left > 0
        /\ statusFailCount' = statusFailCount + 1 /\ ~open'
        /\ Lost' <=> statusFailCount + 1 >= STATUS_FAIL_THRESHOLD
    BY <1>5, <2>1, FailureLeaves
  <2>3. statusFailCount \in Nat /\ statusFailCount < STATUS_FAIL_THRESHOLD
    BY <2>1, <1>0 DEF TimingTypeOK
  <2>4. Polls' = Polls + 1
    BY <1>0, <2>1, <2>2, <2>3 DEF Polls
  <2>5. Since = LongestRead
    BY <2>2 DEF Since, TimingTypeOK
  <2>6. d <= LongestRead /\ d \in Nat /\ d + 1 \in Nat
    BY Longest
  <2>7. Since + (d + 1) <= PollGap
    BY <1>0, <2>5, <2>6, Longest
  <2>8. Account + (d + 1) <= Account'
    BY <2>4, <2>6, <2>7, AccountGrows
  <2> QED
    BY <1>5, <2>1, <2>6, <2>8
<1> QED
  BY <1>1, <1>2, <1>3, <1>4, <1>5, TimedStep DEF PollChanged, PollSame

(* The clocks never run ahead of the account.                              *)
LostInv ==
    /\ ~Connected => clocks.up = 0
    /\ Connected /\ ~(open /\ ~Lost) => clocks.up <= Account

WrongInv ==
    /\ ~Wrong => clocks.wrong = 0
    /\ Wrong => clocks.wrong <= Account

LEMMA AccountSettles ==
    ASSUME TimingTypeOK
    PROVE  Account <= Settled /\ Settled \in Nat
<1> DEFINE G == PollGap
           p == Polls
           T == STATUS_FAIL_THRESHOLD
           s == Since
<1>1. Polls \in 0..STATUS_FAIL_THRESHOLD /\ Since \in {0, LongestRead}
  BY PollsBounded
<1>2. p \in Nat /\ T \in Nat /\ G \in Nat /\ s \in Nat /\ p <= T /\ s <= G
  BY <1>1, Longest, DriverAssumption
<1>3. Account = p * G + s /\ Settled = (T + 1) * G
  BY DEF Account, Settled, PollGap, TIMER_FAST
<1> HIDE DEF G, p, T, s
<1>4. (T + 1) * G = T * G + G /\ p * G <= T * G /\ p * G \in Nat /\ T * G \in Nat
  BY <1>2, More
<1> QED
  BY <1>2, <1>3, <1>4

(* A clock reads at most d seconds more than before.                       *)
LEMMA HeldLess ==
    ASSUME NEW n \in Nat, NEW d \in Nat, NEW was \in BOOLEAN, NEW is \in BOOLEAN
    PROVE  /\ Held(was, is, n, d) \in Nat /\ Held(was, is, n, d) <= n + d
           /\ ~was \/ ~is => Held(was, is, n, d) = 0
BY ClockedLess DEF Held

LEMMA SomeTime ==
    ASSUME TimingTypeOK, HistNext
    PROVE  \E d \in Nat : Observe(d)
BY TimedStep, Longest

LEMMA TimesObserved ==
    ASSUME TimingTypeOK, NEW d \in Nat, Observe(d)
    PROVE  /\ clocks'.up = Held(Connected, Connected', clocks.up, d)
           /\ clocks'.wrong = Held(Wrong, Wrong', clocks.wrong, d)
           /\ clocks'.stuck = Held(Stuck, Stuck', clocks.stuck, d)
BY DEF Observe

LEMMA AccountStays ==
    ASSUME TimingTypeOK'
    PROVE  Account' \in Nat
<1> DEFINE q == Polls'
           t == Since'
<1>1. q \in Nat /\ t \in Nat /\ PollGap \in Nat
  BY Longest, DriverAssumption DEF TimingTypeOK, Polls, Since
<1>2. Account' = q * PollGap + t
  BY DEF Account, PollGap, TIMER_FAST
<1> HIDE DEF q, t
<1> QED
  BY <1>1, <1>2

LEMMA LostStep ==
    ASSUME ~Noise, TimingTypeOK, TimingTypeOK', LostInv, [HistNext]_histVars
    PROVE  LostInv'
<1>1. CASE UNCHANGED histVars
  <2>1. UNCHANGED <<Connected, open, Lost, clocks, Account>>
    BY <1>1 DEF histVars, driverVars, driver, loopVars, actionVars, Connected, Lost, Account,
                Polls, Since
  <2> QED
    BY <2>1 DEF LostInv
<1>2. CASE HistNext
  <2>t. clocks.up \in Nat /\ Connected \in BOOLEAN /\ Connected' \in BOOLEAN /\ Account \in Nat
    BY PollsBounded DEF TimingTypeOK, ClockType, Connected
  <2>1. CASE ~Connected'
    <3>1. PICK d \in Nat : Observe(d)
      BY <1>2, SomeTime
    <3>2. clocks'.up = 0
      BY <2>1, <2>t, <3>1, TimesObserved, HeldLess
    <3> QED
      BY <2>1, <3>2 DEF LostInv
  <2>2. CASE Connected' /\ open' /\ ~Lost'
    BY <2>2 DEF LostInv
  <2>3. CASE Connected' /\ ~(open' /\ ~Lost')
    <3>a. Account' \in Nat
      BY AccountStays
    <3>1. CASE ~Connected
      <4>1. PICK d \in Nat : Observe(d)
        BY <1>2, SomeTime
      <4>2. clocks'.up = 0
        BY <3>1, <2>t, <4>1, TimesObserved, HeldLess
      <4> QED
        BY <2>3, <3>a, <4>2 DEF LostInv
    <3>2. CASE Connected
      <4>1. ~(open /\ ~Lost)
        BY <1>2, <2>3, <3>2, Advance
      <4>2. PICK d \in Nat : Observe(d) /\ Account + d <= Account'
        BY <1>2, <2>3, <3>2, Advance
      <4>3. clocks.up <= Account
        BY <3>2, <4>1 DEF LostInv
      <4> DEFINE h == Held(Connected, Connected', clocks.up, d)
      <4>4. clocks'.up = h
        BY <4>2, TimesObserved
      <4>5. h \in Nat /\ h <= clocks.up + d
        BY <2>t, HeldLess
      <4> HIDE DEF h
      <4>6. clocks'.up <= Account'
        BY <2>t, <3>a, <4>2, <4>3, <4>4, <4>5
      <4> QED
        BY <2>3, <4>6 DEF LostInv
    <3> QED
      BY <3>1, <3>2
  <2> QED
    BY <2>1, <2>2, <2>3
<1> QED
  BY <1>1, <1>2

LEMMA WrongStep ==
    ASSUME ~Noise, TimingTypeOK, TimingTypeOK', WrongInv, [HistNext]_histVars
    PROVE  WrongInv'
<1>1. CASE UNCHANGED histVars
  <2>1. UNCHANGED <<Wrong, clocks, Account>>
    BY <1>1 DEF histVars, driverVars, driver, loopVars, actionVars, Connected, Wrong, Lost,
                Account, Polls, Since
  <2> QED
    BY <2>1 DEF WrongInv
<1>2. CASE HistNext
  <2>t. clocks.wrong \in Nat /\ Wrong \in BOOLEAN /\ Wrong' \in BOOLEAN
        /\ Account \in Nat /\ Account' \in Nat
    BY PollsBounded, AccountStays DEF TimingTypeOK, ClockType, Wrong
  <2>1. CASE ~Wrong \/ ~Wrong'
    <3>1. PICK d \in Nat : Observe(d)
      BY <1>2, SomeTime
    <3>2. clocks'.wrong = Held(Wrong, Wrong', clocks.wrong, d)
      BY <3>1, TimesObserved
    <3>3. clocks'.wrong = 0
      BY <2>1, <3>2 DEF Held
    <3> QED
      BY <2>t, <3>3 DEF WrongInv
  <2>2. CASE Wrong /\ Wrong'
    <3>1. Connected /\ Connected'
      BY <2>2 DEF Wrong
    <3>2. PICK d \in Nat : Observe(d) /\ Account + d <= Account'
      BY <1>2, <2>2, <3>1, Advance
    <3>3. clocks.wrong <= Account
      BY <2>2 DEF WrongInv
    <3> DEFINE h == Held(Wrong, Wrong', clocks.wrong, d)
    <3>4. clocks'.wrong = h
      BY <3>2, TimesObserved
    <3>5. h \in Nat /\ h <= clocks.wrong + d
      BY <2>t, HeldLess
    <3> HIDE DEF h
    <3>6. clocks'.wrong <= Account'
      BY <2>t, <3>2, <3>3, <3>4, <3>5
    <3> QED
      BY <2>2, <3>6 DEF WrongInv
  <2> QED
    BY <2>1, <2>2
<1> QED
  BY <1>1, <1>2

LEMMA TimingStarts ==
    ASSUME HistInit
    PROVE  TimingTypeOK /\ LostInv /\ WrongInv
<1>1. CacheInv
  BY TruthReads DEF HistInit, DriverInit, CacheInv, CacheMatches
<1>2. "commlost" \notin Status
  BY TruthReads DEF HistInit, DriverInit, DriverBits
<1>3. clocks \in ClockType /\ clocks.up = 0 /\ clocks.wrong = 0
  BY DEF HistInit, ClockType
<1>4. link = "good" /\ open = TRUE /\ statusFailCount = 0 /\ sinceOk = 0 /\ wait_left = 0
  BY DEF HistInit, DriverInit, Init
<1>5. ups.rd.bits = Status
  BY DEF HistInit, DriverInit
<1>6. TimingTypeOK
  BY <1>1, <1>3, <1>4, DriverAssumption DEF TimingTypeOK
<1>7. LostInv
  BY <1>2, <1>3, <1>4 DEF LostInv, Lost
<1>8. WrongInv
  BY <1>3, <1>5 DEF WrongInv, Wrong
<1> QED
  BY <1>6, <1>7, <1>8

(* If reads fail only with the connection, a connection that works has     *)
(* cleared COMMLOST and opened the port within Settled seconds, however it *)
(* came and went before, and whatever the blocks do.                       *)
THEOREM LostAlwaysClears ==
    ASSUME ~Noise
    PROVE  HistSpec => []LostClears
<1>1. HistInit => TimingTypeOK /\ LostInv
  BY TimingStarts
<1>2. TimingTypeOK /\ LostInv /\ [HistNext]_histVars => TimingTypeOK' /\ LostInv'
  <2> SUFFICES ASSUME TimingTypeOK, LostInv, [HistNext]_histVars
               PROVE  TimingTypeOK' /\ LostInv'
    OBVIOUS
  <2>1. TimingTypeOK'
    BY TimingTypeStep
  <2> QED
    BY <2>1, LostStep
<1>3. TimingTypeOK /\ LostInv => LostClears
  <2> SUFFICES ASSUME TimingTypeOK, LostInv, clocks.up > Settled, ~(~Lost /\ open) PROVE FALSE
    BY DEF LostClears
  <2>1. Account <= Settled /\ Settled \in Nat /\ Account \in Nat /\ clocks.up \in Nat
    BY AccountSettles, PollsBounded DEF TimingTypeOK, ClockType
  <2>2. clocks.up = 0 \/ clocks.up <= Account
    BY DEF LostInv
  <2> QED
    BY <2>1, <2>2
<1> QED
  BY <1>1, <1>2, <1>3, PTL DEF HistSpec

(* A power failure, or its end, is in UPSINFO within Settled seconds in    *)
(* which the connection worked, stuck or not.                              *)
THEOREM AlwaysNoticedInTime ==
    ASSUME ~Noise
    PROVE  HistSpec => []NoticedInTime
<1>1. HistInit => TimingTypeOK /\ WrongInv
  BY TimingStarts
<1>2. TimingTypeOK /\ WrongInv /\ [HistNext]_histVars => TimingTypeOK' /\ WrongInv'
  <2> SUFFICES ASSUME TimingTypeOK, WrongInv, [HistNext]_histVars
               PROVE  TimingTypeOK' /\ WrongInv'
    OBVIOUS
  <2>1. TimingTypeOK'
    BY TimingTypeStep
  <2> QED
    BY <2>1, WrongStep
<1>3. TimingTypeOK /\ WrongInv => NoticedInTime
  <2> SUFFICES ASSUME TimingTypeOK, WrongInv PROVE clocks.wrong <= Settled
    BY DEF NoticedInTime
  <2>1. Account <= Settled /\ Settled \in Nat /\ Account \in Nat /\ clocks.wrong \in Nat
    BY AccountSettles, PollsBounded DEF TimingTypeOK, ClockType
  <2>2. clocks.wrong = 0 \/ clocks.wrong <= Account
    BY DEF WrongInv
  <2> QED
    BY <2>1, <2>2
<1> QED
  BY <1>1, <1>2, <1>3, PTL DEF HistSpec

(***************************************************************************)
(* The stuck connection.  Its polls succeed, so only the clock of the      *)
(* reads, or a COMMLOST, has it reopened.  StuckInv follows the stuck      *)
(* connection around the loop: the clock of the reads runs at least as     *)
(* long, so after a read that left it stuck less than the recovery time    *)
(* has passed, and what is left of the wait is counted in.                 *)
(***************************************************************************)
Wait == IF polltime > 1 THEN polltime ELSE 1
Recovery == VOLATILE_STALE_RECOVERY_SECS + Wait

WaitInv == pc = "poll" => wait_left <= Recovery

StuckInv ==
    /\ WaitInv
    /\ ~Stuck => clocks.stuck = 0
    /\ clocks.stuck <= sinceOk
    /\ clocks.stuck <= Recovery + LongestRead
    /\ pc \in {"enter2", "case2", "check"} => clocks.stuck <= VOLATILE_STALE_RECOVERY_SECS
    /\ pc = "poll" /\ wait_left > 0 /\ ~Lost => clocks.stuck + wait_left <= Recovery

RecoveryIsLong == VOLATILE_STALE_RECOVERY_SECS >= 5 * TIMER_FAST

LEMMA WaitBound ==
    /\ VOLATILE_STALE_RECOVERY_SECS \in Nat /\ Wait \in Nat /\ Wait >= 1 /\ Recovery \in Nat
    /\ ~Lost => device_wait_time <= Wait
    /\ RecoveryIsLong => device_wait_time <= Recovery
<1>1. polltime \in Nat /\ VOLATILE_STALE_RECOVERY_SECS \in Nat /\ device_wait_time \in Nat
  BY LoopAssumption, DriverAssumption, WaitTime
<1>2. Wait \in Nat /\ Wait >= 1 /\ polltime <= Wait
  BY <1>1 DEF Wait
<1>3. device_wait_time <= 5 \/ device_wait_time <= polltime
  BY WaitTime
<1>4. ~Lost => device_wait_time <= 1 \/ device_wait_time <= polltime
  BY WaitTime
<1> QED
  BY <1>1, <1>2, <1>3, <1>4 DEF Recovery, RecoveryIsLong, TIMER_FAST

LEMMA MinusLess ==
    ASSUME NEW n \in Nat, NEW d \in Nat
    PROVE  /\ Minus(n, d) \in Nat /\ Minus(n, d) <= n
           /\ Minus(n, d) > 0 => Minus(n, d) + d = n
  BY DEF Minus

(* A poll leaves less of the wait.                                         *)
LEMMA PollWaits ==
    ASSUME TimingTypeOK, NEW d \in ReadSecs, PollSame(d) \/ PollFails(d)
    PROVE  /\ pc = "poll" /\ pc' = "poll" /\ wait_left > 0
           /\ wait_left' = Minus(wait_left, d + 1) /\ sinceOk' = Clocked(sinceOk + d + 1)
           /\ Lost => link' # "stuck"
<1>1. Lost => Line # "stuck"
  BY DEF Line, Renegotiated
<1>2. link' = Line \/ ~Lost
  BY DEF PollSame, PollAnswered, PollFails
<1> QED
  BY <1>1, <1>2 DEF PollSame, PollAnswered, PollFails, PollAgain

LEMMA WaitStep ==
    ASSUME RecoveryIsLong, TimingTypeOK, WaitInv, [HistNext]_histVars
    PROVE  WaitInv'
<1>0. wait_left \in Nat /\ Recovery \in Nat
  BY WaitBound DEF TimingTypeOK
<1>1. CASE UNCHANGED histVars
  BY <1>1 DEF histVars, driverVars, loopVars, actionVars, WaitInv
<1>2. CASE UpsChanges
  BY <1>2 DEF UpsChanges, loopVars, actionVars, WaitInv
<1>3. CASE LoopStep \/ entry_point
  BY <1>3, ActionsForward, WaitBound DEF Forward, WaitInv, TimingTypeOK
<1>4. ASSUME NEW d \in ReadSecs, read_volatile_data(d) PROVE WaitInv'
  BY <1>4 DEF read_volatile_data, WaitInv
<1>5. ASSUME NEW d \in ReadSecs, PollChanged(d) PROVE WaitInv'
  BY <1>5 DEF PollChanged, WaitInv
<1>6. ASSUME NEW d \in ReadSecs, PollSame(d) \/ PollFails(d) PROVE WaitInv'
  <2>1. d + 1 \in Nat
    BY Longest
  <2>2. pc = "poll" /\ wait_left' = Minus(wait_left, d + 1)
    BY <1>6, PollWaits
  <2>3. Minus(wait_left, d + 1) \in Nat /\ Minus(wait_left, d + 1) <= wait_left
    BY <1>0, <2>1, MinusLess
  <2> QED
    BY <1>0, <2>2, <2>3 DEF WaitInv
<1> QED
  BY <1>1, <1>2, <1>3, <1>4, <1>5, <1>6, TimedStep

(* Its clock after a step of d seconds.                                    *)
LEMMA StuckClock ==
    ASSUME TimingTypeOK, NEW d \in Nat, Observe(d)
    PROVE  /\ clocks'.stuck \in Nat
           /\ clocks'.stuck <= clocks.stuck + d
           /\ ~Stuck \/ ~Stuck' => clocks'.stuck = 0
           /\ Stuck /\ Stuck' => clocks'.stuck = Clocked(clocks.stuck + d)
<1> DEFINE h == Held(Stuck, Stuck', clocks.stuck, d)
<1>1. clocks'.stuck = h
  BY TimesObserved
<1>2. clocks.stuck \in Nat
  BY DEF TimingTypeOK, ClockType
<1>3. h = IF Stuck /\ Stuck' THEN Clocked(clocks.stuck + d) ELSE 0
  BY DEF Held
<1>4. clocks.stuck + d \in Nat
  BY <1>2
<1>5. Clocked(clocks.stuck + d) \in Nat /\ Clocked(clocks.stuck + d) <= clocks.stuck + d
  BY <1>4, ClockedLess
<1> QED
  BY <1>1, <1>3, <1>4, <1>5

LEMMA StuckStep ==
    ASSUME RecoveryIsLong, TimingTypeOK, TimingTypeOK', StuckInv, [HistNext]_histVars
    PROVE  StuckInv'
<1> DEFINE k == clocks.stuck
           l == clocks'.stuck
           V == VOLATILE_STALE_RECOVERY_SECS
<1>0. WaitInv'
  BY WaitStep DEF StuckInv
<1>t. /\ k \in Nat /\ sinceOk \in Nat /\ sinceOk' \in Nat /\ wait_left \in Nat /\ wait_left' \in Nat
      /\ V \in Nat /\ Wait \in Nat /\ Wait >= 1 /\ Recovery \in Nat /\ Recovery = V + Wait
      /\ LongestRead \in Nat
  BY WaitBound, Longest DEF TimingTypeOK, ClockType, Recovery
<1>k. /\ k <= sinceOk /\ k <= Recovery + LongestRead
      /\ pc \in {"enter2", "case2", "check"} => k <= V
      /\ pc = "poll" /\ wait_left > 0 /\ ~Lost => k + wait_left <= Recovery
  BY DEF StuckInv
<1>l. ASSUME l \in Nat, l <= sinceOk', l <= Recovery + LongestRead,
             pc' \in {"enter2", "case2", "check"} => l <= V,
             pc' = "poll" /\ wait_left' > 0 /\ ~Lost' => l + wait_left' <= Recovery,
             ~Stuck' => l = 0
      PROVE  StuckInv'
  BY <1>0, <1>l DEF StuckInv
<1>1. CASE UNCHANGED histVars
  <2>1. UNCHANGED <<clocks, pc, wait_left, Lost, sinceOk, Stuck>>
    BY <1>1 DEF histVars, driverVars, driver, loopVars, actionVars, Lost, Stuck
  <2> QED
    BY <1>0, <2>1 DEF StuckInv
<1>2. CASE HistNext /\ (~Stuck \/ ~Stuck')
  <2>1. PICK d \in Nat : Observe(d)
    BY <1>2, SomeTime
  <2>2. l = 0
    BY <1>2, <2>1, StuckClock
  <2>3. pc' = "poll" => wait_left' <= Recovery
    BY <1>0 DEF WaitInv
  <2> HIDE DEF k, l, V
  <2>4. l \in Nat /\ l <= sinceOk' /\ l <= Recovery + LongestRead /\ l <= V
    BY <1>t, <2>2
  <2>5. ASSUME pc' = "poll" PROVE l + wait_left' <= Recovery
    <3> DEFINE w == wait_left'
    <3>1. w \in Nat /\ w <= Recovery /\ Recovery \in Nat
      BY <1>t, <2>3, <2>5
    <3> HIDE DEF w
    <3>2. 0 + w <= Recovery
      BY <3>1
    <3> QED
      BY <2>2, <3>2 DEF w
  <2> QED
    BY <1>l, <2>2, <2>4, <2>5
<1>3. CASE Stuck /\ Stuck' /\ HistNext
  <2>1. CASE UpsChanges /\ Observe(0)
    <3>1. UNCHANGED <<pc, wait_left, Lost, sinceOk>>
      BY <2>1 DEF UpsChanges, loopVars, actionVars, Lost
    <3>2. l \in Nat /\ l <= k
      BY <1>t, <2>1, StuckClock
    <3> HIDE DEF k, l, V
    <3> QED
      BY <1>3, <1>k, <1>l, <1>t, <3>1, <3>2
  <2>2. CASE (LoopStep \/ entry_point) /\ Observe(0)
    <3>1. Forward /\ Lost' = Lost /\ UNCHANGED sinceOk
      BY <2>2, ActionsForward DEF Lost, TimingTypeOK
    <3>2. l \in Nat /\ l <= k
      BY <1>t, <2>2, StuckClock
    <3>3. pc' \in {"enter2", "case2", "check"} => k <= V
      BY <1>k, <3>1 DEF Forward
    <3>4. pc' = "poll" => pc = "check" /\ wait_left' = device_wait_time
      BY <3>1 DEF Forward
    <3>5. ~Lost => device_wait_time <= Wait /\ device_wait_time \in Nat
      BY WaitBound, WaitTime
    <3> HIDE DEF k, l, V
    <3>6. pc' = "poll" /\ ~Lost' => l + wait_left' <= Recovery
      BY <1>k, <1>t, <3>1, <3>2, <3>4, <3>5
    <3>7. l <= sinceOk' /\ l <= Recovery + LongestRead
      BY <1>k, <1>t, <3>1, <3>2
    <3>8. pc' \in {"enter2", "case2", "check"} => l <= V
      BY <1>t, <3>2, <3>3
    <3> QED
      BY <1>3, <1>l, <3>2, <3>6, <3>7, <3>8
  <2>3. ASSUME NEW d \in ReadSecs, read_volatile_data(d), Observe(d) PROVE StuckInv'
    <3>1. d \in Nat
      BY Longest
    <3>2. pc' = "enter2" /\ sinceOk + d < V /\ sinceOk' = Clocked(sinceOk + d)
      BY <1>3, <2>3, ReadLeaves DEF Stuck
    <3>3. l = Clocked(k + d) /\ l \in Nat /\ l <= k + d
      BY <1>3, <2>3, <3>1, StuckClock
    <3>4. Clocked(k + d) <= Clocked(sinceOk + d)
      BY <1>k, <1>t, <3>1, ClockedLess
    <3> HIDE DEF k, l, V
    <3> QED
      BY <1>3, <1>k, <1>l, <1>t, <3>1, <3>2, <3>3, <3>4
  <2>4. ASSUME NEW d \in ReadSecs, PollChanged(d), Observe(d) PROVE StuckInv'
    <3>1. d \in Nat /\ d <= LongestRead
      BY Longest
    <3>2. pc = "poll" /\ wait_left > 0 /\ link' = Line /\ pc' = "enter1" /\ sinceOk' = Clocked(sinceOk + d)
      BY <2>4, AnswerLeaves DEF PollChanged
    <3>3. l = Clocked(k + d) /\ l \in Nat /\ l <= k + d
      BY <1>3, <2>4, <3>1, StuckClock
    <3>4. Clocked(k + d) <= Clocked(sinceOk + d)
      BY <1>k, <1>t, <3>1, ClockedLess
    <3>5. ~Lost
      BY <1>3, <3>2 DEF Stuck, Line, Renegotiated
    <3> HIDE DEF k, l, V
    <3> QED
      BY <1>3, <1>k, <1>l, <1>t, <3>1, <3>2, <3>3, <3>4, <3>5
  <2>5. ASSUME NEW d \in ReadSecs, PollSame(d) \/ PollFails(d), Observe(d + 1) PROVE StuckInv'
    <3>1. d \in Nat /\ d <= LongestRead /\ d + 1 \in Nat
      BY Longest
    <3>2. /\ pc = "poll" /\ wait_left > 0 /\ pc' = "poll" /\ ~Lost
          /\ wait_left' = Minus(wait_left, d + 1) /\ sinceOk' = Clocked(sinceOk + d + 1)
      BY <1>3, <2>5, PollWaits DEF Stuck
    <3>3. l = Clocked(k + (d + 1)) /\ l \in Nat /\ l <= k + (d + 1)
      BY <1>3, <2>5, <3>1, StuckClock
    <3>4. sinceOk' = Clocked(sinceOk + (d + 1))
      <4>1. sinceOk + d + 1 = sinceOk + (d + 1)
        BY <1>t, <3>1
      <4> QED
        BY <3>2, <4>1
    <3>5. Clocked(k + (d + 1)) <= Clocked(sinceOk + (d + 1))
      <4>1. k + (d + 1) \in Nat /\ sinceOk + (d + 1) \in Nat /\ k + (d + 1) <= sinceOk + (d + 1)
        BY <1>k, <1>t, <3>1
      <4> QED
        BY <4>1, ClockedLess
    <3>6. wait_left' > 0 => wait_left' + (d + 1) = wait_left
      BY <1>t, <3>1, <3>2, MinusLess
    <3> HIDE DEF k, l, V
    <3>7. l <= sinceOk'
      BY <3>3, <3>4, <3>5
    <3>8. l <= Recovery + LongestRead
      BY <1>k, <1>t, <3>1, <3>2, <3>3
    <3>9. wait_left' > 0 => l + wait_left' <= Recovery
      BY <1>k, <1>t, <3>1, <3>2, <3>3, <3>6
    <3> QED
      BY <1>3, <1>l, <3>2, <3>3, <3>7, <3>8, <3>9
  <2> QED
    BY <1>3, <2>1, <2>2, <2>3, <2>4, <2>5, TimedStep
<1> QED
  BY <1>1, <1>2, <1>3

(* A stuck connection is reopened within the recovery time and one pass of *)
(* the loop, although it answers every poll, and whatever else fails.  The *)
(* hypothesis: the recovery time is no shorter than the wait chosen while  *)
(* the UPS is lost, which may still run when the connection gets stuck.    *)
THEOREM StuckAlwaysRecovers ==
    ASSUME RecoveryIsLong
    PROVE  HistSpec => []StuckRecovers
<1>1. HistInit => TimingTypeOK /\ StuckInv
  <2> SUFFICES ASSUME HistInit PROVE TimingTypeOK /\ StuckInv
    OBVIOUS
  <2>1. TimingTypeOK
    BY TimingStarts
  <2>2. clocks.stuck = 0 /\ pc = "enter1" /\ sinceOk = 0
    BY DEF HistInit, DriverInit, Init
  <2> QED
    BY <2>1, <2>2, WaitBound, Longest DEF StuckInv, WaitInv
<1>2. TimingTypeOK /\ StuckInv /\ [HistNext]_histVars => TimingTypeOK' /\ StuckInv'
  <2> SUFFICES ASSUME TimingTypeOK, StuckInv, [HistNext]_histVars
               PROVE  TimingTypeOK' /\ StuckInv'
    OBVIOUS
  <2>1. TimingTypeOK'
    BY TimingTypeStep
  <2> QED
    BY <2>1, StuckStep
<1>3. TimingTypeOK /\ StuckInv => StuckRecovers
  <2> SUFFICES ASSUME TimingTypeOK, StuckInv PROVE StuckRecovers
    OBVIOUS
  <2>1. clocks.stuck \in Nat /\ clocks.stuck <= Recovery + LongestRead
    BY DEF TimingTypeOK, ClockType, StuckInv
  <2>2. polltime \in Nat /\ VOLATILE_STALE_RECOVERY_SECS \in Nat /\ LongestRead \in Nat
        /\ PollGap = LongestRead + LongestRead + 1
    BY LoopAssumption, DriverAssumption, Longest
  <2>3. Recovery <= VOLATILE_STALE_RECOVERY_SECS + polltime + 1 /\ Recovery \in Nat
    BY <2>2 DEF Recovery, Wait
  <2> HIDE DEF Recovery
  <2> QED
    BY <2>1, <2>2, <2>3 DEF StuckRecovers
<1> QED
  BY <1>1, <1>2, <1>3, PTL DEF HistSpec

=============================================================================
