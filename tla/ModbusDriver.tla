---------------------------- MODULE ModbusDriver -----------------------------
(***************************************************************************)
(* The MODBUS driver of src/drivers/modbus/modbus.cpp in the device loop:  *)
(* read_volatile_data() with its cache of three register blocks, the live  *)
(* status poll of check_state() with COMMLOST, and the self-test question  *)
(* of do_action(), answered from the cache.                                *)
(*                                                                         *)
(* The UPS (ups) and the connection (link) change at any time.  A "stuck"  *)
(* link answers single-register reads and garbles at least one of the      *)
(* blocks until the device is reopened; a link that is "down" answers      *)
(* nothing and cannot be opened.                                           *)
(***************************************************************************)
EXTENDS DeviceLoop

CONSTANTS
    STATUS_FAIL_THRESHOLD,          \* 3 in the code
    VOLATILE_STALE_RECOVERY_SECS,   \* 180 in the code
    Links,                          \* what the connection may be like
    Noise,                          \* whether any read may fail
    SelfTests,                      \* whether the UPS may test itself: {FALSE} or BOOLEAN
    ClockCap                        \* where clocks saturate

Blocks == {"A", "B", "C"}

(* What the UPS may be doing: a reading, and whether it tests itself.      *)
Truths == {u \in [rd : Readings, test : SelfTests] : u.test => "onbatt" \in u.rd.bits}

ASSUME DriverAssumption ==
    /\ STATUS_FAIL_THRESHOLD \in Nat \ {0}
    /\ VOLATILE_STALE_RECOVERY_SECS \in Nat
    /\ VOLATILE_STALE_RECOVERY_SECS <= ClockCap
    /\ Links \subseteq {"good", "stuck", "down"}
    /\ "good" \in Links
    /\ \A r \in Readings : "shut_remote" \notin r.bits
    /\ Noise \in BOOLEAN
    /\ SelfTests \in {{FALSE}, BOOLEAN}
    /\ ClockCap \in Nat
    /\ Lapses = DriverLapses

VARIABLES
    ups, link,          \* the environment
    open,               \* _comm->_open
    valid,              \* the blocks X for which _measBlockXValid
    blockA, blockC,     \* what was last read into _measBlockA, _measBlockC
    lastxfer,           \* UPSINFO::lastxfer = XFER_SELFTEST
    statusFailCount,    \* _statusFailCount
    sinceOk             \* time(NULL) - _lastVolatileOk

cache == <<valid, blockA, blockC>>
driver == <<link, open, cache, lastxfer, statusFailCount, sinceOk>>
driverVars == <<loopVars, ups, driver>>

Clocked(n) == IF n < ClockCap THEN n ELSE ClockCap

---------------------------------------------------------------------------
(* What the registers of a block say: charge and runtime, status and       *)
(* transfer reason.  (Block B holds nothing that do_action() looks at.)    *)
AReads(u) == [chg |-> u.rd.chg, left |-> u.rd.left]
CReads(u) == [bits |-> u.rd.bits, test |-> u.test]

(* do_device() has opened the device and read everything once.             *)
DriverInit ==
    /\ Init
    /\ ups \in Truths
    /\ Status = ups.rd.bits /\ BattChg = ups.rd.chg /\ TimeLeft = ups.rd.left
    /\ link = "good" /\ open = TRUE
    /\ valid = Blocks /\ blockA = AReads(ups) /\ blockC = CReads(ups)
    /\ lastxfer = ups.test
    /\ statusFailCount = 0 /\ sinceOk = 0

(* The UPS and the connection change while the device thread reads, polls  *)
(* or sleeps.                                                              *)
UpsChanges ==
    /\ pc \in {"fill", "poll"}
    /\ ups' \in Truths
    /\ link' \in Links
    /\ <<ups', link'>> # <<ups, link>>
    /\ UNCHANGED <<loopVars, open, cache, lastxfer, statusFailCount, sinceOk>>

(* _comm->Open(), after a Close(): it makes both sides start over.         *)
Opens(l) == l # "down"
Renegotiated(l) == IF l = "stuck" THEN "good" ELSE l

---------------------------------------------------------------------------
(* UpdateCis(true) from the blocks v, a and c, c telling the transfer      *)
(* reason too, which is kept only if the status says on battery.           *)
AppliedStatus_wiped(v, c) ==                 \* mutant: the daemon's own bits go, too
    IF "C" \in v THEN c.bits ELSE Status
AppliedStatus(v, c) == IF "C" \in v THEN (Status \ DriverBits) \cup c.bits ELSE Status
AppliedXfer(v, c) == IF "C" \in v /\ "onbatt" \in c.bits THEN c.test ELSE lastxfer
ApplyMeasurements(v, a) ==
    IF "A" \in v THEN FillMeasurements(a) ELSE UNCHANGED <<BattChg, TimeLeft>>

(* FetchMeasurementBlocks(): the blocks that could be read.                *)
Fetches ==
    IF ~open \/ link = "down" THEN {{}}
    ELSE IF link = "stuck" THEN (SUBSET Blocks) \ {Blocks}
    ELSE IF Noise THEN SUBSET Blocks ELSE {Blocks}

(* The recovery of read_volatile_data(): reopen the device when too much   *)
(* time has passed since all blocks were read.                             *)
StaleClockRestarts_any(ok) == ok # {}     \* mutant: one block is enough
StaleClockRestarts(ok) == ok = Blocks

Recover(ok, d) ==
    IF StaleClockRestarts(ok)
    THEN sinceOk' = 0 /\ UNCHANGED <<link, open>>
    ELSE IF sinceOk + d >= VOLATILE_STALE_RECOVERY_SECS
    THEN sinceOk' = 0 /\ open' = Opens(link) /\ link' = Renegotiated(link)
    ELSE sinceOk' = Clocked(sinceOk + d) /\ UNCHANGED <<link, open>>

read_volatile_data(d) ==
    /\ pc = "fill"
    /\ \E ok \in Fetches :
         /\ valid' = ok
         /\ blockA' = IF "A" \in ok THEN AReads(ups) ELSE blockA
         /\ blockC' = IF "C" \in ok THEN CReads(ups) ELSE blockC
         /\ Recover(ok, d)
    /\ Status' = AppliedStatus(valid', blockC')
    /\ ApplyMeasurements(valid', blockA')
    /\ lastxfer' = AppliedXfer(valid', blockC')
    /\ age' = Aged(d)
    /\ pc' = "enter2"
    /\ UNCHANGED <<PrevStatus, inSelfTest, first, nologin_file, ChangeBattCounter,
                   accounting, disk, events, wait_left, ups, statusFailCount>>

(* entry_point(DEVICE_CMD_CHECK_SELFTEST): UpdateCis(true) again, from the *)
(* cache, and a look at the transfer reason.                               *)
SelfTestBlock_live == CReads(ups)          \* mutant: the UPS is asked again
SelfTestBlock == blockC

entry_point ==
    /\ PowerFailure(AppliedStatus(valid, SelfTestBlock),
                    valid # {} /\ AppliedXfer(valid, SelfTestBlock))
    /\ ApplyMeasurements(valid, blockA)
    /\ lastxfer' = AppliedXfer(valid, SelfTestBlock)
    /\ UNCHANGED <<wait_left, ups, link, open, cache, statusFailCount, sinceOk>>

(* The other steps of the device loop.  (No register sets shut_remote, so  *)
(* EnterRemote is not among them.)                                         *)
LoopStep ==
    /\ \/ StartCheck \/ CheckTimeout
       \/ /\ \/ Enter \/ OnMains \/ SelfTestRuns \/ MainsBack \/ Calibration
             \/ OnBatteryAnnounce \/ OnBatteryShuttingDown \/ OnBatteryTimeout
             \/ OnBatteryLimit \/ OnBatteryWait
          /\ UNCHANGED wait_left
    /\ UNCHANGED <<ups, driver>>

---------------------------------------------------------------------------
(* One pass of the loop of check_state().                                  *)
Lost == "commlost" \in Status

(* The port and the connection when the poll is sent: after COMMLOST the   *)
(* device is opened again.                                                 *)
Port_kept == open                            \* mutant: it is not opened again
Port == IF Lost THEN Opens(link) ELSE open
Line == IF Lost THEN Renegotiated(link) ELSE link

(* The live read of CI_STATUS.                                             *)
PolledStatus_cached == blockC.bits         \* mutant: served from the cache
PolledStatus == ups.rd.bits

(* The poll is answered: the UPS is not lost any more.                     *)
PollAnswered ==
    /\ pc = "poll" /\ wait_left > 0
    /\ Port /\ Line # "down"
    /\ open' = Port /\ link' = Line
    /\ Status' = Answered((Status \ {"onbatt"}) \cup (PolledStatus \cap {"onbatt"}))
    /\ statusFailCount' = 0
    /\ UNCHANGED <<ups, cache, lastxfer, pollFrame>>

(* A change of the on-battery status ends the wait.                        *)
PollChanged(d) ==
    /\ PollAnswered
    /\ ("onbatt" \in Status') # ("onbatt" \in Status)
    /\ pc' = "enter1"
    /\ wait_left' = 0
    /\ age' = Aged(d)
    /\ sinceOk' = Clocked(sinceOk + d)

(* Otherwise, and when the poll failed, the driver sleeps for a second.    *)
PollAgain(d) ==
    /\ wait_left' = Minus(wait_left, d + 1)
    /\ age' = Aged(d + 1)
    /\ sinceOk' = Clocked(sinceOk + d + 1)
    /\ UNCHANGED pc

PollSame(d) ==
    /\ PollAnswered
    /\ ("onbatt" \in Status') = ("onbatt" \in Status)
    /\ PollAgain(d)

(* The poll fails: the third failure in a row makes it lost.               *)
FailCount == IF Lost THEN statusFailCount ELSE statusFailCount + 1

PollFails(d) ==
    /\ pc = "poll" /\ wait_left > 0
    /\ Noise \/ ~Port \/ Line = "down"
    /\ statusFailCount' = FailCount
    /\ IF ~Lost /\ statusFailCount' >= STATUS_FAIL_THRESHOLD
       THEN Status' = Status \cup {"commlost"} /\ open' = FALSE /\ UNCHANGED link
       ELSE open' = Port /\ link' = Line /\ UNCHANGED Status
    /\ UNCHANGED <<ups, cache, lastxfer, pollFrame>>
    /\ PollAgain(d)

DriverNext ==
    \/ UpsChanges \/ LoopStep \/ entry_point
    \/ \E d \in ReadSecs : \/ read_volatile_data(d) \/ PollChanged(d)
                           \/ PollSame(d) \/ PollFails(d)

DriverSpec == DriverInit /\ [][DriverNext]_driverVars

---------------------------------------------------------------------------
(* Properties.                                                             *)

DriverTypeOK ==
    /\ ups \in Truths
    /\ link \in {"good", "stuck", "down"}
    /\ open \in BOOLEAN
    /\ valid \in SUBSET Blocks
    /\ blockA \in {AReads(u) : u \in Truths} /\ blockC \in {CReads(u) : u \in Truths}
    /\ lastxfer \in BOOLEAN
    /\ statusFailCount \in 0 .. STATUS_FAIL_THRESHOLD
    /\ sinceOk \in 0 .. ClockCap

(* Between two reads UPSINFO says what the cache says: answering from the  *)
(* cache again, in the middle of do_action(), changes none of the bits the *)
(* shutdown timers look at.  Only the live poll moves onbatt away from it, *)
(* and do_action() silences replacebatt.                                   *)
CacheMatches ==
    /\ "C" \in valid =>
          /\ Status \cap {"battlow", "calibration", "battpresent"}
               = blockC.bits \cap {"battlow", "calibration", "battpresent"}
          /\ "shut_remote" \notin Status
          /\ "replacebatt" \in Status => "replacebatt" \in blockC.bits
    /\ "A" \in valid => BattChg = blockA.chg /\ TimeLeft = blockA.left

(* The driver keeps the contract the device loop relies on: every step of  *)
(* it is a step of DeviceLoop, although the self-test question overwrites  *)
(* the status word from the cache in the middle of do_action().            *)
ImplementsLoop == Spec
=============================================================================
