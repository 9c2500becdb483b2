--------------------------- MODULE DriverHistory ----------------------------
(***************************************************************************)
(* What the MODBUS driver promises about time and about earlier events:    *)
(* ModbusDriver with clocks that only observe it.                          *)
(***************************************************************************)
EXTENDS ModbusDriver

ASSUME ReadsAssumption == \E d \in ReadSecs : \A e \in ReadSecs : e <= d     \* a read has a timeout

VARIABLES
    clocks              \* seconds for which each condition below has held

histVars == <<driverVars, clocks>>

(* How long the connection has worked or been stuck, and how long the      *)
(* status has been wrong over a connection that works.                     *)
Connected == link # "down"
Stuck == link = "stuck"
Wrong == Connected /\ ("onbatt" \in Status) # ("onbatt" \in ups.rd.bits)

Held(was, is, n, d) == IF was /\ is THEN Clocked(n + d) ELSE 0

(* A step that takes d seconds.                                            *)
Observe(d) ==
    clocks' = [up |-> Held(Connected, Connected', clocks.up, d),
               wrong |-> Held(Wrong, Wrong', clocks.wrong, d),
               stuck |-> Held(Stuck, Stuck', clocks.stuck, d)]

HistInit ==
    /\ DriverInit
    /\ clocks = [up |-> 0, wrong |-> 0, stuck |-> 0]

HistNext ==
    \/ (UpsChanges \/ LoopStep \/ entry_point) /\ Observe(0)
    \/ \E d \in ReadSecs : \/ (read_volatile_data(d) \/ PollChanged(d)) /\ Observe(d)
                           \/ (PollSame(d) \/ PollFails(d)) /\ Observe(d + 1)

HistSpec == HistInit /\ [][HistNext]_histVars

---------------------------------------------------------------------------
(* The longest time from one poll of check_state() to the end of the next, *)
(* and the time by which a working connection is surely in use again.      *)
LongestRead == CHOOSE d \in ReadSecs : \A e \in ReadSecs : e <= d
PollGap == LongestRead + LongestRead + TIMER_FAST
Settled == (STATUS_FAIL_THRESHOLD + 1) * PollGap

(* A transfer to battery or back is seen within that time, over a stuck    *)
(* connection as well and however the connection came and went before:     *)
(* the status poll never relies on the cache.                              *)
NoticedInTime == clocks.wrong <= Settled

(* COMMLOST is cleared and the port open within that time, once the        *)
(* connection works.                                                       *)
LostClears == clocks.up > Settled => ~Lost /\ open

(* A connection whose blocks cannot be read is reopened in time, although  *)
(* the status poll, and single blocks, keep on succeeding.                 *)
StuckRecovers == clocks.stuck <= VOLATILE_STALE_RECOVERY_SECS + polltime + PollGap
=============================================================================
