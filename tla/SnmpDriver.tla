------------------------------ MODULE SnmpDriver -----------------------------
(***************************************************************************)
(* The SNMP driver of src/drivers/snmplite: snmplite.cpp and its engine    *)
(* snmp.cpp.  A poll asks for all values at once, in a datagram that may   *)
(* be answered late or never; the answers are matched to the table of the  *)
(* MIB in the order of the table.                                          *)
(***************************************************************************)
EXTENDS UpsDriver

CONSTANTS
    Mibs,               \* the strategies of mibs.cpp that are tried, in order
    ReqIds,             \* bound: an answer comes less than so many requests late
    MaxLate             \* bound: answers under way

ASSUME SnmpAssumption ==
    /\ Mibs \in Seq({"APC", "RFC", "MGE"})
    /\ ReqIds \in Nat /\ MaxLate \in Nat /\ ReqIds > MaxLate + 1

VARIABLES
    agent,              \* the MIB the card of the UPS implements
    mib,                \* _strategy
    caps,               \* UPS_Cap
    reqid,              \* _reqid
    late,               \* answers that were not there in time
    errors,             \* _error_count
    fields              \* history: the values that answered the poll that stored them

snmpVars == <<agent, mib, caps, reqid, late, errors, fields>>

(* The dynamic rows of the tables, BATTLEV standing for the measurements.  *)
ApcCiOidMap     == <<"BATTLEV", "STATUS", "LowBattery">>
Rfc1628CiOidMap == <<"BATTLEV", "STATUS", "LowBattery">>
MGE_CiOidMap    == <<"STATUS", "BATTLEV", "LowBattery">>
Rows(m) == CASE m = "APC" -> ApcCiOidMap
             [] m = "RFC" -> Rfc1628CiOidMap
             [] m = "MGE" -> MGE_CiOidMap
Cis == {"BATTLEV", "STATUS", "LowBattery"}
NoMib == "none"

Agents == {Mibs[i] : i \in DOMAIN Mibs} \cup {NoMib}
SnmpInit ==
    /\ agent \in Agents
    /\ mib = NoMib /\ caps = {} /\ reqid = 0 /\ late = {} /\ errors = 0
    /\ fields = Cis

NextId == (reqid + 1) % ReqIds

(* An answer to request id: which of the values it has.                    *)
Response(id, valid, slow) ==
    [id |-> id, valid |-> valid, bits |-> ByteOf(truth), slow |-> slow]

(* perform(): the answer arrives in time, or late or never.                *)
Arrives == {Response(reqid, v, FALSE) : v \in SUBSET caps}
StillComing(l) == {r \in l : r.id # NextId}
TimesOut ==
    \/ late' = StillComing(late)
    \/ /\ link = "up" /\ Cardinality(late) < MaxLate
       /\ late' = StillComing(late \cup {Response(reqid, caps, TRUE)})

(* rspwait() takes an answer to the last request, and drops any other.     *)
Matches_any(r) == TRUE                          \* mutant: whatever comes
Matches(r) == r.id = reqid

---------------------------------------------------------------------------
(* update_ci_func() of the three MIBs, for the rows a poll has updated.    *)
apc_update_ci(s, ci, b) ==
    CASE ci = "STATUS"     -> (s \ {"online", "onbatt", "boost", "trim"})
                              \cup (b \cap {"online", "onbatt"})
      [] ci = "LowBattery" -> SetTo(s, "battlow", "battlow" \in b)
      [] OTHER             -> s
rfc1628_update_ci(s, ci, b) == apc_update_ci(s, ci, b)
mge_update_ci(s, ci, b) ==
    CASE ci = "STATUS"     -> IF "onbatt" \in b THEN clear_online(s) ELSE set_online(s)
      [] ci = "LowBattery" -> SetTo(s, "battlow", "battlow" \in b)
      [] OTHER             -> s
update_ci(s, ci, b) ==
    CASE mib = "APC" -> apc_update_ci(s, ci, b)
      [] mib = "RFC" -> rfc1628_update_ci(s, ci, b)
      [] mib = "MGE" -> mge_update_ci(s, ci, b)

(* update_cis(): the rows that were asked for, in the order of the table,  *)
(* each with the answer the iterator has come to.  The iterator moves on   *)
(* only over a valid answer, so that the first one without ends it.  Rows  *)
(* change bits of their own, whatever their order.                         *)
Place(c) == CHOOSE i \in DOMAIN Rows(mib) : Rows(mib)[i] = c
Updated(r) == {c \in caps : \A d \in caps : Place(d) <= Place(c) => d \in r.valid}
FieldsAfter(r) == IF r.slow THEN fields \ Updated(r) ELSE fields \cup Updated(r)
StatusAfter(r) ==
    LET with(s, ci) == IF ci \in Updated(r) THEN update_ci(s, ci, r.bits) ELSE s
    IN with(with(Status, "STATUS"), "LowBattery")

---------------------------------------------------------------------------
(* Open(): the community and the MIB are probed for; without an answer the *)
(* program exits.  (It is not tried again: open_ups() never sees FALSE.)   *)
ProbeMib == {m \in Agents \ {NoMib} : m = agent}
SnmpOpen ==
    /\ driver = "snmplite" /\ phase = "open"
    /\ \/ /\ link = "down" \/ ProbeMib = {}
          /\ Abort /\ UNCHANGED <<Status, tries, mib>>
       \/ /\ link = "up" /\ mib' \in ProbeMib
          /\ OpenSucceeds(Status)
    /\ reqid' = NextId
    /\ UNCHANGED <<driver, options, truth, link, agent, caps, late, errors, fields>>

(* get_capabilities(): every row is asked for once, on its own.            *)
SnmpSetup ==
    /\ driver = "snmplite" /\ phase = "setup"
    /\ caps' \in IF link = "up" THEN SUBSET Cis ELSE {{}}
    /\ SetupDone("STATUS" \in caps')
    /\ reqid' = NextId
    /\ UNCHANGED <<driver, Status, tries, options, truth, link, agent, mib, late, errors, fields>>

(* read_volatile_data() when the poll is answered.                         *)
SnmpReadOk ==
    /\ driver = "snmplite" /\ phase = "fill"
    /\ \E r \in (IF link = "up" THEN Arrives ELSE {}) \cup late :
         /\ Matches(r)
         /\ late' = StillComing(late \ {r})
         /\ Status' = StatusAfter(r) \ {"commlost"}
         /\ fields' = FieldsAfter(r)
    /\ IF "commlost" \in Status THEN SayOk ELSE Silent
    /\ errors' = 0 /\ reqid' = NextId /\ phase' = "act"
    /\ UNCHANGED <<driver, tries, options, truth, link, agent, mib, caps>>

(* read_volatile_data() when it is not: the engine is closed and opened,   *)
(* which loses what is still under way.  Before that the answer may be     *)
(* taken for the next request's.                                           *)
COMMLOST_ERRORS == 3
Reopened == late' = {}
SnmpReadFails ==
    /\ driver = "snmplite" /\ phase = "fill"
    /\ Reopened
    /\ IF "commlost" \notin Status /\ errors + 1 >= COMMLOST_ERRORS
       THEN Status' = Status \cup {"commlost"} /\ SayFailure
       ELSE UNCHANGED Status /\ Silent
    /\ errors' = IF "commlost" \in Status THEN errors ELSE errors + 1
    /\ reqid' = NextId /\ phase' = "act"
    /\ UNCHANGED <<driver, tries, options, truth, link, agent, mib, caps, fields>>

(* check_state(): a trap or the time wakes the loop.                       *)
SnmpCheck ==
    /\ driver = "snmplite" /\ phase = "check"
    /\ phase' = "fill" /\ Silent
    /\ UNCHANGED <<driver, Status, tries, options, truth, link, snmpVars>>

(* entry_point(DEVICE_CMD_CHECK_SELFTEST) polls again, in do_action(): an  *)
(* answer that comes too late for it stays under way.                      *)
SnmpSelfTest ==
    /\ driver = "snmplite" /\ phase = "act"
    /\ \/ /\ link = "up"
          /\ \E r \in Arrives : Status' = StatusAfter(r) /\ fields' = FieldsAfter(r)
          /\ late' = StillComing(late)
       \/ TimesOut /\ UNCHANGED <<Status, fields>>
    /\ reqid' = NextId
    /\ Silent
    /\ UNCHANGED <<driver, phase, tries, options, truth, link, agent, mib, caps, errors>>

(* kill_power(): killpower_func() of the MIB; MGE has none.  The three     *)
(* Set()s of RFC count as one request here: no result is looked at.        *)
SnmpKill ==
    /\ driver = "snmplite" /\ phase = "kill"
    /\ KillDone
    /\ IF mib = "MGE" THEN UNCHANGED <<reqid, late>>
       ELSE reqid' = NextId /\ late' = StillComing(late)
    /\ UNCHANGED <<driver, Status, tries, options, truth, link, agent, mib, caps, errors,
                   fields>>

SnmpClose ==
    /\ driver = "snmplite" /\ phase = "close"
    /\ phase' = "closed" /\ Silent
    /\ UNCHANGED <<driver, Status, tries, options, truth, link, snmpVars>>

SnmpNext ==
    \/ SnmpOpen \/ SnmpSetup \/ SnmpReadOk \/ SnmpReadFails \/ SnmpCheck
    \/ SnmpSelfTest \/ SnmpKill \/ SnmpClose

---------------------------------------------------------------------------
(* However late an answer comes, and whatever the driver did meanwhile (a  *)
(* self test asked for, the engine closed and opened): no value and no     *)
(* status is ever taken from the answer to an earlier poll.                *)
AnswersAreCurrent == driver = "snmplite" => fields = Cis
=============================================================================
