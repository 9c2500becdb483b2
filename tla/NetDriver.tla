------------------------------ MODULE NetDriver ------------------------------
(***************************************************************************)
(* The network driver of src/drivers/net/net.c: a slave that asks the NIS  *)
(* server of its master for everything.  Every question is a connection of *)
(* its own, which may fail, or be closed by the master before it answers.  *)
(***************************************************************************)
EXTENDS UpsDriver

CONSTANTS
    Masters,        \* sets of bits of the master's own that it may have set
    LossCap         \* where _comm_loss saturates, above 5

ASSUME NetAssumption ==
    /\ LossCap \in Nat /\ LossCap > 5
    /\ \A m \in Masters : m \subseteq {"shutdown", "commlost", "fastpoll"}

VARIABLES
    master,         \* the bits the master's daemon has set
    net             \* the driver: see NetInit

netVars == <<master, net>>

(* UPS_LOCAL_BITS: bits a slave keeps for itself.                          *)
LocalBits == {"commlost", "shutdown", "slave", "onbatt_msg", "fastpoll"}

(* What the master answers: its status, or, when it ends while it is being *)
(* asked, an empty text; or there is no connection.                        *)
Answer == [bits |-> ByteOf(truth) \cup master \cup {"battpresent"}]
NoText == [bits |-> {"nothing"}]
NoAnswer == [bits |-> {"no connection"}]
Polls == IF link = "down" THEN {NoAnswer} ELSE {Answer, NoText}

NetInit ==
    /\ master \in Masters
    /\ net = [buf    |-> NoText,    \* _statbuf
              lost   |-> FALSE,     \* UPS_commlost, within a call
              err    |-> FALSE,     \* _comm_err
              caps   |-> "unknown", \* _got_caps, and what was found
              static |-> FALSE,     \* _got_static_data
              fresh  |-> FALSE,     \* the buffer was filled less than 2 s ago
              loss   |-> 0,         \* _comm_loss
              said   |-> FALSE,     \* history: the status last taken was a shutdown
              vain   |-> 0]         \* history: checks in a row, on battery, without a connection

(* The driver when a call begins and when it ends, UPS_commlost being n's. *)
Entered == [net EXCEPT !.lost = "commlost" \in Status]
Left(n, s) ==
    /\ Status' = SetTo(s, "commlost", n.lost)
    /\ net' = [n EXCEPT !.lost = FALSE]

(* poll_ups(): the buffer is emptied first.                                *)
poll_ups(n, p) ==
    IF p = NoAnswer THEN [n EXCEPT !.buf = NoText, !.lost = TRUE]
    ELSE [n EXCEPT !.buf = p, !.lost = FALSE]

(* get_capabilities(): what the answer has is there for ever, so that an   *)
(* empty text leaves a driver without a single capability.                 *)
get_capabilities(n, p) ==
    [poll_ups(n, p) EXCEPT !.caps = IF p = NoAnswer THEN "unknown"
                                    ELSE IF p = NoText THEN "none" ELSE "all"]
read_static_data(n, p) == [poll_ups(n, p) EXCEPT !.static = p # NoAnswer]

(* fill_status_buffer(), with up to three questions.                       *)
fill_status_buffer(n, p) ==
    IF n.fresh THEN n
    ELSE IF p[1] = NoAnswer THEN [poll_ups(n, p[1]) EXCEPT !.err = TRUE]
    ELSE LET r == [poll_ups(n, p[1]) EXCEPT !.err = FALSE, !.fresh = TRUE]
             c == IF r.caps = "unknown" THEN get_capabilities(r, p[2]) ELSE r
         IN IF c.caps # "unknown" /\ ~c.static THEN read_static_data(c, p[3]) ELSE c

(* get_ups_status_flag(): what it must have first, and the buffer.         *)
Known(n, p) ==
    LET c == IF n.caps = "unknown" THEN get_capabilities(n, p[4]) ELSE n
    IN IF c.caps # "unknown" /\ ~c.static THEN read_static_data(c, p[5]) ELSE c
Parsed(n) == n.buf # NoText

(* The bits of the slave, the buffer being n.buf: the master's, and its    *)
(* own.  Without a status in the buffer they stay.                         *)
TakenStatus_all(s, n) ==                 \* mutant: the master's local bits come along
    IF Parsed(n) THEN n.buf.bits \cup (s \cap LocalBits) ELSE s
TakenStatus(s, n) ==
    IF Parsed(n)
    THEN (s \cap LocalBits) \cup (n.buf.bits \ LocalBits)
         \cup (n.buf.bits \cap {"commlost", "fastpoll"})
    ELSE s

(* The number of passes in which the master must be silent, on battery,    *)
(* before the slave gives up: _comm_loss++ == 4.                           *)
LossPasses_soon == 2                     \* mutant: three passes
LossPasses_late == 5                     \* mutant: six passes
LossPasses == 4

(* The end of get_ups_status_flag(): ok is fill_status_buffer()'s result.  *)
TakeFlag(n, st, ok) ==
    LET s    == TakenStatus(SetTo(st, "commlost", n.lost), n)
        vain == ~(ok /\ Parsed(n)) /\ "onbatt" \in s
        down == Parsed(n) /\ "shutdown" \in n.buf.bits
        quit == vain /\ n.loss = LossPasses
    IN Left([n EXCEPT !.lost = "commlost" \in s,
                      !.said = IF Parsed(n) THEN down ELSE n.said,
                      !.loss = IF ~vain THEN 0
                               ELSE IF n.loss < LossCap THEN n.loss + 1 ELSE n.loss],
            IF quit \/ down THEN s \cup {"shut_remote"} ELSE s)

Announce_often(n) ==                     \* mutant: announced at every failure
    IF n.err THEN SayFailure ELSE Silent
Announce(n) ==
    IF n.err = net.err THEN Silent ELSE IF n.err THEN SayFailure ELSE SayOk

---------------------------------------------------------------------------
(* Open() cannot fail: the master is asked later.                          *)
NetOpen ==
    /\ driver = "net" /\ phase = "open"
    /\ OpenSucceeds(Status)
    /\ UNCHANGED <<driver, options, truth, link, netVars>>

NetSetup ==
    /\ driver = "net" /\ phase = "setup"
    /\ \E p \in [1..2 -> Polls] :
         LET c == get_capabilities(Entered, p[1])
         IN Left(IF options.hibernate_ups THEN c ELSE read_static_data(c, p[2]), Status)
    /\ SetupDone(TRUE)
    /\ UNCHANGED <<driver, tries, options, truth, link, master>>

(* read_volatile_data().                                                   *)
NetRead ==
    /\ driver = "net" /\ phase = "fill"
    /\ \E p \in [1..5 -> Polls] :
         LET e == [Entered EXCEPT !.vain = IF link = "up" THEN 0 ELSE @]
             f == fill_status_buffer(e, p)
             k == Known(f, p)
         IN /\ IF f.err /\ ~net.fresh THEN Left(f, Status)
               ELSE IF k.caps = "unknown" \/ ~k.static THEN Left(k, Status \cup {"slave"})
               ELSE TakeFlag(k, Status \cup {"slave"}, TRUE)
            /\ Announce(f)
    /\ phase' = "act"
    /\ UNCHANGED <<driver, tries, options, truth, link, master>>

(* check_state(): sleep, then get_ups_status_flag(1).                      *)
InVain(fresh) ==
    IF link = "up" \/ fresh \/ "onbatt" \notin Status THEN 0
    ELSE IF net.vain < LossCap THEN net.vain + 1 ELSE net.vain
NetCheck ==
    /\ driver = "net" /\ phase = "check"
    /\ \E p \in [1..5 -> Polls], fresh \in {net.fresh, FALSE} :
         LET e == [Entered EXCEPT !.fresh = fresh, !.vain = InVain(fresh)]
             k == Known(e, p)
             f == fill_status_buffer(k, p)
         IN IF k.caps = "unknown" \/ ~k.static
            THEN Left(k, Status) /\ Silent
            ELSE TakeFlag(f, Status, fresh \/ ~f.err) /\ Announce(f)
    /\ phase' = "fill"
    /\ UNCHANGED <<driver, tries, options, truth, link, master>>

(* Two seconds pass.                                                       *)
NetTime ==
    /\ driver = "net" /\ net.fresh
    /\ net' = [net EXCEPT !.fresh = FALSE]
    /\ Silent
    /\ UNCHANGED <<driver, phase, Status, tries, options, truth, link, master>>

NetMaster ==
    /\ driver = "net" /\ phase \in {"fill", "check"}
    /\ master' \in Masters \ {master}
    /\ Silent
    /\ UNCHANGED <<driver, phase, Status, tries, options, truth, link, net>>

(* kill_power() is UpsDriver's: a slave cannot kill the master's UPS.      *)
NetKill ==
    /\ driver = "net" /\ phase = "kill"
    /\ KillDone
    /\ UNCHANGED <<driver, Status, tries, options, truth, link, netVars>>

NetClose ==
    /\ driver = "net" /\ phase = "close"
    /\ phase' = "closed" /\ Silent
    /\ UNCHANGED <<driver, Status, tries, options, truth, link, netVars>>

NetNext ==
    \/ NetOpen \/ NetSetup \/ NetRead \/ NetCheck \/ NetTime \/ NetMaster
    \/ NetKill \/ NetClose

---------------------------------------------------------------------------
(* A slave shuts down for its master only: because the status it last      *)
(* took says that the master is shutting down, or because it was on        *)
(* battery and asked in vain five times in a row.                          *)
SlaveShutdownJustified ==
    driver = "net" /\ "shut_remote" \in Status => net.said \/ net.loss >= 5

(* A slave on battery whose master stays silent shuts down at the fifth    *)
(* check, however it came to lose it: nothing it has yet to learn (its     *)
(* capabilities, the static data) makes it stop counting.                  *)
SilentMasterEndsSlave ==
    driver = "net" /\ net.vain >= 5 => "shut_remote" \in Status
=============================================================================
