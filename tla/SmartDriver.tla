----------------------------- MODULE SmartDriver -----------------------------
(***************************************************************************)
(* The smart-signalling driver of src/drivers/apcsmart: a question is one  *)
(* character, the answer a line that carries nothing of the question, and  *)
(* a line that comes too late is read as the answer to a later question.   *)
(* UPSlinkCheck() is what brings the two back into step.  A line that      *)
(* stops for a second is taken for an answer as far as it has come, and    *)
(* the rest of it is read as the next.                                     *)
(***************************************************************************)
EXTENDS UpsDriver

CONSTANTS
    MaxWire,            \* bound: answers and alerts under way
    PollRetries,        \* how often a question is put again; 2 in the code
    StatusRetries,      \* how often "SM" is refused as a status; 5 in the code
    LinkPolls,          \* COMMLOST_TIMEOUT_MS, in turns of UPSlinkCheck()
    Garbled             \* what strtoul() may make of a part of a line

ASSUME SmartAssumption ==
    /\ {MaxWire, PollRetries, StatusRetries, LinkPolls} \subseteq Nat
    /\ Garbled \subseteq SUBSET ApcByte

VARIABLES
    wire,               \* what the UPS has sent, or is about to, in order
    smart,              \* the driver: see SmartInit
    origin              \* history: the question whose answer the status is from

smartVars == <<wire, smart, origin>>

(* "Q" asks for the status, "B" for a measurement, "S" for a setting, "G"  *)
(* for the reason of the last transfer; "Y" is answered by "SM".  NoLine   *)
(* is the empty string smart_poll() gives up with.  Rest is what remains   *)
(* of a line that was cut, and Cut an answer in which such a part is; a    *)
(* line that was cut before its end leaves only the empty string, Blank.   *)
Line(q) == [kind |-> "line", q |-> q, bits |-> IF q = "Q" THEN ByteOf(truth) ELSE {}]
Alert(t) == [kind |-> "alert", q |-> "none", bits |-> t]
NoLine == [kind |-> "line", q |-> "empty", bits |-> {}]
Rest == [kind |-> "line", q |-> "rest", bits |-> {}]
Cut(b) == [kind |-> "line", q |-> "cut", bits |-> b]
Blank == [kind |-> "line", q |-> "blank", bits |-> {}]

SmartInit ==
    /\ wire = <<>>
    /\ smart = [fd     |-> FALSE,   \* _ups->fd is open
                call   |-> "none",  \* the call of the driver that is running
                todo   |-> <<>>,    \* its questions, from the one being asked on
                retry  |-> PollRetries,      \* smart_poll(): retry
                again  |-> StatusRetries,
                silent |-> FALSE,   \* the question was not answered
                check  |-> "no",    \* _linkcheck, and the part of it that runs
                waited |-> 0,       \* time in UPSlinkCheck(), up to LinkPolls
                locked |-> FALSE,   \* this thread holds the UPS lock
                caps   |-> {}]      \* UPS_Cap
    /\ origin = "Q"

(* The wire after a question: the answer is on its way, or is lost.        *)
Sent(w, q) ==
    {w} \cup IF smart.fd /\ link = "up" /\ Len(w) < MaxWire THEN {Append(w, Line(q))} ELSE {}

(* tcflush() drops what has arrived.                                       *)
Flushed(w) == {SubSeq(w, k, Len(w)) : k \in 1..(Len(w) + 1)}

(* getline() gives up within line l: its first characters are in the       *)
(* buffer, which keeps the end of the answer before and is not terminated  *)
(* anew.  That may be no answer to anything, or still be l, or "SM": that  *)
(* is left of "SMART-UPS", and of "S", the reason for a transfer, before   *)
(* the "M" of an "SM".  No status and no rest of a line begins with "S".   *)
CutTo(l) ==
    {Cut(b) : b \in Garbled}
    \cup IF l.q = "rest" THEN {} ELSE IF l.q = "Q" THEN {l} ELSE {l, Line("Y")}

(* What getline() finds where line l begins.                               *)
Whole(l) == IF l.q = "rest" THEN {Cut(b) : b \in Garbled} \cup {Blank} ELSE {l}

(* getline(), s not being NULL: the first line, or a part of it and a      *)
(* second of silence, or NoLine after a second of silence.  [ans, rest].   *)
Reads(w) ==
    {[ans |-> NoLine, rest |-> w]}
    \cup IF w # <<>> /\ Head(w).kind = "line"
         THEN {[ans |-> a, rest |-> Tail(w)] : a \in Whole(Head(w))}
              \cup {[ans |-> a, rest |-> <<Rest>> \o Tail(w)] : a \in CutTo(Head(w))}
         ELSE {}

(* The UPS tells of a change of its own accord, and getline() takes note   *)
(* of it wherever it is waiting.                                           *)
SmartAlert ==
    /\ driver = "apcsmart" /\ smart.fd /\ link = "up" /\ Len(wire) < MaxWire
    /\ smart.call = "volatile" \/ phase = "check"
    /\ \A i \in DOMAIN wire : wire[i].kind = "line"
    /\ wire' = Append(wire, Alert(truth))
    /\ Silent
    /\ UNCHANGED <<driver, phase, Status, tries, options, truth, link, smart, origin>>

Alerted(s, t) ==
    LET o == IF "onbatt" \in t THEN clear_online(s) ELSE set_online(s)
    IN SetTo(o, "battlow", "battlow" \in t) \cup (t \cap {"replacebatt"})
SmartReadsAlert ==
    /\ driver = "apcsmart" /\ wire # <<>> /\ Head(wire).kind = "alert"
    /\ smart.call # "none"
    /\ Status' = Alerted(Status, Head(wire).bits)
    /\ wire' = Tail(wire)
    /\ Silent
    /\ UNCHANGED <<driver, phase, tries, options, truth, link, smart, origin>>

---------------------------------------------------------------------------
(* Open() and setup(): five times "Y", and the program ends without "SM".  *)
SmartOpen ==
    /\ driver = "apcsmart" /\ phase = "open"
    /\ \/ /\ link = "down" /\ OpenFails
          /\ UNCHANGED smart
       \/ /\ link = "up" /\ OpenSucceeds(Status)
          /\ smart' = [smart EXCEPT !.fd = TRUE]
    /\ UNCHANGED <<driver, options, truth, link, wire, origin>>

(* A call begins: the lock is taken, except by read_static_data(), and     *)
(* except by entry_point(), whose caller do_action() holds it.             *)
TakesLock_caps(call) == call = "caps"    \* mutant: read_volatile_data() does not take it
TakesLock(call) == call # "static"
Begin(call, todo, check) ==
    smart' = [smart EXCEPT !.call = call, !.todo = todo, !.check = check, !.retry = PollRetries,
                           !.again = StatusRetries, !.silent = FALSE, !.waited = 0,
                           !.locked = TakesLock(call)]

SmartSetup ==
    /\ driver = "apcsmart" /\ phase = "setup" /\ smart.call = "none"
    /\ \/ Abort /\ UNCHANGED <<smart, wire>>
       \/ /\ link = "up"
          /\ wire' \in {<<>>, <<Line("Y")>>}
          /\ Begin("caps", <<"Q", "B">>, "no")
          /\ UNCHANGED phase /\ Silent
    /\ UNCHANGED <<driver, Status, tries, options, truth, link, origin>>

(* read_volatile_data() checks the link first; the two trailing "Y" are    *)
(* questions like the others.                                              *)
VolatileCheck_none == "no"               \* mutant: the link is not checked first
VolatileCheck == "first"
IfKnown(q) == IF q \in smart.caps THEN <<q>> ELSE <<>>
SmartRead ==
    /\ driver = "apcsmart" /\ phase = "fill" /\ smart.call = "none"
    /\ Begin("volatile", IfKnown("Q") \o IfKnown("B") \o <<"Y", "Y">>, VolatileCheck)
    /\ Silent
    /\ UNCHANGED <<driver, phase, Status, tries, options, truth, link, wire, origin>>

(* entry_point(DEVICE_CMD_CHECK_SELFTEST), from do_action().               *)
SmartSelfTest ==
    /\ driver = "apcsmart" /\ phase = "act" /\ smart.call = "none"
    /\ "onbatt" \in Status
    /\ Begin("selftest", <<"G">>, "no")
    /\ Silent
    /\ UNCHANGED <<driver, phase, Status, tries, options, truth, link, wire, origin>>

---------------------------------------------------------------------------
(* The answer a to the question asked, as the call that asked stores it:   *)
(* strtoul() finds no status in "SM" nor in the empty string.              *)
StatusByte(a) == a.bits
Stored(s, q, a) ==
    IF smart.call = "volatile" /\ q = "Q"
    THEN Status' = (s \ ApcByte) \cup StatusByte(a) /\ origin' = a.q
    ELSE Status' = s /\ UNCHANGED origin
Answered(s, q, a) ==
    /\ Stored(s, q, a)
    /\ smart' = [smart EXCEPT !.todo = Tail(@), !.retry = PollRetries, !.again = StatusRetries,
                              !.silent = FALSE, !.check = "no", !.waited = 0,
                              !.locked = TakesLock(smart.call),
                              !.caps = IF smart.call = "caps" /\ a.q \notin {"empty", "blank"}
                                       THEN @ \cup {q} ELSE @]

(* smart_poll(): one question, which may be put again.                     *)
SmartPoll ==
    /\ driver = "apcsmart" /\ smart.todo # <<>> /\ smart.check = "no"
    /\ LET q == Head(smart.todo)
       IN \E w \in Sent(wire, q) : \E r \in Reads(w) :
            /\ wire' = r.rest
            /\ \/ /\ r.ans = NoLine
                  /\ smart' = [smart EXCEPT !.silent = TRUE, !.check = "first"]
                  /\ UNCHANGED <<Status, origin>>
               \/ /\ r.ans.q = "Y" /\ q = "Q" /\ smart.call = "volatile" /\ smart.again > 0
                  /\ smart' = [smart EXCEPT !.again = @ - 1, !.retry = PollRetries]
                  /\ UNCHANGED <<Status, origin>>
               \/ /\ r.ans # NoLine
                  /\ ~(r.ans.q = "Y" /\ q = "Q" /\ smart.call = "volatile" /\ smart.again > 0)
                  /\ Answered(Status, q, r.ans)
    /\ Silent
    /\ UNCHANGED <<driver, phase, tries, options, truth, link>>

(* UPSlinkCheck() returns, to read_volatile_data() or to smart_poll(),     *)
(* with the link up and, if it was given away, the lock taken.             *)
CheckReturns ==
    LET up == Status \ {"commlost"}
        q  == Head(smart.todo)
    IN IF smart.silent /\ (q = "Y" \/ smart.retry = 0) THEN Answered(up, q, NoLine)
       ELSE /\ smart' = [smart EXCEPT !.check = "no", !.silent = FALSE, !.waited = 0,
                                      !.retry = IF smart.silent THEN @ - 1 ELSE @,
                                      !.locked = @ \/ smart.check = "loop"]
            /\ Status' = up /\ UNCHANGED origin

(* UPSlinkCheck(), the first "Y": if it fails, the lock is given away for  *)
(* as long as the link is down.  A thread that does not have it gets an    *)
(* error from the recursive mutex, and V() ends the program.               *)
Resynchronized(a) == a.q = "Y"
SmartCheckFirst ==
    /\ driver = "apcsmart" /\ smart.check = "first"
    /\ \E f \in Flushed(wire) : \E w \in Sent(f, "Y") : \E r \in Reads(w) :
         /\ wire' = r.rest
         /\ \/ /\ Resynchronized(r.ans)
               /\ CheckReturns /\ UNCHANGED phase /\ Silent
            \/ /\ ~Resynchronized(r.ans) /\ smart.locked
               /\ smart' = [smart EXCEPT !.check = "loop", !.waited = 0, !.locked = FALSE]
               /\ UNCHANGED <<Status, phase, origin>> /\ Silent
            \/ /\ ~Resynchronized(r.ans) /\ ~smart.locked
               /\ UNCHANGED <<Status, smart, origin>> /\ Abort
    /\ UNCHANGED <<driver, tries, options, truth, link>>

(* UPSlinkCheck(), the loop.                                               *)
SmartCheckLoop ==
    /\ driver = "apcsmart" /\ smart.check = "loop"
    /\ \E f \in Flushed(wire) : \E w \in Sent(f, "Y") : \E r \in Reads(w) :
         \/ /\ Resynchronized(r.ans)
            /\ wire' = r.rest
            /\ CheckReturns
            /\ IF "commlost" \in Status THEN SayOk ELSE Silent
         \/ /\ ~Resynchronized(r.ans)
            /\ IF smart.waited < LinkPolls
               THEN /\ wire' = r.rest
                    /\ smart' = [smart EXCEPT !.waited = @ + 1]
                    /\ UNCHANGED Status /\ Silent
               ELSE /\ wire' = <<>>
                    /\ smart' = [smart EXCEPT !.fd = link = "up"]
                    /\ Status' = Status \cup {"commlost"}
                    /\ IF "commlost" \in Status THEN Silent ELSE SayFailure
            /\ UNCHANGED origin
    /\ UNCHANGED <<driver, phase, tries, options, truth, link>>

---------------------------------------------------------------------------
(* The call returns: after get_capabilities() comes read_static_data().    *)
SmartReturn ==
    /\ driver = "apcsmart" /\ smart.call # "none"
    /\ smart.todo = <<>> /\ smart.check = "no"
    /\ IF smart.call = "caps" /\ ~options.hibernate_ups
       THEN Begin("static", <<"S">>, "no") /\ Silent /\ UNCHANGED phase
       ELSE /\ smart' = [smart EXCEPT !.call = "none", !.locked = FALSE]
            /\ \/ smart.call \in {"caps", "static"} /\ SetupDone(TRUE)
               \/ smart.call = "volatile" /\ phase' = "act" /\ Silent
               \/ smart.call = "selftest" /\ Silent /\ UNCHANGED phase
    /\ UNCHANGED <<driver, Status, tries, options, truth, link, wire, origin>>

(* check_state(): getline(NULL) drops lines, and returns at an alert or    *)
(* when the time is over.                                                  *)
SmartCheck ==
    /\ driver = "apcsmart" /\ phase = "check" /\ smart.call = "none"
    /\ \E k \in 0..Len(wire) :
         /\ \A i \in 1..(k - 1) : wire[i].kind = "line"
         /\ wire' = SubSeq(wire, k + 1, Len(wire))
         /\ Status' = IF k > 0 /\ wire[k].kind = "alert" THEN Alerted(Status, wire[k].bits)
                      ELSE Status
    /\ phase' = "fill" /\ Silent
    /\ UNCHANGED <<driver, tries, options, truth, link, smart, origin>>

(* kill_power(): "S", then "@00" and "@000", then "KK" - whatever the UPS  *)
(* acknowledges, but never a second one after that.  Its result is not     *)
(* looked at.                                                              *)
SmartKill ==
    /\ driver = "apcsmart" /\ phase = "kill" /\ smart.call = "none"
    /\ KillDone
    /\ UNCHANGED <<driver, Status, tries, options, truth, link, smartVars>>

SmartClose ==
    /\ driver = "apcsmart" /\ phase = "close" /\ smart.call = "none"
    /\ smart' = [smart EXCEPT !.fd = FALSE] /\ wire' = <<>>
    /\ phase' = "closed" /\ Silent
    /\ UNCHANGED <<driver, Status, tries, options, truth, link, origin>>

SmartNext ==
    \/ SmartAlert \/ SmartReadsAlert \/ SmartOpen \/ SmartSetup \/ SmartRead
    \/ SmartSelfTest \/ SmartPoll \/ SmartCheckFirst \/ SmartCheckLoop \/ SmartReturn
    \/ SmartCheck \/ SmartKill \/ SmartClose

---------------------------------------------------------------------------
(* However late the answers come, what is stored as the status was said in *)
(* answer to a question for it, or is the zero that "SM" and silence leave *)
(* (smart.c: "apcupsd may not be able to detect a status change"): never a *)
(* measurement, which would be read as a status of its own.  The exception *)
(* is a line that stops for a second in its middle: a part of it, whatever *)
(* it answers, may be read as a status.                                    *)
StatusIsStatus == origin \in {"Q", "Y", "empty"} \cup {"cut", "blank"}
=============================================================================
