----------------------------- MODULE ModbusComm -----------------------------
(***************************************************************************)
(* One MODBUS transaction at a time between the driver and the UPS:        *)
(* SendAndWait() of src/drivers/modbus/ModbusComm.cpp over the transports  *)
(* ModbusUsbComm.cpp and ModbusRs232Comm.cpp, when their reads honour      *)
(* their timeouts (UsbWatchdog drops that assumption).                     *)
(*                                                                         *)
(* A request is sent only after the line was silent (WaitIdle).  A         *)
(* response does not say which register it answers, so one that equals a   *)
(* response accepted recently is taken for a re-emission and discarded.    *)
(*                                                                         *)
(* The UPS gateway is the environment: it answers a request with an        *)
(* emission, the set of delays after which a copy of the answer arrives.   *)
(* The empty emission is a lost request or answer, a second delay a        *)
(* re-emission.  A frame knows whether it answers the call in progress     *)
(* ("mine"); the code does not, and nothing it decides depends on it.      *)
(*                                                                         *)
(* Over RS-232 a frame is what comes before a gap between two characters,  *)
(* and each character that is read starts the wait for the next anew: how  *)
(* long the characters of a frame keep coming is up to the line, as far as *)
(* its buffer reaches.  On a line that was hung up select() always says    *)
(* that there is something to read, and read() returns nothing.            *)
(***************************************************************************)
EXTENDS Integers

CONSTANTS
    MODBUS_INTERFRAME_TIMEOUT, MODBUS_IDLE_WAIT_TIMEOUT,
    MODBUS_RESPONSE_TIMEOUT, MODBUS_TOTAL_REQUEST_TIMEOUT,
    MODBUS_INTERCHAR_TIMEOUT, MODBUS_MAX_FRAME_SZ,
    LAST_RX_HISTORY,    \* responses remembered
    Transport,          \* "usb" or "rs232"
    Requests,           \* [fc, sz]: function code and size of the response
    Data,               \* contents of a response
    Emissions,          \* sets of delays: how an answer may arrive
    Kinds,              \* what an answer may be, a subset of FrameKinds
    Faults              \* what may fail: "read", "write", or the line: "hangup"

FrameKinds == {"good", "exception", "garbled"}
NoRx == [fc |-> 0, sz |-> 0, data |-> 0]        \* !_haveLastRx[i]
Slots == 0 .. LAST_RX_HISTORY - 1

ASSUME CommAssumption ==
    /\ MODBUS_INTERFRAME_TIMEOUT \in Nat \ {0}
    /\ MODBUS_IDLE_WAIT_TIMEOUT \in Nat
    /\ MODBUS_INTERFRAME_TIMEOUT <= MODBUS_IDLE_WAIT_TIMEOUT
    /\ MODBUS_RESPONSE_TIMEOUT \in Nat \ {0}
    /\ MODBUS_TOTAL_REQUEST_TIMEOUT \in Nat
    /\ MODBUS_INTERCHAR_TIMEOUT \in Nat
    /\ MODBUS_MAX_FRAME_SZ \in Nat \ {0}
    /\ LAST_RX_HISTORY \in Nat \ {0}
    /\ Transport \in {"usb", "rs232"}
    /\ Requests \subseteq [fc : Nat \ {0}, sz : Nat]
    /\ Data \subseteq Nat
    /\ Emissions \subseteq SUBSET Nat
    /\ Kinds \subseteq FrameKinds
    /\ Faults \subseteq {"read", "write", "hangup"}

VARIABLES
    pc,         \* "ready", "idle" (in WaitIdle), "rx" (in ModbusRx) or
                \* "hung" (in ModbusRx, reading nothing without end)
    req,        \* the request of the call
    retries,    \* transmissions left
    idleFor,    \* time since WaitIdle() was entered
    target,     \* when the line counts as idle, on the same clock
    elapsed,    \* time since attemptStart
    lastRx,     \* the ring of responses accepted recently
    lastRxNext, \* its next slot
    flight,     \* frames on their way
    result,     \* how the last call ended
    callFor,    \* time since the call began
    quiet       \* time since a frame was last received

ring == <<lastRx, lastRxNext>>
vars == <<pc, req, retries, idleFor, target, elapsed, ring, flight, result, callFor, quiet>>

Frame(r, k, x, m, d) == [fc |-> r.fc, sz |-> r.sz, kind |-> k, data |-> x, mine |-> m, due |-> d]

FrameSet == [fc : Nat, sz : Nat, kind : FrameKinds, data : Nat, mine : BOOLEAN, due : Nat]

Failed == [ok |-> FALSE, own |-> FALSE, late |-> FALSE]

(* How long the characters of a frame may keep coming after the first: a   *)
(* gap before each of the others that the buffer holds.  A USB report      *)
(* comes as a whole.                                                       *)
TrickleTime == IF Transport = "rs232"
               THEN (MODBUS_MAX_FRAME_SZ - 1) * MODBUS_INTERCHAR_TIMEOUT ELSE 0
Trickles == 0 .. TrickleTime

(* How long a call may take: three transmissions, each with its silence    *)
(* before and its responses after it.                                      *)
IdleBound == MODBUS_IDLE_WAIT_TIMEOUT + MODBUS_INTERFRAME_TIMEOUT
RxBound == MODBUS_TOTAL_REQUEST_TIMEOUT + MODBUS_RESPONSE_TIMEOUT + TrickleTime
CallTime == IdleBound + RxBound + IdleBound + RxBound + IdleBound + RxBound

---------------------------------------------------------------------------
(* The line.                                                               *)

(* After d the frames still under way are d closer; one that nobody reads  *)
(* waits.                                                                  *)
After(d, fl) == {[f EXCEPT !.due = IF d < f.due THEN f.due - d ELSE 0] : f \in fl}

(* f is what a read with timeout t returns.                                *)
Arrives(f, t) == f \in flight /\ f.due <= t /\ \A g \in flight : f.due <= g.due

(* A read with timeout t can time out.                                     *)
Silent(t) == \A f \in flight : t <= f.due

(* Time d passes without a frame.                                          *)
Pass(d) ==
    /\ flight' = After(d, flight)
    /\ callFor' = callFor + d
    /\ quiet' = IF quiet + d < MODBUS_INTERFRAME_TIMEOUT THEN quiet + d
                ELSE MODBUS_INTERFRAME_TIMEOUT

(* The frames whose characters come before those of f end, s after its     *)
(* first: they are read as one with f, and that is no frame.               *)
Joined(f, s) == {g \in flight \ {f} : g.due < f.due + s}

Received(f, s) == IF Joined(f, s) = {} THEN f ELSE [f EXCEPT !.kind = "garbled"]

(* Frame f is taken from the line, its last character s after its first.   *)
Take(f, s) ==
    /\ flight' = After(f.due + s, flight \ ({f} \cup Joined(f, s)))
    /\ callFor' = callFor + f.due + s
    /\ quiet' = 0

---------------------------------------------------------------------------
Init ==
    /\ pc = "ready"
    /\ req \in Requests
    /\ retries = 0 /\ idleFor = 0 /\ target = 0 /\ elapsed = 0
    /\ lastRx = [i \in Slots |-> NoRx]
    /\ lastRxNext = 0
    /\ flight = {}
    /\ result = [Failed EXCEPT !.ok = TRUE, !.own = TRUE]
    /\ callFor = 0
    /\ quiet = 0

(* The line between calls.                                                 *)
Pause ==
    /\ pc = "ready"
    /\ \E f \in flight : f.due > 0
    /\ flight' = After(1, flight)
    /\ UNCHANGED <<pc, req, retries, idleFor, target, elapsed, ring, result, callFor, quiet>>

(* ReadRegister() or WriteRegister() is called; ModbusTx() starts with     *)
(* WaitIdle().                                                             *)
EnterWaitIdle ==
    /\ pc' = "idle"
    /\ idleFor' = 0
    /\ target' = MODBUS_INTERFRAME_TIMEOUT

SendAndWait ==
    /\ pc = "ready"
    /\ req' \in Requests
    /\ retries' = 2
    /\ EnterWaitIdle
    /\ flight' = {[f EXCEPT !.mine = FALSE] : f \in flight}
    /\ callFor' = 0
    /\ UNCHANGED <<elapsed, ring, result, quiet>>

EndCall(r) ==
    /\ pc' = "ready"
    /\ result' = r

(* Silence up to the target: the request is written and the UPS answers.   *)
WriteFrame ==
    /\ pc = "idle"
    /\ LET t == target - idleFor IN
         /\ Silent(t)
         /\ \E em \in Emissions, k \in Kinds, x \in Data :
              flight' = After(t, flight) \cup {Frame(req, k, x, TRUE, d) : d \in em}
         /\ callFor' = callFor + t
         /\ quiet' = IF quiet + t < MODBUS_INTERFRAME_TIMEOUT THEN quiet + t
                     ELSE MODBUS_INTERFRAME_TIMEOUT
    /\ pc' = "rx"
    /\ elapsed' = 0
    /\ UNCHANGED <<req, retries, idleFor, target, ring, result>>

(* Failure to write is fatal.                                              *)
WriteFails ==
    /\ pc = "idle"
    /\ "write" \in Faults
    /\ Silent(target - idleFor)
    /\ Pass(target - idleFor)
    /\ EndCall(Failed)
    /\ UNCHANGED <<req, retries, idleFor, target, elapsed, ring>>

(* A frame arrives while waiting for silence: it is dropped and the wait   *)
(* starts again, unless it has taken too long.                             *)
NewTarget_kept(at) == target
NewTarget(at) == at + MODBUS_INTERFRAME_TIMEOUT

IdleGivesUp(at) ==
    IF Transport = "usb" THEN NewTarget(at) > MODBUS_IDLE_WAIT_TIMEOUT
    ELSE at >= MODBUS_IDLE_WAIT_TIMEOUT

DrainFrame(f) ==
    /\ pc = "idle"
    /\ Arrives(f, target - idleFor)
    /\ Take(f, 0)
    /\ idleFor' = idleFor + f.due
    /\ IF IdleGivesUp(idleFor')
       THEN EndCall(Failed) /\ UNCHANGED target
       ELSE target' = NewTarget(idleFor') /\ UNCHANGED <<pc, result>>
    /\ UNCHANGED <<req, retries, elapsed, ring>>

LineHangsUp == "hangup" \in Faults /\ Transport = "rs232"

(* A fatal error while waiting for silence.                                *)
DrainFails ==
    /\ pc = "idle"
    /\ "read" \in Faults
    /\ EndCall(Failed)
    /\ UNCHANGED <<req, retries, idleFor, target, elapsed, ring, flight, callFor, quiet>>

(* On a line that was hung up the wait lasts its time: every character it  *)
(* wants to drop is none.                                                  *)
DrainHungUp ==
    /\ pc = "idle"
    /\ LineHangsUp
    /\ idleFor <= MODBUS_IDLE_WAIT_TIMEOUT
    /\ Pass(MODBUS_IDLE_WAIT_TIMEOUT - idleFor)
    /\ EndCall(Failed)
    /\ UNCHANGED <<req, retries, idleFor, target, elapsed, ring>>

---------------------------------------------------------------------------
(* The receive loop.                                                       *)

(* The attempt is over: transmit again if retries remain.                  *)
Retry_always == EnterWaitIdle /\ UNCHANGED <<retries, result>>
Retry ==
    IF retries > 0
    THEN EnterWaitIdle /\ retries' = retries - 1 /\ UNCHANGED result
    ELSE EndCall(Failed) /\ UNCHANGED <<retries, idleFor, target>>

(* ModbusRx() times out.                                                   *)
RxTimeout ==
    /\ pc = "rx"
    /\ Silent(MODBUS_RESPONSE_TIMEOUT)
    /\ Pass(MODBUS_RESPONSE_TIMEOUT)
    /\ elapsed' = elapsed + MODBUS_RESPONSE_TIMEOUT
    /\ Retry
    /\ UNCHANGED <<req, ring>>

(* ModbusRx() fails at once.                                               *)
RxError ==
    /\ pc = "rx"
    /\ "read" \in Faults
    /\ Retry
    /\ UNCHANGED <<req, elapsed, ring, flight, callFor, quiet>>

(* The line is hung up in ModbusRx(): it goes on reading nothing, past any *)
(* time that a call may take.                                              *)
RxHangsUp ==
    /\ pc = "rx"
    /\ LineHangsUp
    /\ pc' = "hung"
    /\ UNCHANGED <<req, retries, idleFor, target, elapsed, ring, flight, result, callFor, quiet>>

ReadsNothing ==
    /\ pc = "hung"
    /\ callFor' = CallTime + 1
    /\ UNCHANGED <<pc, req, retries, idleFor, target, elapsed, ring, flight, result, quiet>>

(* Frames ModbusRx() itself gives up on: over USB, every response type it  *)
(* cannot compute the length of, exceptions included.                      *)
RxRejects_all(f) == f.kind # "good"
RxRejects(f) == Transport = "usb" /\ f.kind # "good"

OutOfBudget(e) == e > MODBUS_TOTAL_REQUEST_TIMEOUT

NearDeadline(e) == e > (MODBUS_TOTAL_REQUEST_TIMEOUT * 4) \div 5

Content(f) == [fc |-> f.fc, sz |-> f.sz, data |-> f.data]

IsStaleDuplicate(f, e) == ~NearDeadline(e) /\ \E i \in Slots : lastRx[i] = Content(f)

(* Frames the loop discards: bad CRC, another function code, another size, *)
(* a repeat of what was accepted before.                                   *)
Discards(f, e) ==
    \/ f.kind = "garbled"
    \/ f.kind = "good" /\ f.fc # req.fc
    \/ f.kind = "good" /\ f.sz # req.sz
    \/ f.kind = "good" /\ IsStaleDuplicate(f, e)
    \/ f.kind = "exception" /\ f.fc # req.fc

NextSlot_nowrap == lastRxNext + 1
NextSlot_stuck == lastRxNext
NextSlot == (lastRxNext + 1) % LAST_RX_HISTORY

(* Only the first character has to come in time for a response.            *)
RxFrame(f, s) ==
    /\ pc = "rx"
    /\ Arrives(f, MODBUS_RESPONSE_TIMEOUT)
    /\ Take(f, s)
    /\ elapsed' = elapsed + f.due + s
    /\ UNCHANGED req

(* One pass of the loop over the frame that began with f.                  *)
RxGivesUp(f, s) ==
    /\ RxFrame(f, s)
    /\ RxRejects(Received(f, s)) \/ OutOfBudget(elapsed')
    /\ Retry
    /\ UNCHANGED ring

RxDiscard(f, s) ==
    /\ RxFrame(f, s)
    /\ ~RxRejects(Received(f, s)) /\ ~OutOfBudget(elapsed')
    /\ Discards(Received(f, s), elapsed')
    /\ UNCHANGED <<pc, retries, idleFor, target, ring, result>>

RxException(f, s) ==
    /\ RxFrame(f, s)
    /\ ~RxRejects(Received(f, s)) /\ ~OutOfBudget(elapsed')
    /\ Received(f, s).kind = "exception" /\ f.fc = req.fc
    /\ EndCall(Failed)
    /\ UNCHANGED <<retries, idleFor, target, ring>>

RxAccept(f, s) ==
    /\ RxFrame(f, s)
    /\ ~RxRejects(Received(f, s)) /\ ~OutOfBudget(elapsed')
    /\ Received(f, s).kind = "good" /\ ~Discards(f, elapsed')
    /\ lastRx' = [lastRx EXCEPT ![lastRxNext] = Content(f)]
    /\ lastRxNext' = NextSlot
    /\ EndCall([ok |-> TRUE, own |-> f.mine, late |-> NearDeadline(elapsed')])
    /\ UNCHANGED <<retries, idleFor, target>>

Next ==
    \/ Pause \/ SendAndWait \/ WriteFrame \/ WriteFails \/ DrainFails \/ DrainHungUp
    \/ RxTimeout \/ RxError \/ RxHangsUp \/ ReadsNothing
    \/ \E f \in flight : DrainFrame(f)
    \/ \E f \in flight, s \in Trickles : \/ RxGivesUp(f, s) \/ RxDiscard(f, s)
                                         \/ RxException(f, s) \/ RxAccept(f, s)

Spec == Init /\ [][Next]_vars

---------------------------------------------------------------------------
(* Properties.                                                             *)

TypeOK ==
    /\ pc \in {"ready", "idle", "rx", "hung"}
    /\ req \in Requests
    /\ retries \in 0 .. 2
    /\ {idleFor, target, elapsed, callFor, quiet} \subseteq Nat
    /\ lastRx \in [Slots -> [fc : Nat, sz : Nat, data : Nat]]
    /\ lastRxNext \in Slots
    /\ flight \subseteq FrameSet
    /\ result \in [ok : BOOLEAN, own : BOOLEAN, late : BOOLEAN]

(* The response SendAndWait() accepts answers the request it sent, unless  *)
(* it was taken near the deadline, where repeats are let through: neither  *)
(* the re-emission of an earlier answer nor one that the wait for silence  *)
(* missed is taken for the answer.  It holds as long as the gateway        *)
(* answers before the response timeout or not at all, and re-emits only    *)
(* what the ring still remembers.                                          *)
ResponseIsOwn == result.ok => result.own \/ result.late

(* A call ends within three transmissions, each with its bounded wait for  *)
(* silence and its bounded receive loop, however many stale frames arrive  *)
(* and however slowly their characters come.  The exception is a serial    *)
(* line that is hung up in ModbusRx(): that call never ends.               *)
CallIsBounded == pc = "hung" \/ callFor <= CallTime

(* A request is written only after the line was silent for the interframe  *)
(* time (WaitIdle), the first time and every time it is retransmitted.     *)
SendsWhenQuiet == [][pc = "idle" /\ pc' = "rx" => quiet' = MODBUS_INTERFRAME_TIMEOUT]_vars

(* No frame, whatever it is, makes SendAndWait() transmit a request again  *)
(* before the time for the attempt is spent: a second answer is not asked  *)
(* for while the first may be on its way (the comment in its loop).        *)
RetransmitsAfterTimeout ==
    [][retries' < retries /\ (\E f \in flight, s \in Trickles : RxFrame(f, s))
           => OutOfBudget(elapsed')]_vars
=============================================================================
