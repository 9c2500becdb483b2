---------------------------- MODULE ModbusProofs ----------------------------
(***************************************************************************)
(* A MODBUS transaction takes bounded time, for every setting of the       *)
(* timeouts, both transports, and however many stale, late, repeated or    *)
(* garbled frames arrive.  The invariant accounts for the time of a call:  *)
(* what its earlier attempts took (Spent), then the wait for silence, then *)
(* the receive loop, which a discarded frame prolongs by less than its     *)
(* budget.                                                                 *)
(*                                                                         *)
(* The second part is about the response: that it is the one asked for,    *)
(* for every gateway whose answers and copies of them come in time.        *)
(***************************************************************************)
EXTENDS ModbusComm, TLAPS

(* One attempt, and the attempts before the current one.                   *)
Attempt == IdleBound + RxBound
Spent(r) == IF r = 2 THEN 0 ELSE IF r = 1 THEN Attempt ELSE Attempt + Attempt

(* The accounting.                                                         *)
TimeInv ==
    /\ pc = "idle" => /\ idleFor <= target
                      /\ target <= IdleBound
                      /\ callFor <= Spent(retries) + idleFor
    /\ pc = "rx" => /\ elapsed <= MODBUS_TOTAL_REQUEST_TIMEOUT
                    /\ callFor <= Spent(retries) + IdleBound + elapsed
    /\ pc = "hung" \/ callFor <= CallTime

(* The timeouts are natural numbers, and so is what is made of them.       *)
LEMMA Bounds ==
    /\ MODBUS_INTERFRAME_TIMEOUT \in Nat /\ MODBUS_IDLE_WAIT_TIMEOUT \in Nat
    /\ MODBUS_RESPONSE_TIMEOUT \in Nat /\ MODBUS_TOTAL_REQUEST_TIMEOUT \in Nat
    /\ MODBUS_INTERFRAME_TIMEOUT <= MODBUS_IDLE_WAIT_TIMEOUT
    /\ TrickleTime \in Nat /\ IdleBound \in Nat /\ RxBound \in Nat /\ Attempt \in Nat
    /\ IdleBound = MODBUS_IDLE_WAIT_TIMEOUT + MODBUS_INTERFRAME_TIMEOUT
    /\ RxBound = MODBUS_TOTAL_REQUEST_TIMEOUT + MODBUS_RESPONSE_TIMEOUT + TrickleTime
    /\ Attempt = IdleBound + RxBound
    /\ CallTime = Attempt + Attempt + Attempt
<1> DEFINE n == MODBUS_MAX_FRAME_SZ - 1
<1>1. n \in Nat /\ MODBUS_INTERCHAR_TIMEOUT \in Nat
  BY CommAssumption
<1>2. n * MODBUS_INTERCHAR_TIMEOUT \in Nat
  <2> HIDE DEF n
  <2> QED
    BY <1>1
<1>3. TrickleTime \in Nat
  BY <1>2 DEF TrickleTime
<1> QED
  BY <1>3, CommAssumption DEF IdleBound, RxBound, Attempt, CallTime

LEMMA SpentBounds ==
    ASSUME NEW r \in 0 .. 2
    PROVE  /\ Spent(r) \in Nat
           /\ Spent(r) + Attempt <= CallTime
           /\ r > 0 => Spent(r - 1) = Spent(r) + Attempt
  BY Bounds DEF Spent

(* Frames keep their form while time passes.                               *)
LEMMA AfterDue ==
    ASSUME NEW fl, NEW d \in Nat, \A f \in fl : f \in FrameSet
    PROVE  After(d, fl) \subseteq FrameSet
<1> SUFFICES ASSUME NEW f \in fl
             PROVE  [f EXCEPT !.due = IF d < f.due THEN f.due - d ELSE 0] \in FrameSet
  BY DEF After
<1>1. f \in FrameSet /\ (IF d < f.due THEN f.due - d ELSE 0) \in Nat
  BY DEF FrameSet
<1> QED BY <1>1 DEF FrameSet

(* The same for a frame that is marked as another call's.                  *)
LEMMA DisownedType ==
    ASSUME flight \subseteq FrameSet
    PROVE  {[f EXCEPT !.mine = FALSE] : f \in flight} \subseteq FrameSet
<1> SUFFICES ASSUME NEW f \in flight
             PROVE  [f EXCEPT !.mine = FALSE] \in FrameSet
  OBVIOUS
<1> QED BY DEF FrameSet

(* What passes and what is taken from the line, at once or by and by.      *)
LEMMA LineType ==
    ASSUME TypeOK, NEW d \in Nat
    PROVE  /\ Pass(d) => flight' \subseteq FrameSet /\ callFor' \in Nat /\ quiet' \in Nat
           /\ \A f \in flight : Take(f, d) =>
                 flight' \subseteq FrameSet /\ callFor' \in Nat /\ quiet' \in Nat
<1>1. ASSUME Pass(d)
      PROVE  flight' \subseteq FrameSet /\ callFor' \in Nat /\ quiet' \in Nat
  BY <1>1, AfterDue, Bounds DEF TypeOK, Pass
<1>2. ASSUME NEW f \in flight, Take(f, d)
      PROVE  flight' \subseteq FrameSet /\ callFor' \in Nat /\ quiet' \in Nat
  <2>1. f.due \in Nat
    BY DEF TypeOK, FrameSet
  <2>2. \A g \in flight \ ({f} \cup Joined(f, d)) : g \in FrameSet
    BY DEF TypeOK
  <2>3. f.due + d \in Nat /\ callFor + f.due + d \in Nat
    BY <2>1 DEF TypeOK
  <2> QED BY <1>2, <2>2, <2>3, AfterDue DEF Take
<1> QED BY <1>1, <1>2

(* The fields that the end of an attempt or of a call assigns.             *)
Results == [ok : BOOLEAN, own : BOOLEAN, late : BOOLEAN]

ControlTypeOK ==
    /\ pc \in {"ready", "idle", "rx", "hung"} /\ retries \in 0 .. 2
    /\ idleFor \in Nat /\ target \in Nat
    /\ result \in Results

LEMMA ControlType ==
    ASSUME ControlTypeOK
    PROVE  /\ (EnterWaitIdle /\ retries' \in 0 .. 2 /\ UNCHANGED result) => ControlTypeOK'
           /\ \A r \in Results : (EndCall(r) /\ UNCHANGED <<retries, idleFor, target>>)
                 => ControlTypeOK'
           /\ Failed \in Results
           /\ Retry => ControlTypeOK'
<1> USE DEF ControlTypeOK
<1>1. ASSUME EnterWaitIdle, retries' \in 0 .. 2, UNCHANGED result
      PROVE  ControlTypeOK'
  BY <1>1, Bounds DEF EnterWaitIdle
<1>2. ASSUME NEW r \in Results, EndCall(r), UNCHANGED <<retries, idleFor, target>>
      PROVE  ControlTypeOK'
  BY <1>2 DEF EndCall
<1>3. Failed \in Results
  BY DEF Failed, Results
<1>4. ASSUME Retry
      PROVE  ControlTypeOK'
  <2>1. CASE retries > 0
    BY <1>1, <1>4, <2>1 DEF Retry
  <2>2. CASE ~(retries > 0)
    BY <1>2, <1>3, <1>4, <2>2 DEF Retry
  <2> QED BY <2>1, <2>2
<1> QED BY <1>1, <1>2, <1>3, <1>4

(* The other fields.                                                       *)
DataTypeOK ==
    /\ req \in Requests
    /\ elapsed \in Nat /\ callFor \in Nat /\ quiet \in Nat
    /\ lastRx \in [Slots -> [fc : Nat, sz : Nat, data : Nat]]
    /\ lastRxNext \in Slots
    /\ flight \subseteq FrameSet

LEMMA TypeParts == TypeOK <=> ControlTypeOK /\ DataTypeOK
  BY DEF TypeOK, ControlTypeOK, DataTypeOK, Results

LEMMA CommTypeStep ==
    ASSUME TypeOK, TimeInv, [Next]_vars
    PROVE  TypeOK'
<1>0. ControlTypeOK /\ DataTypeOK
  BY TypeParts
<1> SUFFICES ControlTypeOK' /\ DataTypeOK'
  BY TypeParts DEF TypeOK, ControlTypeOK, DataTypeOK, Results
<1>1. CASE UNCHANGED vars
  BY <1>0, <1>1 DEF vars, ring, ControlTypeOK, DataTypeOK
<1>2. CASE Pause
  BY <1>0, <1>2, AfterDue DEF Pause, ring, ControlTypeOK, DataTypeOK
<1>3. CASE SendAndWait
  BY <1>0, <1>3, DisownedType, ControlType DEF SendAndWait, ring, TypeOK, DataTypeOK
<1>4. CASE WriteFrame
  <2>1. PICK em \in Emissions, k \in Kinds, x \in Data :
            flight' = After(target - idleFor, flight) \cup {Frame(req, k, x, TRUE, d) : d \in em}
    BY <1>4 DEF WriteFrame
  <2>2. target - idleFor \in Nat
    BY <1>0, <1>4 DEF WriteFrame, TimeInv, ControlTypeOK
  <2>3. After(target - idleFor, flight) \subseteq FrameSet
    BY <1>0, <2>2, AfterDue DEF DataTypeOK
  <2>4. \A d \in em : Frame(req, k, x, TRUE, d) \in FrameSet
    BY <1>0, CommAssumption DEF DataTypeOK, Frame, FrameSet
  <2>5. callFor' \in Nat /\ quiet' \in Nat
    BY <1>0, <1>4, <2>2, Bounds DEF WriteFrame, DataTypeOK
  <2>6. DataTypeOK'
    BY <1>0, <1>4, <2>1, <2>3, <2>4, <2>5 DEF WriteFrame, ring, DataTypeOK
  <2> QED BY <1>0, <1>4, <2>6 DEF WriteFrame, ControlTypeOK
<1>5. CASE WriteFails
  <2>1. target - idleFor \in Nat
    BY <1>0, <1>5 DEF WriteFails, TimeInv, ControlTypeOK
  <2> QED BY <1>0, <1>5, <2>1, ControlType, LineType DEF WriteFails, ring, DataTypeOK
<1>6. CASE DrainFails \/ RxHangsUp \/ ReadsNothing \/ DrainHungUp
  <2>1. CASE DrainFails
    BY <1>0, <2>1, ControlType DEF DrainFails, ring, DataTypeOK
  <2>2. CASE RxHangsUp
    BY <1>0, <2>2 DEF RxHangsUp, ring, ControlTypeOK, DataTypeOK
  <2>3. CASE ReadsNothing
    BY <1>0, <2>3, Bounds DEF ReadsNothing, ring, ControlTypeOK, DataTypeOK
  <2>4. CASE DrainHungUp
    <3>1. MODBUS_IDLE_WAIT_TIMEOUT - idleFor \in Nat
      BY <1>0, <2>4, Bounds DEF DrainHungUp, ControlTypeOK
    <3> QED
      BY <1>0, <2>4, <3>1, ControlType, LineType DEF DrainHungUp, ring, DataTypeOK
  <2> QED
    BY <1>6, <2>1, <2>2, <2>3, <2>4
<1>7. CASE RxTimeout
  BY <1>0, <1>7, ControlType, LineType, Bounds DEF RxTimeout, ring, DataTypeOK
<1>8. CASE RxError
  BY <1>0, <1>8, ControlType DEF RxError, ring, DataTypeOK
<1>9. ASSUME NEW f \in flight, DrainFrame(f)
      PROVE  ControlTypeOK' /\ DataTypeOK'
  <2>1. idleFor' \in Nat
    BY <1>0, <1>9 DEF DrainFrame, ControlTypeOK, DataTypeOK, FrameSet
  <2>2. ControlTypeOK'
    BY <1>0, <1>9, <2>1, ControlType, Bounds
       DEF DrainFrame, EndCall, NewTarget, ControlTypeOK
  <2> QED BY <1>0, <1>9, <2>2, LineType DEF DrainFrame, ring, DataTypeOK
<1>10. ASSUME NEW f \in flight, NEW s \in Trickles, RxFrame(f, s)
       PROVE  /\ req' \in Requests /\ elapsed' \in Nat
              /\ flight' \subseteq FrameSet /\ callFor' \in Nat /\ quiet' \in Nat
  <2>1. s \in Nat
    BY Bounds DEF Trickles
  <2> QED
    BY <1>0, <1>10, <2>1, LineType DEF RxFrame, DataTypeOK, FrameSet
<1>11. ASSUME NEW f \in flight, NEW s \in Trickles, RxGivesUp(f, s)
       PROVE  ControlTypeOK' /\ DataTypeOK'
  BY <1>0, <1>10, <1>11, ControlType DEF RxGivesUp, ring, DataTypeOK
<1>12. ASSUME NEW f \in flight, NEW s \in Trickles, RxDiscard(f, s)
       PROVE  ControlTypeOK' /\ DataTypeOK'
  BY <1>0, <1>10, <1>12 DEF RxDiscard, ring, ControlTypeOK, DataTypeOK
<1>13. ASSUME NEW f \in flight, NEW s \in Trickles, RxException(f, s)
       PROVE  ControlTypeOK' /\ DataTypeOK'
  BY <1>0, <1>10, <1>13, ControlType DEF RxException, ring, DataTypeOK
<1>14. ASSUME NEW f \in flight, NEW s \in Trickles, RxAccept(f, s)
       PROVE  ControlTypeOK' /\ DataTypeOK'
  <2>1. [ok |-> TRUE, own |-> f.mine, late |-> NearDeadline(elapsed')] \in Results
    BY <1>0 DEF DataTypeOK, FrameSet, Results, NearDeadline
  <2>2. ControlTypeOK'
    BY <1>0, <1>14, <2>1, ControlType DEF RxAccept
  <2>3. Content(f) \in [fc : Nat, sz : Nat, data : Nat]
    BY <1>0 DEF DataTypeOK, FrameSet, Content
  <2>4. NextSlot \in Slots
    BY <1>0, CommAssumption DEF DataTypeOK, NextSlot, Slots
  <2> QED BY <1>0, <1>10, <1>14, <2>2, <2>3, <2>4 DEF RxAccept, DataTypeOK
<1> QED BY <1>1, <1>2, <1>3, <1>4, <1>5, <1>6, <1>7, <1>8, <1>9, <1>11, <1>12, <1>13, <1>14
        DEF Next

(* Every step keeps the account.                                           *)
LEMMA TimeStep ==
    ASSUME TypeOK, TypeOK', TimeInv, [Next]_vars
    PROVE  TimeInv'
<1> USE Bounds, SpentBounds
<1>0. /\ retries \in 0 .. 2 /\ Spent(retries) \in Nat
      /\ idleFor \in Nat /\ target \in Nat /\ elapsed \in Nat /\ callFor \in Nat
      /\ Spent(retries) + Attempt <= CallTime
      /\ \A f \in flight : f.due \in Nat
  BY DEF TypeOK, FrameSet
<1>1. CASE UNCHANGED vars
  BY <1>1 DEF vars, TimeInv
<1>2. CASE Pause
  BY <1>2 DEF Pause, TimeInv
<1>3. CASE SendAndWait
  BY <1>3 DEF SendAndWait, EnterWaitIdle, TimeInv, Spent
<1>4. CASE WriteFrame
  <2>1. callFor' = callFor + (target - idleFor) /\ elapsed' = 0 /\ pc' = "rx" /\ pc = "idle"
        /\ UNCHANGED retries
    BY <1>4 DEF WriteFrame
  <2> QED BY <1>0, <2>1 DEF TimeInv
<1>5. CASE WriteFails
  <2>1. callFor' = callFor + (target - idleFor) /\ pc' = "ready" /\ pc = "idle"
    BY <1>5 DEF WriteFails, Pass, EndCall
  <2> QED BY <1>0, <2>1 DEF TimeInv
<1>6. CASE DrainFails \/ RxHangsUp \/ ReadsNothing
  BY <1>0, <1>6 DEF DrainFails, RxHangsUp, ReadsNothing, EndCall, TimeInv
<1>6a. CASE DrainHungUp
  <2>1. /\ callFor' = callFor + (MODBUS_IDLE_WAIT_TIMEOUT - idleFor) /\ pc' = "ready" /\ pc = "idle"
        /\ idleFor <= MODBUS_IDLE_WAIT_TIMEOUT
    BY <1>6a DEF DrainHungUp, Pass, EndCall
  <2> QED BY <1>0, <2>1 DEF TimeInv
(* The end of an attempt, at which no more than an attempt is spent.       *)
<1>7. ASSUME Retry, callFor' \in Nat, callFor' <= Spent(retries) + Attempt
      PROVE  TimeInv'
  <2>1. CASE retries > 0
    <3>1. /\ pc' = "idle" /\ idleFor' = 0 /\ target' = MODBUS_INTERFRAME_TIMEOUT
          /\ retries' = retries - 1
      BY <1>7, <2>1 DEF Retry, EnterWaitIdle
    <3>2. Spent(retries') = Spent(retries) + Attempt
      BY <1>0, <2>1, <3>1
    <3> QED BY <1>0, <1>7, <3>1, <3>2 DEF TimeInv
  <2>2. CASE ~(retries > 0)
    BY <1>0, <1>7, <2>2 DEF Retry, EndCall, TimeInv
  <2> QED BY <2>1, <2>2
<1>8. CASE RxTimeout
  <2>1. callFor' = callFor + MODBUS_RESPONSE_TIMEOUT /\ pc = "rx" /\ Retry
    BY <1>8 DEF RxTimeout, Pass
  <2> QED BY <1>0, <1>7, <2>1 DEF TimeInv
<1>9. CASE RxError
  <2>1. callFor' = callFor /\ pc = "rx" /\ Retry
    BY <1>9 DEF RxError
  <2> QED BY <1>0, <1>7, <2>1 DEF TimeInv
<1>10. ASSUME NEW f \in flight, DrainFrame(f)
       PROVE  TimeInv'
  <2>1. /\ pc = "idle" /\ f.due <= target - idleFor /\ UNCHANGED retries
        /\ callFor' = callFor + f.due /\ idleFor' = idleFor + f.due
    <3>1. /\ pc = "idle" /\ f.due <= target - idleFor /\ UNCHANGED retries
          /\ callFor' = callFor + f.due + 0 /\ idleFor' = idleFor + f.due
      BY <1>10 DEF DrainFrame, Arrives, Take
    <3> QED
      BY <1>0, <3>1
  <2>2. CASE IdleGivesUp(idleFor')
    BY <1>0, <1>10, <2>1, <2>2 DEF DrainFrame, EndCall, TimeInv
  <2>3. CASE ~IdleGivesUp(idleFor')
    <3>1. target' = idleFor' + MODBUS_INTERFRAME_TIMEOUT /\ pc' = "idle"
      BY <1>10, <2>1, <2>3 DEF DrainFrame, NewTarget
    <3>2. idleFor' <= MODBUS_IDLE_WAIT_TIMEOUT
      BY <1>0, <2>1, <2>3 DEF IdleGivesUp, NewTarget
    <3> QED BY <1>0, <2>1, <3>1, <3>2 DEF TimeInv
  <2> QED BY <2>2, <2>3
(* A frame is received: it begins within the time for a response, so that  *)
(* the loop overruns its budget by less than that and the time it trickles *)
(* in.                                                                     *)
<1>11. ASSUME NEW f \in flight, NEW s \in Trickles, RxFrame(f, s)
       PROVE  /\ pc = "rx" /\ elapsed' = elapsed + f.due + s /\ callFor' = callFor + f.due + s
              /\ callFor' \in Nat /\ callFor' <= Spent(retries) + Attempt
              /\ callFor' <= Spent(retries) + IdleBound + elapsed'
  <2>1. /\ pc = "rx" /\ f.due <= MODBUS_RESPONSE_TIMEOUT
        /\ elapsed' = elapsed + f.due + s /\ callFor' = callFor + f.due + s
        /\ s \in Nat /\ s <= TrickleTime
    BY <1>11 DEF RxFrame, Arrives, Take, Trickles
  <2> QED BY <1>0, <2>1 DEF TimeInv
<1>12. ASSUME NEW f \in flight, NEW s \in Trickles, RxGivesUp(f, s)
       PROVE  TimeInv'
  BY <1>7, <1>11, <1>12 DEF RxGivesUp
<1>13. ASSUME NEW f \in flight, NEW s \in Trickles, RxDiscard(f, s)
       PROVE  TimeInv'
  <2>1. UNCHANGED <<pc, retries>> /\ ~OutOfBudget(elapsed') /\ RxFrame(f, s)
    BY <1>13 DEF RxDiscard
  <2>2. elapsed' \in Nat /\ elapsed' <= MODBUS_TOTAL_REQUEST_TIMEOUT
    <3>1. elapsed \in Nat /\ f.due \in Nat /\ s \in Nat
      BY <1>0 DEF Trickles
    <3>2. elapsed' = elapsed + f.due + s
      BY <1>11, <2>1
    <3> QED BY <1>0, <2>1, <3>1, <3>2 DEF OutOfBudget
  <2> QED BY <1>0, <1>11, <2>1, <2>2 DEF TimeInv
<1>14. ASSUME NEW f \in flight, NEW s \in Trickles, RxException(f, s) \/ RxAccept(f, s)
       PROVE  TimeInv'
  <2>1. pc' = "ready" /\ RxFrame(f, s)
    BY <1>14 DEF RxException, RxAccept, EndCall
  <2> QED BY <1>0, <1>11, <2>1 DEF TimeInv
<1> QED BY <1>1, <1>2, <1>3, <1>4, <1>5, <1>6, <1>6a, <1>8, <1>9, <1>10, <1>12, <1>13, <1>14
        DEF Next

LEMMA CommInit == Init => TypeOK /\ TimeInv
<1> SUFFICES ASSUME Init PROVE TypeOK /\ TimeInv
  OBVIOUS
<1>1. result \in Results
  BY DEF Init, Failed, Results
<1>2. lastRx \in [Slots -> [fc : Nat, sz : Nat, data : Nat]] /\ lastRxNext \in Slots
  BY CommAssumption DEF Init, NoRx, Slots
<1> QED BY <1>1, <1>2, Bounds DEF Init, TypeOK, TimeInv, Results

(* The types of the transaction layer, for all timeouts and all lines.     *)
THEOREM CommTypeCorrect == Spec => []TypeOK
<1>1. TypeOK /\ TimeInv /\ [Next]_vars => TypeOK' /\ TimeInv'
  BY CommTypeStep, TimeStep
<1> QED BY <1>1, CommInit, PTL DEF Spec

(* SendAndWait() ends within three transmissions' time, each with its wait *)
(* for silence and its receive loop, however many frames arrive and        *)
(* however slowly their characters come, unless the line is hung up.       *)
THEOREM CallAlwaysBounded == Spec => []CallIsBounded
<1>1. TypeOK /\ TimeInv /\ [Next]_vars => TypeOK' /\ TimeInv'
  BY CommTypeStep, TimeStep
<1>2. TimeInv => CallIsBounded
  BY DEF TimeInv, CallIsBounded
<1> QED BY <1>1, <1>2, CommInit, PTL DEF Spec

(***************************************************************************)
(* Silence before a request.  WaitIdle() waits for its target, and a frame *)
(* that arrives moves the target: what is left of the wait and the silence *)
(* so far always add up to the interframe time.                            *)
(***************************************************************************)
QuietInv ==
    pc = "idle" => /\ idleFor <= target
                   /\ MODBUS_INTERFRAME_TIMEOUT <= quiet + (target - idleFor)

LEMMA QuietStep ==
    ASSUME TypeOK, QuietInv, [Next]_vars
    PROVE  QuietInv'
<1> USE Bounds
<1>0. /\ idleFor \in Nat /\ target \in Nat /\ quiet \in Nat
      /\ \A f \in flight : f.due \in Nat
  BY DEF TypeOK, FrameSet
<1>1. ASSUME EnterWaitIdle, quiet' \in Nat PROVE QuietInv'
  <2>1. idleFor' = 0 /\ target' = MODBUS_INTERFRAME_TIMEOUT /\ MODBUS_INTERFRAME_TIMEOUT \in Nat
    BY <1>1 DEF EnterWaitIdle
  <2> DEFINE q == quiet'
  <2>q. q \in Nat
    BY <1>1
  <2> HIDE DEF q
  <2>2. idleFor' <= target' /\ MODBUS_INTERFRAME_TIMEOUT <= q + (target' - idleFor')
    BY <2>1, <2>q
  <2> QED
    BY <2>2 DEF QuietInv, q
<1>2. ASSUME Retry, quiet' \in Nat PROVE QuietInv'
  BY <1>1, <1>2 DEF Retry, EndCall, QuietInv
<1>3. CASE UNCHANGED vars
  BY <1>3 DEF vars, QuietInv
<1>4. CASE Pause \/ WriteFrame \/ WriteFails \/ DrainFails \/ DrainHungUp \/ RxHangsUp \/ ReadsNothing
  BY <1>4 DEF Pause, WriteFrame, WriteFails, DrainFails, DrainHungUp, RxHangsUp, ReadsNothing, EndCall, QuietInv
<1>5. CASE SendAndWait
  BY <1>0, <1>1, <1>5 DEF SendAndWait
<1>6. CASE RxTimeout \/ RxError
  <2>1. quiet' \in Nat /\ Retry
    BY <1>0, <1>6 DEF RxTimeout, RxError, Pass
  <2> QED
    BY <1>2, <2>1
<1>7. ASSUME NEW f \in flight, DrainFrame(f) PROVE QuietInv'
  <2>1. quiet' = 0 /\ idleFor' = idleFor + f.due /\ f.due \in Nat
    BY <1>0, <1>7 DEF DrainFrame, Take, TypeOK
  <2>2. CASE IdleGivesUp(idleFor')
    BY <1>7, <2>2 DEF DrainFrame, EndCall, QuietInv
  <2>3. CASE ~IdleGivesUp(idleFor')
    BY <1>0, <1>7, <2>1, <2>3 DEF DrainFrame, NewTarget, QuietInv
  <2> QED
    BY <2>2, <2>3
<1>8. ASSUME NEW f \in flight, NEW s \in Trickles, RxGivesUp(f, s) PROVE QuietInv'
  BY <1>2, <1>8 DEF RxGivesUp, RxFrame, Take
<1>9. ASSUME NEW f \in flight, NEW s \in Trickles, RxDiscard(f, s) \/ RxException(f, s) \/ RxAccept(f, s) PROVE QuietInv'
  BY <1>9 DEF RxDiscard, RxException, RxAccept, RxFrame, EndCall, QuietInv
<1> QED
  BY <1>3, <1>4, <1>5, <1>6, <1>7, <1>8, <1>9 DEF Next

(* Every transmission, the first as well as a retry, follows an interframe *)
(* time of silence.                                                        *)
THEOREM AlwaysSendsWhenQuiet == Spec => SendsWhenQuiet
<1>1. Init => QuietInv
  BY DEF Init, QuietInv
<1>2. TypeOK /\ QuietInv /\ [Next]_vars => QuietInv'
  BY QuietStep
<1>3. ASSUME TypeOK, QuietInv, Next, pc = "idle", pc' = "rx"
      PROVE  quiet' = MODBUS_INTERFRAME_TIMEOUT
  <2>1. WriteFrame
    <3>1. ~(Pause \/ SendAndWait \/ WriteFails \/ DrainFails \/ DrainHungUp \/ RxTimeout \/ RxError
             \/ RxHangsUp \/ ReadsNothing)
      BY <1>3 DEF Pause, SendAndWait, EnterWaitIdle, WriteFails, DrainFails, DrainHungUp, RxTimeout, RxError,
                  RxHangsUp, ReadsNothing, EndCall
    <3>2. ASSUME NEW f \in flight, NEW s \in Trickles
          PROVE  ~(DrainFrame(f) \/ RxGivesUp(f, s) \/ RxDiscard(f, s) \/ RxException(f, s) \/ RxAccept(f, s))
      BY <1>3 DEF DrainFrame, RxGivesUp, RxDiscard, RxException, RxAccept, RxFrame, EndCall
    <3>3. 0 \in Trickles
      BY Bounds DEF Trickles
    <3> QED
      BY <1>3, <3>1, <3>2, <3>3 DEF Next
  <2>2. idleFor \in Nat /\ target \in Nat /\ quiet \in Nat
    BY <1>3 DEF TypeOK
  <2> QED
    BY <1>3, <2>1, <2>2, Bounds DEF WriteFrame, QuietInv
<1>4. TypeOK /\ QuietInv /\ [Next]_vars =>
        [pc = "idle" /\ pc' = "rx" => quiet' = MODBUS_INTERFRAME_TIMEOUT]_vars
  BY <1>3
<1> QED
  BY <1>1, <1>2, <1>4, CommTypeCorrect, PTL DEF Spec, SendsWhenQuiet

(* Over the serial line, where ModbusRx() rejects no frame, the receive    *)
(* loop transmits again only when its time is spent.  (Over USB a response *)
(* whose length cannot be computed ends the attempt at once.)              *)
THEOREM AlwaysRetransmitsAfterTimeout ==
    ASSUME Transport = "rs232"
    PROVE  Spec => RetransmitsAfterTimeout
<1>1. ASSUME TypeOK, Next, retries' < retries, NEW f \in flight, NEW s \in Trickles,
             RxFrame(f, s)
      PROVE  OutOfBudget(elapsed')
  <2>1. /\ pc = "rx" /\ Take(f, s) /\ UNCHANGED req /\ s \in Nat
        /\ f.due \in Nat /\ callFor \in Nat /\ quiet \in Nat /\ retries \in 0 .. 2
    BY <1>1, Bounds DEF RxFrame, TypeOK, FrameSet, Trickles
  <2>2. ~(Pause \/ SendAndWait \/ WriteFrame \/ WriteFails \/ DrainFails \/ DrainHungUp \/ RxHangsUp
           \/ ReadsNothing)
    BY <1>1, <2>1 DEF Pause, SendAndWait, WriteFrame, WriteFails, DrainFails, DrainHungUp, RxHangsUp, ReadsNothing
  <2>3. ~RxTimeout
    <3>1. RxTimeout => quiet' # 0
      BY <2>1, CommAssumption DEF RxTimeout, Pass
    <3> QED
      BY <2>1, <3>1 DEF Take
  <2>4. ~RxError
    <3>1. SUFFICES ASSUME RxError PROVE FALSE
      OBVIOUS
    <3>2. flight' = flight /\ callFor' = callFor /\ callFor' = callFor + f.due + s
      BY <2>1, <3>1 DEF RxError, Take
    <3>3. f.due + s = 0
      BY <2>1, <3>2
    <3>4. flight' = {[g EXCEPT !.due = IF 0 < g.due THEN g.due - 0 ELSE 0] : g \in flight \ ({f} \cup Joined(f, s))}
      BY <2>1, <3>3 DEF Take, After
    <3>5. \A g \in flight : [g EXCEPT !.due = IF 0 < g.due THEN g.due - 0 ELSE 0] = g
      <4>1. SUFFICES ASSUME NEW g \in flight
                     PROVE  [g EXCEPT !.due = IF 0 < g.due THEN g.due - 0 ELSE 0] = g
        OBVIOUS
      <4>2. g \in FrameSet /\ (IF 0 < g.due THEN g.due - 0 ELSE 0) = g.due
        BY <1>1 DEF TypeOK, FrameSet
      <4> QED
        BY <4>2 DEF FrameSet
    <3>6. f \notin flight'
      BY <3>4, <3>5
    <3> QED
      BY <3>2, <3>6
  <2>5. PICK g \in flight, u \in Trickles :
            RxGivesUp(g, u) \/ RxDiscard(g, u) \/ RxException(g, u) \/ RxAccept(g, u)
    <3>1. ASSUME NEW g \in flight PROVE ~DrainFrame(g)
      BY <2>1 DEF DrainFrame
    <3> QED
      BY <1>1, <2>2, <2>3, <2>4, <3>1 DEF Next
  <2>6. RxGivesUp(g, u)
    BY <1>1, <2>1, <2>5 DEF RxDiscard, RxException, RxAccept
  <2> QED
    BY <2>6 DEF RxGivesUp, RxRejects
<1>2. TypeOK /\ [Next]_vars =>
        [retries' < retries /\ (\E f \in flight, s \in Trickles : RxFrame(f, s)) => OutOfBudget(elapsed')]_vars
  BY <1>1
<1> QED
  BY <1>2, CommTypeCorrect, PTL DEF Spec, RetransmitsAfterTimeout

---------------------------------------------------------------------------
(***************************************************************************)
(* The response that is accepted.  The hypotheses on the gateway: every    *)
(* answer reaches the driver before the response timeout and before        *)
(* repeats are let through, or not at all; a copy of it comes no later     *)
(* than that, nor than the first answer to a retransmission, nor than the  *)
(* ring can be overwritten; no read fails, no answer is an exception, none *)
(* that ends an attempt is garbled, and a frame comes as a whole (as over  *)
(* USB).                                                                   *)
(***************************************************************************)
InReach(d) ==
    /\ ~NearDeadline(d)
    /\ d <= MODBUS_RESPONSE_TIMEOUT + MODBUS_INTERFRAME_TIMEOUT
    /\ d <= LAST_RX_HISTORY * MODBUS_INTERFRAME_TIMEOUT

GatewayInTime ==
    /\ \A em \in Emissions : /\ em # {} => \E d \in em : d < MODBUS_RESPONSE_TIMEOUT
                             /\ \A d \in em : InReach(d)
    /\ "read" \notin Faults /\ "hangup" \notin Faults /\ TrickleTime = 0
    /\ "exception" \notin Kinds
    /\ "garbled" \in Kinds => Transport = "rs232"

(* A frame that comes as a whole is taken at once, and alone.              *)
LEMMA WholeFrame ==
    ASSUME TypeOK, NEW f \in flight, \A g \in flight : f.due <= g.due
    PROVE  /\ Received(f, 0) = f
           /\ Take(f, 0) => flight' = After(f.due, flight \ {f})
           /\ RxFrame(f, 0) => elapsed' = elapsed + f.due
<1>1. \A g \in flight : g.due \in Nat
  BY DEF TypeOK, FrameSet
<1>2. f.due + 0 = f.due /\ elapsed + f.due \in Nat
  BY <1>1 DEF TypeOK
<1>3. Joined(f, 0) = {}
  BY <1>1, <1>2 DEF Joined
<1>4. RxFrame(f, 0) => elapsed' = elapsed + f.due
  <2>1. elapsed + f.due + 0 = elapsed + f.due
    BY <1>2
  <2> QED
    BY <2>1 DEF RxFrame
<1> QED
  BY <1>2, <1>3, <1>4 DEF Received, Take

(* The calls that end well before slot i is overwritten, and the time      *)
(* before the first of them can.                                           *)
Turns(i) == IF i < lastRxNext THEN i + LAST_RX_HISTORY - lastRxNext ELSE i - lastRxNext
Silence == IF pc = "ready" THEN MODBUS_INTERFRAME_TIMEOUT
           ELSE IF pc = "idle" THEN target - idleFor ELSE 0

(* What may become of a good frame: it comes while the ring still has its  *)
(* content, it is dropped by the next wait for silence, or it belongs to   *)
(* the attempt that is under way, whose first answer is in the ring or     *)
(* still to come.                                                          *)
Good(g) == g \in flight /\ g.kind = "good"
Remembered(g, i) == lastRx[i] = Content(g)
Covered(g) == \E i \in Slots : /\ Remembered(g, i)
                               /\ g.due <= Silence + Turns(i) * MODBUS_INTERFRAME_TIMEOUT
Drained(g) == pc # "rx" /\ g.due < Silence
OfAttempt(g) == g.mine /\ g.fc = req.fc /\ g.sz = req.sz /\ InReach(g.due + elapsed)
First(p, g) == Good(p) /\ OfAttempt(p) /\ Content(p) = Content(g)
               /\ p.due + elapsed < MODBUS_RESPONSE_TIMEOUT
Current(g) == /\ pc = "rx" /\ OfAttempt(g)
              /\ (\E i \in Slots : Remembered(g, i)) \/ \E p \in flight : First(p, g)

KindsInv == \A g \in flight : g.kind \in Kinds
SafeInv == \A g \in flight : Good(g) => Covered(g) \/ Drained(g) \/ Current(g)
SameInv == pc = "rx" => \A g, h \in flight : Good(g) /\ Good(h)
                           => Covered(g) \/ Covered(h) \/ Content(g) = Content(h)
WaitInv == pc = "idle" => idleFor <= target /\ target - idleFor <= MODBUS_INTERFRAME_TIMEOUT

OwnInv == KindsInv /\ SafeInv /\ SameInv /\ WaitInv /\ ResponseIsOwn

LEMMA RingTurns ==
    /\ LAST_RX_HISTORY \in Nat \ {0} /\ MODBUS_INTERFRAME_TIMEOUT \in Nat \ {0}
    /\ \A x \in Slots : (x + 1) % LAST_RX_HISTORY = IF x + 1 = LAST_RX_HISTORY THEN 0 ELSE x + 1
<1>1. LAST_RX_HISTORY \in Nat \ {0} /\ MODBUS_INTERFRAME_TIMEOUT \in Nat \ {0}
  BY CommAssumption
<1>2. ASSUME NEW x \in Slots
      PROVE  (x + 1) % LAST_RX_HISTORY = IF x + 1 = LAST_RX_HISTORY THEN 0 ELSE x + 1
  <2>1. x \in Nat /\ x < LAST_RX_HISTORY
    BY <1>1 DEF Slots
  <2>2. CASE x + 1 = LAST_RX_HISTORY
    BY <1>1, <2>1, <2>2
  <2>3. CASE x + 1 < LAST_RX_HISTORY
    BY <1>1, <2>1, <2>3
  <2> QED
    BY <1>1, <2>1, <2>2, <2>3
<1> QED
  BY <1>1, <1>2

(* What the hypotheses bound.                                              *)
LEMMA Reach ==
    ASSUME NEW d \in Nat, NEW e \in Nat, d <= e, InReach(e)
    PROVE  /\ InReach(d) /\ ~NearDeadline(e) /\ ~OutOfBudget(e)
           /\ e <= MODBUS_RESPONSE_TIMEOUT + MODBUS_INTERFRAME_TIMEOUT
           /\ e <= LAST_RX_HISTORY * MODBUS_INTERFRAME_TIMEOUT
<1> DEFINE L == LAST_RX_HISTORY * MODBUS_INTERFRAME_TIMEOUT
<1>1. L \in Nat
  BY RingTurns
<1>2. /\ ~(e > (MODBUS_TOTAL_REQUEST_TIMEOUT * 4) \div 5)
      /\ e <= MODBUS_RESPONSE_TIMEOUT + MODBUS_INTERFRAME_TIMEOUT /\ e <= L
  BY DEF InReach, NearDeadline
<1> HIDE DEF L
<1>3. MODBUS_TOTAL_REQUEST_TIMEOUT \in Nat /\ MODBUS_RESPONSE_TIMEOUT \in Nat
      /\ MODBUS_INTERFRAME_TIMEOUT \in Nat
  BY Bounds
<1>4. /\ ~(d > (MODBUS_TOTAL_REQUEST_TIMEOUT * 4) \div 5)
      /\ d <= MODBUS_RESPONSE_TIMEOUT + MODBUS_INTERFRAME_TIMEOUT /\ d <= L
      /\ ~(e > MODBUS_TOTAL_REQUEST_TIMEOUT)
  BY <1>1, <1>2, <1>3
<1> QED
  BY <1>2, <1>4 DEF L, InReach, NearDeadline, OutOfBudget

(* Frames that are d closer.                                               *)
Closer(g, h, d) ==
    /\ g.fc = h.fc /\ g.sz = h.sz /\ g.kind = h.kind /\ g.data = h.data /\ g.mine = h.mine
    /\ g.due + d = h.due

LEMMA Approach ==
    ASSUME NEW fl \in SUBSET FrameSet, NEW d \in Nat, \A h \in fl : d <= h.due
    PROVE  /\ \A g \in After(d, fl) : g \in FrameSet /\ \E h \in fl : Closer(g, h, d)
           /\ \A h \in fl : \E g \in After(d, fl) : Closer(g, h, d)
<1>1. ASSUME NEW h \in fl
      PROVE  LET g == [h EXCEPT !.due = IF d < h.due THEN h.due - d ELSE 0]
             IN  g \in FrameSet /\ Closer(g, h, d)
  <2>1. h \in FrameSet /\ h.due \in Nat /\ d <= h.due
    BY DEF FrameSet
  <2>2. (IF d < h.due THEN h.due - d ELSE 0) \in Nat
        /\ (IF d < h.due THEN h.due - d ELSE 0) + d = h.due
    BY <2>1
  <2> QED
    BY <2>1, <2>2 DEF FrameSet, Closer
<1> QED
  BY <1>1 DEF After

(* Whose slots they match is a matter of their contents.                   *)
LEMMA SameContent ==
    ASSUME NEW g, NEW h, NEW d, Closer(g, h, d)
    PROVE  Content(g) = Content(h)
  BY DEF Content, Closer

(* Time in which no response is accepted.                                  *)
LEMMA SilenceIs ==
    ASSUME TypeOK, WaitInv
    PROVE  /\ Silence \in Nat /\ Silence <= MODBUS_INTERFRAME_TIMEOUT
           /\ \A i \in Slots : Turns(i) \in Nat /\ Turns(i) * MODBUS_INTERFRAME_TIMEOUT \in Nat
<1>1. Silence \in Nat /\ Silence <= MODBUS_INTERFRAME_TIMEOUT
  BY RingTurns DEF TypeOK, WaitInv, Silence
<1>2. ASSUME NEW i \in Slots PROVE Turns(i) \in Nat /\ Turns(i) * MODBUS_INTERFRAME_TIMEOUT \in Nat
  <2>1. lastRxNext \in Nat /\ lastRxNext < LAST_RX_HISTORY /\ i \in Nat
    BY RingTurns DEF TypeOK, Slots
  <2>2. Turns(i) \in Nat
    BY <2>1, RingTurns DEF Turns
  <2> QED
    BY <2>2, RingTurns
<1> QED
  BY <1>1, <1>2

LEMMA SilenceIsNext ==
    ASSUME TypeOK', WaitInv'
    PROVE  /\ Silence' \in Nat /\ Silence' <= MODBUS_INTERFRAME_TIMEOUT
           /\ \A i \in Slots : Turns(i)' \in Nat /\ Turns(i)' * MODBUS_INTERFRAME_TIMEOUT \in Nat
<1>1. Silence' \in Nat /\ Silence' <= MODBUS_INTERFRAME_TIMEOUT
  BY RingTurns DEF TypeOK, WaitInv, Silence
<1>2. ASSUME NEW i \in Slots PROVE Turns(i)' \in Nat /\ Turns(i)' * MODBUS_INTERFRAME_TIMEOUT \in Nat
  <2>1. lastRxNext' \in Nat /\ lastRxNext' < LAST_RX_HISTORY /\ i \in Nat
    BY RingTurns DEF TypeOK, Slots
  <2>2. Turns(i)' \in Nat
    <3> DEFINE n == lastRxNext'
    <3>1. Turns(i)' = IF i < n THEN i + LAST_RX_HISTORY - n ELSE i - n
      BY DEF Turns
    <3>2. n \in Nat /\ n < LAST_RX_HISTORY /\ i \in Nat
      BY <2>1
    <3> HIDE DEF n
    <3>3. (IF i < n THEN i + LAST_RX_HISTORY - n ELSE i - n) \in Nat
      BY <3>2, RingTurns
    <3> QED
      BY <3>1, <3>3
  <2> QED
    BY <2>2, RingTurns
<1> QED
  BY <1>1, <1>2

(* What is covered stays so while no response is accepted: the time that   *)
(* passes brings frame and response closer alike.                          *)
LEMMA CoverKept ==
    ASSUME TypeOK, TypeOK', WaitInv, WaitInv', UNCHANGED ring, NEW d \in Nat,
           Silence <= Silence' + d, NEW h \in FrameSet, NEW g \in FrameSet,
           Content(g) = Content(h), g.due + d <= h.due
    PROVE  /\ Covered(h) => Covered(g)'
           /\ Drained(h) /\ pc' # "rx" => Drained(g)'
<1> DEFINE s == Silence
           ss == Silence'
<1>1. s \in Nat /\ ss \in Nat /\ g.due \in Nat /\ h.due \in Nat /\ s <= ss + d
  BY SilenceIs, SilenceIsNext DEF FrameSet
<1>2. ASSUME Covered(h) PROVE Covered(g)'
  <2>1. PICK i \in Slots : Remembered(h, i) /\ h.due <= s + Turns(i) * MODBUS_INTERFRAME_TIMEOUT
    BY <1>2 DEF Covered
  <2> DEFINE t == Turns(i) * MODBUS_INTERFRAME_TIMEOUT
  <2>2. t \in Nat /\ h.due <= s + t
    BY <2>1, SilenceIs
  <2>3. (Turns(i) * MODBUS_INTERFRAME_TIMEOUT)' = t
    BY DEF Turns, ring
  <2>4. g.due <= ss + t
    <3> HIDE DEF s, ss, t
    <3> QED
      BY <1>1, <2>2
  <2>5. Remembered(g, i)'
    BY <2>1 DEF Remembered, ring, Content
  <2> QED
    BY <2>3, <2>4, <2>5 DEF Covered
<1>3. ASSUME Drained(h), pc' # "rx" PROVE Drained(g)'
  <2>1. h.due < s
    BY <1>3 DEF Drained
  <2>2. g.due < ss
    <3> HIDE DEF s, ss
    <3> QED
      BY <1>1, <2>1
  <2> QED
    BY <1>3, <2>2 DEF Drained
<1> QED
  BY <1>2, <1>3

(* Between attempts every good frame is covered or will be drained.        *)
Rested(h) == Good(h) => Covered(h) \/ Drained(h)

LEMMA RestKept ==
    ASSUME TypeOK, TypeOK', WaitInv, WaitInv', UNCHANGED ring, NEW d \in Nat,
           pc' # "rx", Silence <= Silence' + d,
           \A g \in flight' : \E h \in flight :
              /\ g.kind = h.kind /\ Content(g) = Content(h) /\ g.due + d <= h.due
              /\ h.kind \in Kinds /\ Rested(h)
    PROVE  KindsInv' /\ SafeInv' /\ SameInv'
<1>1. ASSUME NEW g \in flight' PROVE g.kind \in Kinds /\ (g.kind = "good" => Covered(g)' \/ Drained(g)')
  <2>1. PICK h \in flight : /\ g.kind = h.kind /\ Content(g) = Content(h) /\ g.due + d <= h.due
                            /\ h.kind \in Kinds /\ Rested(h)
    OBVIOUS
  <2>2. g \in FrameSet /\ h \in FrameSet
    BY DEF TypeOK
  <2>3. /\ Covered(h) => Covered(g)'
        /\ Drained(h) => Drained(g)'
    BY <2>1, <2>2, CoverKept
  <2>4. g.kind = "good" => Covered(h) \/ Drained(h)
    BY <2>1 DEF Rested, Good
  <2> QED
    BY <2>1, <2>3, <2>4
<1> QED
  BY <1>1 DEF KindsInv, SafeInv, SameInv, Good

(* Outside the receive loop that is what SafeInv says.                     *)
LEMMA RestedIs ==
    ASSUME KindsInv, SafeInv, pc # "rx", NEW h \in flight
    PROVE  h.kind \in Kinds /\ Rested(h)
  BY DEF KindsInv, SafeInv, Current, Rested

(* The line between calls, and the start of a call.                        *)
LEMMA PauseOwn ==
    ASSUME TypeOK, TypeOK', OwnInv, Pause
    PROVE  OwnInv'
<1>1. pc = "ready" /\ pc' = "ready" /\ flight' = After(1, flight) /\ UNCHANGED <<ring, result>>
  BY DEF Pause
<1>2. WaitInv' /\ ResponseIsOwn'
  BY <1>1 DEF OwnInv, WaitInv, ResponseIsOwn
<1>3. Silence' = Silence /\ Silence \in Nat
  BY <1>1, SilenceIs DEF Silence, OwnInv
<1>4. ASSUME NEW g \in flight'
      PROVE  \E h \in flight : /\ g.kind = h.kind /\ Content(g) = Content(h) /\ g.due + 0 <= h.due
                               /\ h.kind \in Kinds /\ Rested(h)
  <2>1. PICK h \in flight : g = [h EXCEPT !.due = IF 1 < h.due THEN h.due - 1 ELSE 0]
    BY <1>1 DEF After
  <2>2. h \in FrameSet /\ h.due \in Nat
    BY DEF TypeOK, FrameSet
  <2>3. g.kind = h.kind /\ Content(g) = Content(h)
    BY <2>1, <2>2 DEF Content, FrameSet
  <2>4. g.due = IF 1 < h.due THEN h.due - 1 ELSE 0
    BY <2>1, <2>2 DEF FrameSet
  <2>5. g.due + 0 <= h.due
    BY <2>2, <2>4
  <2> QED
    BY <1>1, <2>3, <2>5, RestedIs DEF OwnInv
<1>5. Silence <= Silence' + 0 /\ pc' # "rx"
  BY <1>1, <1>3
<1> QED
  BY <1>1, <1>2, <1>4, <1>5, RestKept DEF OwnInv

LEMMA SendOwn ==
    ASSUME TypeOK, TypeOK', OwnInv, SendAndWait
    PROVE  OwnInv'
<1>1. /\ pc = "ready" /\ pc' = "idle" /\ UNCHANGED <<ring, result>>
      /\ flight' = {[f EXCEPT !.mine = FALSE] : f \in flight}
      /\ idleFor' = 0 /\ target' = MODBUS_INTERFRAME_TIMEOUT
  BY DEF SendAndWait, EnterWaitIdle
<1>2. WaitInv' /\ ResponseIsOwn'
  BY <1>1, RingTurns DEF OwnInv, WaitInv, ResponseIsOwn
<1>3. Silence <= Silence' + 0
  BY <1>1, RingTurns DEF Silence
<1>4. ASSUME NEW g \in flight'
      PROVE  \E h \in flight : /\ g.kind = h.kind /\ Content(g) = Content(h) /\ g.due + 0 <= h.due
                               /\ h.kind \in Kinds /\ Rested(h)
  <2>1. PICK h \in flight : g = [h EXCEPT !.mine = FALSE]
    BY <1>1
  <2>2. h \in FrameSet /\ h.due \in Nat
    BY DEF TypeOK, FrameSet
  <2>3. g.kind = h.kind /\ Content(g) = Content(h) /\ g.due = h.due
    BY <2>1, <2>2 DEF Content, FrameSet
  <2>4. g.due + 0 <= h.due
    BY <2>2, <2>3
  <2> QED
    BY <1>1, <2>3, <2>4, RestedIs DEF OwnInv
<1> QED
  BY <1>1, <1>2, <1>3, <1>4, RestKept DEF OwnInv

(* The wait for silence, when it ends without a request being written.     *)
LEMMA WaitOwn ==
    ASSUME TypeOK, TypeOK', OwnInv, WriteFails \/ \E f \in flight : DrainFrame(f)
    PROVE  OwnInv'
<1>1. pc = "idle" /\ pc' \in {"idle", "ready"} /\ UNCHANGED ring
  BY DEF WriteFails, DrainFrame, EndCall
<1>2. \E d \in Nat : \E fl \in SUBSET flight :
         /\ flight' = After(d, fl) /\ \A h \in fl : d <= h.due
         /\ pc' = "ready" \/ (target' - idleFor' = MODBUS_INTERFRAME_TIMEOUT /\ idleFor' <= target')
  <2>1. CASE WriteFails
    <3>1. target - idleFor \in Nat /\ flight' = After(target - idleFor, flight) /\ pc' = "ready"
      BY <1>1, <2>1 DEF WriteFails, Pass, EndCall, OwnInv, WaitInv, TypeOK
    <3>2. \A h \in flight : target - idleFor <= h.due
      BY <2>1 DEF WriteFails, Silent
    <3> QED
      BY <3>1, <3>2
  <2>2. CASE \E f \in flight : DrainFrame(f)
    <3>1. PICK f \in flight : DrainFrame(f)
      BY <2>2
    <3>3. \A h \in flight : f.due <= h.due
      BY <3>1 DEF DrainFrame, Arrives
    <3>2. f.due \in Nat /\ flight' = After(f.due, flight \ {f})
      BY <3>1, <3>3, WholeFrame DEF DrainFrame, TypeOK, FrameSet
    <3>4. idleFor' \in Nat
      BY DEF TypeOK
    <3>5. pc' = "ready" \/ target' = idleFor' + MODBUS_INTERFRAME_TIMEOUT
      BY <3>1 DEF DrainFrame, EndCall, NewTarget
    <3>6. pc' = "ready" \/ (target' - idleFor' = MODBUS_INTERFRAME_TIMEOUT /\ idleFor' <= target')
      BY <3>4, <3>5, RingTurns
    <3> QED
      BY <3>2, <3>3, <3>6
  <2> QED
    BY <2>1, <2>2
<1>3. PICK d \in Nat : \E fl \in SUBSET flight :
         /\ flight' = After(d, fl) /\ \A h \in fl : d <= h.due
         /\ pc' = "ready" \/ (target' - idleFor' = MODBUS_INTERFRAME_TIMEOUT /\ idleFor' <= target')
  BY <1>2
<1>4. PICK fl \in SUBSET flight :
         /\ flight' = After(d, fl) /\ \A h \in fl : d <= h.due
         /\ pc' = "ready" \/ (target' - idleFor' = MODBUS_INTERFRAME_TIMEOUT /\ idleFor' <= target')
  BY <1>3
<1>5. WaitInv'
  BY <1>4, RingTurns DEF WaitInv
<1>6. ResponseIsOwn'
  BY DEF WriteFails, DrainFrame, EndCall, Failed, OwnInv, ResponseIsOwn
<1>7. Silence <= Silence' + d
  <2>1. Silence' = MODBUS_INTERFRAME_TIMEOUT
    BY <1>1, <1>4 DEF Silence, TypeOK
  <2>2. Silence \in Nat /\ Silence <= MODBUS_INTERFRAME_TIMEOUT
    BY SilenceIs DEF OwnInv
  <2> QED
    BY <2>1, <2>2, RingTurns
<1>8. ASSUME NEW g \in flight'
      PROVE  \E h \in flight : /\ g.kind = h.kind /\ Content(g) = Content(h) /\ g.due + d <= h.due
                               /\ h.kind \in Kinds /\ Rested(h)
  <2>1. fl \in SUBSET FrameSet
    BY DEF TypeOK
  <2>2. PICK h \in fl : Closer(g, h, d)
    BY <1>4, <2>1, Approach
  <2>3. h.due \in Nat
    BY <2>1 DEF FrameSet
  <2>4. g.kind = h.kind /\ Content(g) = Content(h) /\ g.due + d <= h.due
    BY <2>2, <2>3, SameContent DEF Closer
  <2> QED
    BY <1>1, <2>4, RestedIs DEF OwnInv
<1> QED
  BY <1>1, <1>5, <1>6, <1>7, <1>8, RestKept DEF OwnInv

(* How an attempt ends.                                                    *)
LEMMA RetryOwn ==
    ASSUME TypeOK, TypeOK', OwnInv, pc = "rx", Retry
    PROVE  pc' # "rx" /\ Silence = 0 /\ Silence' = MODBUS_INTERFRAME_TIMEOUT /\ WaitInv' /\ ResponseIsOwn'
<1>1. CASE retries > 0
  <2>1. pc' = "idle" /\ idleFor' = 0 /\ target' = MODBUS_INTERFRAME_TIMEOUT /\ result' = result
    BY <1>1 DEF Retry, EnterWaitIdle
  <2> QED
    BY <2>1, RingTurns DEF Silence, WaitInv, OwnInv, ResponseIsOwn
<1>2. CASE ~(retries > 0)
  <2>1. pc' = "ready" /\ result' = Failed
    BY <1>2 DEF Retry, EndCall
  <2> QED
    BY <2>1 DEF Silence, WaitInv, ResponseIsOwn, Failed
<1> QED
  BY <1>1, <1>2

LEMMA TimeoutOwn ==
    ASSUME TypeOK, TypeOK', OwnInv, RxTimeout
    PROVE  OwnInv'
<1> DEFINE R == MODBUS_RESPONSE_TIMEOUT
           I == MODBUS_INTERFRAME_TIMEOUT
<1>1. /\ pc = "rx" /\ flight' = After(R, flight) /\ UNCHANGED ring /\ Retry
      /\ \A h \in flight : R <= h.due
  BY DEF RxTimeout, Pass, Silent
<1>2. pc' # "rx" /\ Silence = 0 /\ Silence' = I /\ WaitInv' /\ ResponseIsOwn'
  BY <1>1, RetryOwn
<1>3. R \in Nat /\ I \in Nat /\ elapsed \in Nat
  BY Bounds DEF TypeOK
<1>4. ASSUME NEW g \in flight'
      PROVE  g.kind \in Kinds /\ (g.kind = "good" => Covered(g)')
  <2>1. flight \in SUBSET FrameSet
    BY DEF TypeOK
  <2>2. g \in FrameSet /\ \E h \in flight : Closer(g, h, R)
    BY <1>1, <1>3, <2>1, Approach
  <2>3. PICK h \in flight : Closer(g, h, R)
    BY <2>2
  <2>4. h \in FrameSet /\ h.due \in Nat /\ g.due \in Nat /\ g.due + R = h.due
        /\ Content(g) = Content(h) /\ g.kind = h.kind
    BY <2>1, <2>2, <2>3, SameContent DEF FrameSet, Closer
  <2>5. ASSUME Covered(h) PROVE Covered(g)'
    <3>1. Silence <= Silence' + R
      BY <1>2, <1>3
    <3>2. g.due + R <= h.due
      BY <2>4, <1>3
    <3> QED
      BY <1>1, <1>2, <1>3, <2>2, <2>4, <2>5, <3>1, <3>2, CoverKept DEF OwnInv
  <2>6. ASSUME Current(h) PROVE Covered(g)'
    <3>1. InReach(h.due + elapsed)
      BY <2>6 DEF Current, OfAttempt
    <3>2. h.due + elapsed <= R + I
      BY <3>1 DEF InReach
    <3>3. g.due <= I
      BY <1>3, <2>4, <3>2
    <3>4. ~\E p \in flight : First(p, h)
      <4>1. ASSUME NEW p \in flight PROVE ~(p.due + elapsed < R)
        <5>1. p.due \in Nat /\ R <= p.due
          BY <1>1, <2>1 DEF FrameSet
        <5> QED
          BY <1>3, <5>1
      <4> QED
        BY <4>1 DEF First
    <3>5. PICK i \in Slots : Remembered(h, i)
      BY <2>6, <3>4 DEF Current
    <3>6. Remembered(g, i)'
      BY <1>1, <2>4, <3>5 DEF Remembered, ring, Content
    <3>7. g.due <= Silence' + (Turns(i) * I)'
      <4> DEFINE t == Turns(i)' * I
      <4>1. t \in Nat
        BY <1>2, SilenceIsNext
      <4>2. g.due <= I + t
        <5> HIDE DEF t
        <5> QED
          BY <1>3, <2>4, <3>3, <4>1
      <4> QED
        BY <1>2, <4>2
    <3> QED
      BY <3>6, <3>7 DEF Covered
  <2>7. h.kind \in Kinds /\ (h.kind = "good" => Covered(h) \/ Current(h))
    BY <1>1 DEF OwnInv, KindsInv, SafeInv, Drained, Good
  <2> QED
    BY <2>4, <2>5, <2>6, <2>7
<1> QED
  BY <1>2, <1>4 DEF OwnInv, KindsInv, SafeInv, SameInv, Good

(* The frame that is taken, and what is left on the line.                  *)
LEMMA Taken ==
    ASSUME TypeOK, TypeOK', OwnInv, NEW f \in flight, RxFrame(f, 0)
    PROVE  /\ pc = "rx" /\ f \in FrameSet /\ f.due \in Nat /\ elapsed \in Nat
           /\ elapsed' = elapsed + f.due /\ Silence = 0 /\ req' = req /\ WaitInv
           /\ \A g \in flight' : g \in FrameSet /\ g.due \in Nat
                 /\ \E h \in flight : h # f /\ h \in FrameSet /\ f.due <= h.due /\ Closer(g, h, f.due)
           /\ \A h \in flight : h = f \/ \E g \in flight' : Closer(g, h, f.due)
           /\ \A h \in flight : h.kind \in Kinds /\ (Good(h) => Covered(h) \/ Current(h))
           /\ Received(f, 0) = f
<1>1. /\ pc = "rx" /\ flight' = After(f.due, flight \ {f}) /\ elapsed' = elapsed + f.due
      /\ (\A h \in flight : f.due <= h.due) /\ req' = req
  <2>1. \A h \in flight : f.due <= h.due
    BY DEF RxFrame, Arrives
  <2> QED
    BY <2>1, WholeFrame DEF RxFrame
<1>2. flight \ {f} \in SUBSET FrameSet /\ f \in FrameSet /\ f.due \in Nat /\ elapsed \in Nat
  BY DEF TypeOK, FrameSet
<1>3. \A h \in flight \ {f} : f.due <= h.due
  BY <1>1
<1>4. /\ \A g \in flight' : g \in FrameSet /\ \E h \in flight \ {f} : Closer(g, h, f.due)
      /\ \A h \in flight \ {f} : \E g \in flight' : Closer(g, h, f.due)
  BY <1>1, <1>2, <1>3, Approach
<1>5. ASSUME NEW g \in flight'
      PROVE  g \in FrameSet /\ g.due \in Nat
             /\ \E h \in flight : h # f /\ h \in FrameSet /\ f.due <= h.due /\ Closer(g, h, f.due)
  BY <1>2, <1>3, <1>4 DEF FrameSet
<1>6. \A h \in flight : h.kind \in Kinds /\ (Good(h) => Covered(h) \/ Current(h))
  BY <1>1 DEF OwnInv, KindsInv, SafeInv, Drained
<1>7. Silence = 0 /\ WaitInv
  BY <1>1 DEF Silence, OwnInv
<1>8. \A h \in flight : h = f \/ \E g \in flight' : Closer(g, h, f.due)
  BY <1>4
<1>9. Received(f, 0) = f
  BY <1>1, WholeFrame
<1> QED
  BY <1>1, <1>2, <1>5, <1>6, <1>7, <1>8, <1>9

(* No answer of the attempt can be behind a frame that is near the         *)
(* deadline.                                                               *)
LEMMA NoneBehind ==
    ASSUME TypeOK, TypeOK', OwnInv, NEW f \in flight, RxFrame(f, 0), NEW h \in flight, Current(h)
    PROVE  ~NearDeadline(elapsed') /\ ~OutOfBudget(elapsed')
<1>1. f.due \in Nat /\ elapsed \in Nat /\ elapsed' = elapsed + f.due
  BY Taken
<1>2. h.due \in Nat /\ f.due <= h.due
  BY DEF TypeOK, FrameSet, RxFrame, Arrives
<1>3. InReach(h.due + elapsed)
  BY DEF Current, OfAttempt
<1>4. elapsed' \in Nat /\ h.due + elapsed \in Nat /\ elapsed' <= h.due + elapsed
  BY <1>1, <1>2
<1>5. InReach(elapsed')
  BY <1>3, <1>4, Reach
<1> QED
  BY <1>4, <1>5, Reach

LEMMA GivesUpOwn ==
    ASSUME GatewayInTime, TypeOK, TypeOK', OwnInv, NEW f \in flight, RxGivesUp(f, 0)
    PROVE  OwnInv'
<1>1. RxFrame(f, 0) /\ Retry /\ UNCHANGED ring /\ (RxRejects(f) \/ OutOfBudget(elapsed'))
  BY Taken DEF RxGivesUp
<1>2. pc = "rx" /\ f.due \in Nat /\ Silence = 0
  BY <1>1, Taken
<1>3. pc' # "rx" /\ Silence' = MODBUS_INTERFRAME_TIMEOUT /\ WaitInv' /\ ResponseIsOwn'
  BY <1>1, <1>2, RetryOwn
<1>4. OutOfBudget(elapsed')
  <2>1. ~RxRejects(f)
    <3>1. f.kind \in Kinds /\ f.kind \in FrameKinds
      BY <1>1, Taken DEF FrameSet
    <3> QED
      BY <3>1 DEF GatewayInTime, RxRejects, FrameKinds
  <2> QED
    BY <1>1, <2>1
<1>5. Silence <= Silence' + f.due
  BY <1>2, <1>3, RingTurns
<1>6. ASSUME NEW g \in flight'
      PROVE  \E h \in flight : /\ g.kind = h.kind /\ Content(g) = Content(h) /\ g.due + f.due <= h.due
                               /\ h.kind \in Kinds /\ Rested(h)
  <2>1. PICK h \in flight : h \in FrameSet /\ Closer(g, h, f.due)
    BY <1>1, Taken
  <2>2. g.kind = h.kind /\ Content(g) = Content(h) /\ g.due + f.due = h.due /\ h.due \in Nat
    BY <2>1, SameContent DEF Closer, FrameSet
  <2>3. g.due + f.due <= h.due
    BY <2>2
  <2>4. ~Current(h)
    BY <1>1, <1>4, NoneBehind
  <2>5. h.kind \in Kinds /\ Rested(h)
    BY <1>1, <2>4, Taken DEF Rested
  <2> QED
    BY <2>2, <2>3, <2>5
<1> QED
  BY <1>1, <1>2, <1>3, <1>5, <1>6, RestKept DEF OwnInv

(* A frame is discarded: the receive loop goes on.                         *)
LEMMA DiscardOwn ==
    ASSUME GatewayInTime, TypeOK, TypeOK', OwnInv, NEW f \in flight, RxDiscard(f, 0)
    PROVE  OwnInv'
<1>1. /\ RxFrame(f, 0) /\ Discards(f, elapsed') /\ ~RxRejects(f)
      /\ UNCHANGED <<pc, retries, idleFor, target, ring, result>>
  BY Taken DEF RxDiscard
<1>2. /\ pc = "rx" /\ pc' = "rx" /\ f \in FrameSet /\ f.due \in Nat /\ elapsed \in Nat
      /\ elapsed' = elapsed + f.due /\ Silence = 0 /\ Silence' = 0 /\ req' = req
      /\ WaitInv /\ WaitInv' /\ ResponseIsOwn' /\ UNCHANGED ring
  <2>1. pc = "rx" /\ pc' = "rx" /\ UNCHANGED ring
    BY <1>1, Taken
  <2>2. Silence' = 0 /\ WaitInv' /\ ResponseIsOwn'
    BY <1>1, <2>1 DEF Silence, WaitInv, OwnInv, ResponseIsOwn
  <2> QED
    BY <1>1, <2>1, <2>2, Taken
<1>3. f.kind # "exception"
  BY <1>1, Taken DEF GatewayInTime
<1>4. Silence <= Silence' + f.due
  BY <1>2
(* What is left is as it was, f.due closer.                                *)
<1>5. ASSUME NEW g \in flight', NEW h \in flight, h # f, Closer(g, h, f.due)
      PROVE  /\ g \in FrameSet /\ h \in FrameSet /\ g.due + elapsed' = h.due + elapsed
             /\ Content(g) = Content(h) /\ g.kind = h.kind
             /\ (Covered(h) => Covered(g)') /\ (OfAttempt(h) => OfAttempt(g)')
  <2>1. g \in FrameSet /\ h \in FrameSet /\ g.due \in Nat /\ h.due \in Nat
    BY <1>1, Taken DEF TypeOK, FrameSet
  <2>2. g.due + f.due = h.due /\ Content(g) = Content(h) /\ g.kind = h.kind
    BY <1>5, SameContent DEF Closer
  <2>3. g.due + elapsed' = h.due + elapsed
    BY <1>2, <2>1, <2>2
  <2>4. g.due + f.due <= h.due
    BY <1>2, <2>1, <2>2
  <2>5. Covered(h) => Covered(g)'
    BY <1>2, <1>4, <2>1, <2>2, <2>4, CoverKept
  <2>6. ASSUME OfAttempt(h) PROVE OfAttempt(g)'
    BY <1>2, <1>5, <2>3, <2>6 DEF OfAttempt, Closer
  <2> QED
    BY <2>1, <2>2, <2>3, <2>5, <2>6
<1>6. ASSUME NEW h \in flight, Current(h), First(f, h)
      PROVE  \E i \in Slots : Remembered(h, i)
  <2>1. f.kind = "good" /\ f.fc = req.fc /\ f.sz = req.sz /\ Content(f) = Content(h)
    BY <1>6 DEF First, Good, OfAttempt
  <2>2. \E i \in Slots : lastRx[i] = Content(f)
    BY <1>1, <2>1 DEF Discards, IsStaleDuplicate
  <2> QED
    BY <2>1, <2>2 DEF Remembered
<1>7. ASSUME NEW g \in flight', NEW h \in flight, h # f, Closer(g, h, f.due), Current(h)
      PROVE  Current(g)'
  <2>1. /\ Content(g) = Content(h) /\ OfAttempt(g)'
    BY <1>5, <1>7 DEF Current
  <2>2. CASE \E i \in Slots : Remembered(h, i)
    <3>1. PICK i \in Slots : Remembered(h, i)
      BY <2>2
    <3>2. Remembered(g, i)'
      BY <1>2, <2>1, <3>1 DEF Remembered, ring, Content
    <3> QED
      BY <1>2, <2>1, <3>2 DEF Current
  <2>3. CASE ~\E i \in Slots : Remembered(h, i)
    <3>1. PICK p \in flight : First(p, h) /\ p # f
      BY <1>6, <1>7, <2>3 DEF Current
    <3>2. PICK q \in flight' : Closer(q, p, f.due)
      BY <1>1, <3>1, Taken
    <3>3. /\ q.due + elapsed' = p.due + elapsed /\ Content(q) = Content(p) /\ q.kind = p.kind
          /\ OfAttempt(q)'
      BY <1>5, <3>1, <3>2 DEF First
    <3>4. First(q, g)'
      BY <2>1, <3>1, <3>2, <3>3 DEF First, Good, Content
    <3> QED
      BY <1>2, <2>1, <3>4 DEF Current
  <2> QED
    BY <2>2, <2>3
<1>8. ASSUME NEW g \in flight'
      PROVE  \E h \in flight : h # f /\ Closer(g, h, f.due)
  BY <1>1, Taken
<1>9. KindsInv' /\ SafeInv'
  <2>1. ASSUME NEW g \in flight' PROVE g.kind \in Kinds /\ (g.kind = "good" => Covered(g)' \/ Current(g)')
    <3>1. PICK h \in flight : h # f /\ Closer(g, h, f.due)
      BY <1>8
    <3>2. h.kind \in Kinds /\ (h.kind = "good" => Covered(h) \/ Current(h))
      BY <1>1, Taken DEF Good
    <3> QED
      BY <1>5, <1>7, <3>1, <3>2
  <2> QED
    BY <2>1 DEF KindsInv, SafeInv, Good
<1>10. SameInv'
  <2>1. ASSUME NEW g \in flight', NEW u \in flight', g.kind = "good", u.kind = "good"
        PROVE  Covered(g)' \/ Covered(u)' \/ Content(g) = Content(u)
    <3>1. PICK h \in flight : h # f /\ Closer(g, h, f.due)
      BY <1>8
    <3>2. PICK v \in flight : v # f /\ Closer(u, v, f.due)
      BY <1>8
    <3>3. Good(h) /\ Good(v)
      BY <1>5, <2>1, <3>1, <3>2 DEF Good
    <3>4. Covered(h) \/ Covered(v) \/ Content(h) = Content(v)
      BY <1>2, <3>3 DEF OwnInv, SameInv
    <3> QED
      BY <1>5, <3>1, <3>2, <3>4
  <2> QED
    BY <2>1 DEF SameInv, Good, Content
<1> QED
  BY <1>2, <1>9, <1>10 DEF OwnInv

(* One turn of the ring.                                                   *)
LEMMA OneTurn ==
    ASSUME NEW n \in Nat
    PROVE  (n + 1) * MODBUS_INTERFRAME_TIMEOUT = n * MODBUS_INTERFRAME_TIMEOUT + MODBUS_INTERFRAME_TIMEOUT
  BY RingTurns

LEMMA NextTurns ==
    ASSUME TypeOK, lastRxNext' = NextSlot
    PROVE  /\ \A i \in Slots : Turns(i)' \in Nat
           /\ \A i \in Slots \ {lastRxNext} : Turns(i) = Turns(i)' + 1
           /\ Turns(lastRxNext) = 0
           /\ lastRxNext \in Slots
           /\ \A i \in Slots : i = lastRxNext => LAST_RX_HISTORY = Turns(i)' + 1
<1> DEFINE j == lastRxNext
           n == lastRxNext'
           H == LAST_RX_HISTORY
<1>1. j \in Slots /\ n = IF j + 1 = H THEN 0 ELSE j + 1
  BY RingTurns DEF TypeOK, NextSlot
<1>2. H \in Nat \ {0} /\ \A i \in Slots : i \in Nat /\ i < H
  BY RingTurns DEF Slots
<1>3. \A i : /\ Turns(i) = IF i < j THEN i + H - j ELSE i - j
             /\ Turns(i)' = IF i < n THEN i + H - n ELSE i - n
  BY DEF Turns
<1>4. ASSUME NEW i \in Slots
      PROVE  /\ (IF i < n THEN i + H - n ELSE i - n) \in Nat
             /\ i # j => (IF i < j THEN i + H - j ELSE i - j) = (IF i < n THEN i + H - n ELSE i - n) + 1
             /\ i = j => /\ (IF i < j THEN i + H - j ELSE i - j) = 0
                         /\ H = (IF i < n THEN i + H - n ELSE i - n) + 1
  <2>1. i \in Nat /\ i < H /\ j \in Nat /\ j < H
    BY <1>1, <1>2
  <2>2. CASE j + 1 = H
    <3>1. n = 0
      BY <1>1, <2>2
    <3> HIDE DEF n, j, H
    <3> QED
      BY <3>1, <2>1, <2>2, <1>2
  <2>3. CASE j + 1 < H
    <3>1. n = j + 1
      BY <1>1, <2>1, <2>3, <1>2
    <3> HIDE DEF n, j, H
    <3> QED
      BY <3>1, <2>1, <2>3, <1>2
  <2> QED
    BY <2>1, <2>2, <2>3, <1>2
<1>5. lastRxNext' = n /\ \A i \in Slots : Turns(i)' \in Nat
  BY <1>3, <1>4
<1> HIDE DEF n
<1> QED
  BY <1>1, <1>3, <1>4, <1>5

(* A response is accepted.  It is the attempt's own, since none that the   *)
(* ring remembers is taken, and no other is left that could be taken for   *)
(* the answer to a later call.                                             *)
LEMMA AcceptOwn ==
    ASSUME TypeOK, TypeOK', OwnInv, NEW f \in flight, RxAccept(f, 0)
    PROVE  OwnInv'
<1> DEFINE I == MODBUS_INTERFRAME_TIMEOUT
           H == LAST_RX_HISTORY
<1>1. /\ RxFrame(f, 0) /\ f.kind = "good" /\ ~Discards(f, elapsed') /\ pc' = "ready"
      /\ result' = [ok |-> TRUE, own |-> f.mine, late |-> NearDeadline(elapsed')]
      /\ lastRx' = [lastRx EXCEPT ![lastRxNext] = Content(f)] /\ lastRxNext' = NextSlot
  BY Taken DEF RxAccept, EndCall
<1>2. /\ pc = "rx" /\ f \in FrameSet /\ f.due \in Nat /\ elapsed \in Nat /\ Silence = 0
      /\ elapsed' = elapsed + f.due /\ I \in Nat \ {0} /\ H \in Nat \ {0}
  BY <1>1, Taken, RingTurns
<1>3. Silence' = I /\ WaitInv'
  BY <1>1 DEF Silence, WaitInv
<1>4. f.fc = req.fc /\ f.sz = req.sz /\ ~IsStaleDuplicate(f, elapsed')
  BY <1>1 DEF Discards
<1>5. ASSUME ~NearDeadline(elapsed') PROVE ~Covered(f) /\ f.mine
  <2>1. ~\E i \in Slots : lastRx[i] = Content(f)
    BY <1>4, <1>5 DEF IsStaleDuplicate
  <2>2. ~Covered(f)
    BY <2>1 DEF Covered, Remembered
  <2>3. Current(f)
    BY <1>1, <2>2, Taken DEF Good
  <2> QED
    BY <2>2, <2>3 DEF Current, OfAttempt
<1>6. ResponseIsOwn'
  <2>1. result'.own = f.mine /\ result'.late = NearDeadline(elapsed')
    BY <1>1
  <2> QED
    BY <1>5, <2>1 DEF ResponseIsOwn
<1>7. /\ \A i \in Slots : Turns(i)' \in Nat
      /\ \A i \in Slots \ {lastRxNext} : Turns(i) = Turns(i)' + 1
      /\ Turns(lastRxNext) = 0
      /\ \A i \in Slots : i = lastRxNext => H = Turns(i)' + 1
      /\ lastRxNext \in Slots
  BY <1>1, NextTurns
<1>8. ASSUME NEW g \in flight', g.kind = "good"
      PROVE  Covered(g)' \/ Drained(g)'
  <2>1. PICK h \in flight : h # f /\ h \in FrameSet /\ f.due <= h.due /\ Closer(g, h, f.due)
    BY <1>1, Taken
  <2>2. /\ g \in FrameSet /\ g.due \in Nat /\ h.due \in Nat /\ g.due + f.due = h.due
        /\ Content(g) = Content(h) /\ Good(h)
    BY <1>1, <1>8, <2>1, SameContent, Taken DEF Closer, Good, FrameSet
  <2>3. g.due <= h.due
    BY <1>2, <2>2
  <2>4. ASSUME NEW i \in Slots, Remembered(h, i), h.due <= Silence + Turns(i) * I
        PROVE  Covered(g)' \/ Drained(g)'
    <3>1. CASE i = lastRxNext
      <4>1. h.due <= 0
        BY <1>2, <1>7, <2>2, <2>4, <3>1
      <4>2. g.due < I
        BY <1>2, <2>2, <2>3, <4>1
      <4> QED
        BY <1>1, <1>3, <4>2 DEF Drained
    <3>2. CASE i # lastRxNext
      <4> DEFINE n == Turns(i)'
      <4>1. n \in Nat /\ Turns(i) = n + 1
        BY <1>7, <3>2
      <4>2. Turns(i) * I = n * I + I /\ n * I \in Nat
        <5> HIDE DEF n
        <5> QED
          BY <4>1, <1>2, OneTurn
      <4>3. g.due <= I + n * I
        <5> DEFINE t == n * I
        <5>1. t \in Nat /\ h.due <= 0 + (t + I)
          BY <4>2, <2>4, <1>2
        <5>2. g.due <= I + t
          <6> HIDE DEF t
          <6> QED
            BY <5>1, <1>2, <2>2, <2>3
        <5> QED
          BY <5>2
      <4>4. Remembered(g, i)'
        BY <1>1, <2>2, <2>4, <3>2 DEF Remembered, Content, TypeOK
      <4> QED
        BY <1>3, <4>3, <4>4 DEF Covered
    <3> QED
      BY <3>1, <3>2
  <2>5. ASSUME Content(h) = Content(f), Current(h) PROVE Covered(g)'
    <3>1. InReach(h.due + elapsed)
      BY <2>5 DEF Current, OfAttempt
    <3>2. h.due + elapsed <= H * I
      BY <3>1 DEF InReach
    <3>3. PICK i \in Slots : i = lastRxNext
      BY <1>7
    <3> DEFINE n == Turns(i)'
    <3>4. n \in Nat /\ H = n + 1
      BY <1>7, <3>3
    <3>5. H * I = n * I + I /\ n * I \in Nat
      <4> HIDE DEF n
      <4> QED
        BY <3>4, <1>2, OneTurn
    <3>6. g.due <= I + n * I
      <4> DEFINE t == n * I
                 l == H * I
      <4>1. t \in Nat /\ l = t + I /\ h.due + elapsed <= l
        BY <3>2, <3>5
      <4>2. g.due <= I + t
        <5> HIDE DEF t, l
        <5> QED
          BY <4>1, <1>2, <2>2, <2>3
      <4> QED
        BY <4>2
    <3>7. Remembered(g, i)'
      BY <1>1, <2>2, <2>5, <3>3 DEF Remembered, Content, TypeOK
    <3> QED
      BY <1>3, <3>6, <3>7 DEF Covered
  <2>6. Covered(h) \/ Current(h)
    BY <1>1, <2>1, <2>2, Taken
  <2>7. ASSUME Covered(h) PROVE Covered(g)' \/ Drained(g)'
    BY <2>4, <2>7 DEF Covered
  <2>8. ASSUME ~Covered(h) PROVE Covered(g)'
    <3>1. Current(h)
      BY <2>6, <2>8
    <3>2. ~NearDeadline(elapsed')
      BY <1>1, <3>1, NoneBehind
    <3>3. Good(f) /\ ~Covered(f)
      BY <1>1, <1>5, <3>2 DEF Good
    <3>4. Content(f) = Content(h)
      BY <1>2, <2>2, <2>8, <3>3 DEF OwnInv, SameInv
    <3> QED
      BY <2>5, <3>1, <3>4
  <2> QED
    BY <2>7, <2>8
<1>9. \A g \in flight' : g.kind \in Kinds
  <2>1. ASSUME NEW g \in flight' PROVE g.kind \in Kinds
    <3>1. PICK h \in flight : Closer(g, h, f.due)
      BY <1>1, Taken
    <3> QED
      BY <1>1, <3>1, Taken DEF Closer
  <2> QED
    BY <2>1
<1> QED
  BY <1>1, <1>3, <1>6, <1>8, <1>9 DEF OwnInv, KindsInv, SafeInv, SameInv, Good

(* The request is written and answered: only covered frames of earlier     *)
(* answers are left.                                                       *)
LEMMA WriteOwn ==
    ASSUME GatewayInTime, TypeOK, TypeOK', OwnInv, WriteFrame
    PROVE  OwnInv'
<1> DEFINE t == target - idleFor
<1>1. PICK em \in Emissions, k \in Kinds, x \in Data :
         flight' = After(t, flight) \cup {Frame(req, k, x, TRUE, d) : d \in em}
  BY DEF WriteFrame
<1>2. /\ pc = "idle" /\ pc' = "rx" /\ elapsed' = 0 /\ req' = req /\ UNCHANGED ring
      /\ UNCHANGED result /\ \A h \in flight : t <= h.due
  BY DEF WriteFrame, Silent
<1>3. t \in Nat /\ Silence = t /\ Silence' = 0
  BY <1>2 DEF OwnInv, WaitInv, TypeOK, Silence
<1>4. WaitInv /\ WaitInv' /\ ResponseIsOwn'
  BY <1>2 DEF OwnInv, WaitInv, ResponseIsOwn
<1>5. ASSUME NEW g \in After(t, flight)
      PROVE  g.kind \in Kinds /\ (g.kind = "good" => Covered(g)')
  <2>1. flight \in SUBSET FrameSet
    BY DEF TypeOK
  <2>2. g \in FrameSet /\ \E h \in flight : Closer(g, h, t)
    BY <1>2, <1>3, <2>1, Approach
  <2>3. PICK h \in flight : Closer(g, h, t)
    BY <2>2
  <2>4. /\ h \in FrameSet /\ h.due \in Nat /\ g.due \in Nat /\ g.due + t = h.due
        /\ Content(g) = Content(h) /\ g.kind = h.kind
    BY <2>1, <2>2, <2>3, SameContent DEF FrameSet, Closer
  <2>5. h.kind \in Kinds /\ (h.kind = "good" => Covered(h) \/ Drained(h))
    BY <1>2, RestedIs DEF OwnInv, Rested, Good
  <2>6. ~Drained(h)
    <3>1. t <= h.due
      BY <1>2
    <3>2. ~(h.due < t)
      <4> HIDE DEF t
      <4> QED
        BY <1>3, <2>4, <3>1
    <3> QED
      BY <1>3, <3>2 DEF Drained
  <2>7. Silence <= Silence' + t /\ g.due + t <= h.due
    <3> HIDE DEF t
    <3> QED
      BY <1>3, <2>4
  <2>8. Covered(h) => Covered(g)'
    BY <1>2, <1>3, <1>4, <2>2, <2>4, <2>7, CoverKept
  <2> QED
    BY <2>4, <2>5, <2>6, <2>8
<1>6. ASSUME NEW g \in flight', g \notin After(t, flight)
      PROVE  g.kind \in Kinds /\ g = Frame(req, k, x, TRUE, g.due) /\ g.due \in em
  <2>1. PICK d \in em : g = Frame(req, k, x, TRUE, d)
    BY <1>1, <1>6
  <2> QED
    BY <2>1 DEF Frame
<1>7. ASSUME NEW g \in flight', g \notin After(t, flight), g.kind = "good"
      PROVE  Current(g)'
  <2>1. g = Frame(req, k, x, TRUE, g.due) /\ g.due \in em
    BY <1>6, <1>7
  <2>2. k = "good"
    BY <1>7, <2>1 DEF Frame
  <2>3. PICK d \in em : d < MODBUS_RESPONSE_TIMEOUT
    BY <2>1 DEF GatewayInTime
  <2>4. PICK p \in flight' : p = Frame(req, k, x, TRUE, d)
    BY <1>1
  <2>5. /\ p.due = d /\ p.kind = "good" /\ p.mine /\ p.fc = req.fc /\ p.sz = req.sz
        /\ g.mine /\ g.fc = req.fc /\ g.sz = req.sz /\ Content(g) = Content(p)
    BY <2>1, <2>2, <2>4 DEF Frame, Content
  <2>6. d \in Nat /\ g.due \in Nat
    BY <2>1, CommAssumption
  <2>7. d + elapsed' = d /\ g.due + elapsed' = g.due
    BY <1>2, <2>6
  <2>8. InReach(d + elapsed') /\ InReach(g.due + elapsed')
    BY <2>1, <2>7 DEF GatewayInTime
  <2>9. OfAttempt(g)' /\ OfAttempt(p)'
    BY <1>2, <2>5, <2>8 DEF OfAttempt, InReach, NearDeadline
  <2>10. First(p, g)'
    BY <2>3, <2>5, <2>7, <2>9 DEF First, Good, Content
  <2> QED
    BY <1>2, <2>9, <2>10 DEF Current
<1>8. SameInv'
  <2>1. ASSUME NEW g \in flight', NEW h \in flight', g.kind = "good", h.kind = "good"
        PROVE  Covered(g)' \/ Covered(h)' \/ Content(g) = Content(h)
    <3>1. CASE g \in After(t, flight) \/ h \in After(t, flight)
      BY <1>5, <2>1, <3>1
    <3>2. CASE g \notin After(t, flight) /\ h \notin After(t, flight)
      BY <1>6, <3>2 DEF Frame, Content
    <3> QED
      BY <3>1, <3>2
  <2> QED
    BY <2>1 DEF SameInv, Good, Content
<1>9. KindsInv' /\ SafeInv'
  BY <1>5, <1>6, <1>7 DEF KindsInv, SafeInv, Good
<1> QED
  BY <1>4, <1>8, <1>9 DEF OwnInv

LEMMA OwnInit == ASSUME Init PROVE OwnInv
  BY DEF Init, Failed, OwnInv, KindsInv, SafeInv, SameInv, WaitInv, ResponseIsOwn

LEMMA OwnStep ==
    ASSUME GatewayInTime, TypeOK, TypeOK', OwnInv, [Next]_vars
    PROVE  OwnInv'
<1>1. CASE UNCHANGED vars
  BY <1>1 DEF vars, ring, OwnInv, KindsInv, SafeInv, SameInv, WaitInv, ResponseIsOwn, Covered,
              Drained, Current, Remembered, Silence, Turns, First, OfAttempt, Good
<1>2. CASE DrainFails \/ DrainHungUp \/ RxError \/ RxHangsUp
  BY <1>2 DEF DrainFails, DrainHungUp, RxError, RxHangsUp, LineHangsUp, GatewayInTime
<1>2a. CASE ReadsNothing
  BY <1>2a DEF ReadsNothing, ring, OwnInv, KindsInv, SafeInv, SameInv, WaitInv, ResponseIsOwn, Covered,
               Drained, Current, Remembered, Silence, Turns, First, OfAttempt, Good
<1>3. ASSUME NEW f \in flight, RxException(f, 0) PROVE FALSE
  BY <1>3, Taken DEF RxException, GatewayInTime
<1>4. Trickles = {0}
  BY DEF GatewayInTime, Trickles
<1> QED
  BY <1>1, <1>2, <1>2a, <1>3, <1>4, PauseOwn, SendOwn, WriteOwn, WaitOwn, TimeoutOwn, GivesUpOwn, DiscardOwn,
     AcceptOwn DEF Next

(* However answers are lost, delayed and re-emitted, the response that is  *)
(* accepted is the answer to the request that was sent, or was taken near  *)
(* the deadline.                                                           *)
THEOREM ResponseAlwaysOwn == ASSUME GatewayInTime PROVE Spec => []ResponseIsOwn
<1>1. Spec => []TypeOK
  BY CommTypeCorrect
<1>2. Init => OwnInv
  BY OwnInit
<1>3. TypeOK /\ TypeOK' /\ OwnInv /\ [Next]_vars => OwnInv'
  BY OwnStep
<1>4. OwnInv => ResponseIsOwn
  BY DEF OwnInv
<1> QED
  BY <1>1, <1>2, <1>3, <1>4, PTL DEF Spec
=============================================================================
