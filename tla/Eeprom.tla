------------------------------- MODULE Eeprom --------------------------------
(***************************************************************************)
(* Settings of a smart UPS (smarteeprom.c): the only way to change one is  *)
(* to make the UPS go on to the next of its values, until the wanted one   *)
(* comes round.  Answers carry nothing of the question; they may be lost,  *)
(* or come too late and be read as the answer to a later one.              *)
(***************************************************************************)
EXTENDS Naturals, Sequences, FiniteSets

CONSTANTS
    Rings,          \* the values of every item, in the order the UPS has them
    Settings,       \* values that a user may ask for
    MaxFaults       \* bound: answers that are lost or late

ASSUME EepromAssumption ==
    /\ MaxFaults \in Nat /\ Rings \in Seq(Seq(STRING))
    /\ \A n \in DOMAIN Rings : Len(Rings[n]) \in 1..10

VARIABLES
    place,          \* external: where in its ring every item is
    wanted,         \* the setting of every item; "-1" when not configured
    ee,             \* the program: see EepromInit
    result          \* what change_ups_eeprom_item() returned for every item

eepromVars == <<place, wanted, ee, result>>

Items == DOMAIN Rings
Value(n) == Rings[n][place[n]]
Cycles == 10                            \* for (i = 0; i < 10; i++)

(* What a user asks for in apctest, or what the configuration file says.   *)
Unset == "-1"
Requests == [Items -> Settings \cup {Unset}]
Configured(n) == wanted[n] # Unset

EepromInit ==
    /\ place \in [Items -> 1..Cycles] /\ \A n \in Items : place[n] <= Len(Rings[n])
    /\ wanted \in Requests
    /\ ee = [pc     |-> "next",
             item   |-> 0,          \* the item that is worked on
             i      |-> 0,
             old    |-> "none",     \* oldvalue
             first  |-> "none",     \* response1
             wire   |-> <<>>,       \* answers not read yet
             start  |-> 1,          \* history: place of the item at the start
             stale  |-> FALSE,      \* history: there was an answer to an earlier item
             faults |-> 0]          \* lost and late answers so far
    /\ result = [n \in Items |-> "none"]

(* A question and getline(): the first line that is there, or none within  *)
(* a second, because the answer "a" is lost or late.                       *)
Outcomes(a) ==
    LET w == Append(ee.wire, a)
    IN {[line |-> Head(w), rest |-> Tail(w), faults |-> ee.faults]}
       \cup IF ee.faults < MaxFaults
            THEN {[line |-> "none", rest |-> w, faults |-> ee.faults + 1]}
                 \cup IF ee.wire = <<>> THEN {[line |-> "none", rest |-> <<>>, faults |-> ee.faults + 1]}
                      ELSE {[line |-> Head(ee.wire), rest |-> Tail(ee.wire), faults |-> ee.faults + 1]}
            ELSE {}
Got(o, pc) == [ee EXCEPT !.wire = o.rest, !.faults = o.faults, !.pc = pc]

(* change_extended() and program_eeprom(): the items that are configured,  *)
(* in their order; what one returns does not matter to the next.           *)
NextItem ==
    /\ ee.pc = "next" /\ ee.item < Len(Rings)
    /\ LET n == ee.item + 1
       IN ee' = [ee EXCEPT !.item = n, !.pc = IF Configured(n) THEN "old" ELSE "next",
                           !.start = place[n], !.stale = ee.wire # <<>>]
    /\ UNCHANGED <<place, wanted, result>>

Returns(e, r) ==
    /\ ee' = [e EXCEPT !.pc = "next", !.i = 0, !.old = "none", !.first = "none"]
    /\ result' = [result EXCEPT ![ee.item] = r]

(* The old value; nothing to do if it is the setting.                      *)
AskOld ==
    /\ ee.pc = "old"
    /\ \E o \in Outcomes(Value(ee.item)) :
         IF o.line = "none" THEN Returns(Got(o, "next"), "FAILURE")
         ELSE IF o.line = wanted[ee.item] THEN Returns(Got(o, "next"), "SUCCESS")
         ELSE ee' = [Got(o, "stable") EXCEPT !.old = o.line] /\ UNCHANGED result
    /\ UNCHANGED <<place, wanted>>

(* Once more, to see that it is stable.                                    *)
AskStable ==
    /\ ee.pc = "stable"
    /\ \E o \in Outcomes(Value(ee.item)) :
         IF o.line # ee.old THEN Returns(Got(o, "next"), "FAILURE")
         ELSE ee' = Got(o, "ask") /\ UNCHANGED result
    /\ UNCHANGED <<place, wanted>>

(* The loop: the value is asked for, then '-' makes the UPS take the next  *)
(* one and say OK (or the '-' itself is lost).  A value that is not read   *)
(* leaves response1 as it is.                                              *)
Heard(o) == IF o.line = "none" THEN ee.first ELSE o.line
AskAgain ==
    /\ ee.pc = "ask"
    /\ \E o \in Outcomes(Value(ee.item)) : ee' = [Got(o, "cycle") EXCEPT !.first = Heard(o)]
    /\ UNCHANGED <<place, wanted, result>>
Cycle ==
    /\ ee.pc = "cycle"
    /\ \E o \in Outcomes("OK") :
         /\ \/ place' = [place EXCEPT ![ee.item] = (@ % Len(Rings[ee.item])) + 1]
            \/ o.line = "none" /\ o.rest = ee.wire /\ UNCHANGED place
         /\ IF o.line = "OK" THEN ee' = Got(o, "first") /\ UNCHANGED result
            ELSE Returns(Got(o, "next"), "FAILURE")
    /\ UNCHANGED wanted
AskFirst ==
    /\ ee.pc = "first"
    /\ \E o \in Outcomes(Value(ee.item)) : ee' = [Got(o, "second") EXCEPT !.first = Heard(o)]
    /\ UNCHANGED <<place, wanted, result>>

(* The value twice the same: the setting, the old one again (but for a     *)
(* value that is there twice in a row), or one more turn.  "Eat any        *)
(* garbage" reads one line.                                                *)
CameRound_dup(line, i) == line = ee.old          \* mutant: no value twice in a row
CameRound(line, i) == line = ee.old /\ i > 0
Eaten(w) == IF w = <<>> THEN w ELSE Tail(w)
AskSecond ==
    /\ ee.pc = "second"
    /\ \E o \in Outcomes(Value(ee.item)) :
         LET eat == [Got(o, "next") EXCEPT !.wire = Eaten(o.rest)]
         IN IF o.line = "none" \/ o.line # ee.first THEN Returns(eat, "FAILURE")
            ELSE IF o.line = wanted[ee.item] THEN Returns(Got(o, "next"), "SUCCESS")
            ELSE IF CameRound(o.line, ee.i) \/ ee.i + 1 = Cycles THEN Returns(eat, "FAILURE")
            ELSE ee' = [Got(o, "ask") EXCEPT !.i = @ + 1] /\ UNCHANGED result
    /\ UNCHANGED <<place, wanted>>

EepromNext ==
    NextItem \/ AskOld \/ AskStable \/ AskAgain \/ Cycle \/ AskFirst \/ AskSecond

EepromSpec == EepromInit /\ [][EepromNext]_eepromVars

---------------------------------------------------------------------------
HasValue(n, v) == \E k \in DOMAIN Rings[n] : Rings[n][k] = v

(* A setting that is reported as made is in the UPS, whatever was lost or  *)
(* late on the line since the item was begun; and as long as nothing was,  *)
(* it is refused only if the UPS does not know it, and the old value is    *)
(* back then.  (An answer to an earlier item that is still on the line may *)
(* be taken for the old value: "remains unchanged".)                       *)
SettingEndsWell ==
    ee.pc = "next" /\ ee.item > 0 /\ result[ee.item] # "none" =>
        LET n == ee.item
        IN /\ result[n] = "SUCCESS" /\ ~ee.stale => Value(n) = wanted[n]
           /\ result[n] = "FAILURE" /\ ee.faults = 0 =>
                /\ ~HasValue(n, wanted[n])
                /\ Value(n) = Rings[n][ee.start]
=============================================================================
