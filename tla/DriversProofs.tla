---------------------------- MODULE DriversProofs ----------------------------
(***************************************************************************)
(* What the drivers promise, proved for every table of capabilities, every *)
(* number of retries, every bound and every UPS.  A driver's invariant     *)
(* speaks of the time until a driver is attached, and of this one's.       *)
(***************************************************************************)
EXTENDS Drivers, SequenceTheorems, TLAPS

(* The daemon and the UPS.                                                 *)
UpsInv ==
    /\ truth \subseteq {"onbatt", "battlow", "replacebatt"}
    /\ told \in BOOLEAN /\ link \in {"up", "down"}
    /\ driver = "none" => phase \in {"attach", "aborted"} /\ Status = {"battpresent"} /\ ~told
    /\ driver # "none" => phase # "attach"

LEMMA ByteIsApc == UpsInv => ByteOf(truth) \subseteq ApcByte
  BY DEF UpsInv, ByteOf, ApcByte

LEMMA UpsStart == Init => UpsInv
<1>1. Init => told \in BOOLEAN
  BY Zenon DEF Init, UpsInit
<1> QED BY <1>1, UpsDriverAssumption DEF Init, UpsInit, UpsInv

---------------------------------------------------------------------------
(* Each driver takes its own steps only, does not attach again, and leaves *)
(* the UPS, the connection and the options alone.                          *)
Call(d) ==
    /\ driver = d /\ driver' = d
    /\ UNCHANGED <<truth, link, options>>
    /\ Silent \/ SayFailure \/ SayOk
    /\ phase # "attach" => phase' # "attach"

LEMMA DumbCalls == DumbNext => Call("dumb")
  BY DEF Call, DumbNext, DumbOpen, DumbSetup, DumbRead, DumbDtrEnable, DumbHibernate, DumbKill,
         DumbClose, Abort, OpenSucceeds, SetupDone, Hibernate, KillDone
LEMMA TestCalls == TestNext => Call("test")
  BY DEF Call, TestNext, TestOpen, TestSetup, TestRead, TestCheck, TestKill, TestClose,
         Abort, OpenSucceeds, SetupDone, KillDone
LEMMA NetCalls == NetNext => Call("net")
  BY DEF Call, NetNext, NetOpen, NetSetup, NetRead, NetCheck, NetTime, NetMaster, NetKill,
         NetClose, Abort, OpenSucceeds, SetupDone, KillDone, Announce
LEMMA PcnetCalls == PcnetNext => Call("pcnet")
  BY DEF Call, PcnetNext, PcnetBroadcast, PcnetForeign, PcnetSkips, PcnetOpen, PcnetSetup,
         PcnetRead, PcnetCheck, PcnetSelfTestMsg, PcnetTime, PcnetKill, PcnetClose,
         Abort, OpenSucceeds, SetupDone, KillDone
LEMMA SnmpCalls == SnmpNext => Call("snmplite")
  BY DEF Call, SnmpNext, SnmpOpen, SnmpSetup, SnmpReadOk, SnmpReadFails, SnmpCheck,
         SnmpSelfTest, SnmpKill, SnmpClose, Abort, OpenSucceeds, SetupDone, KillDone
LEMMA SmartCalls == SmartNext => Call("apcsmart")
  BY DEF Call, SmartNext, SmartAlert, SmartReadsAlert, SmartOpen, SmartSetup, SmartRead,
         SmartSelfTest, SmartPoll, SmartCheckFirst, SmartCheckLoop, SmartReturn, SmartCheck,
         SmartKill, SmartClose, Abort, OpenFails, OpenSucceeds, SetupDone, KillDone
LEMMA UsbCalls == UsbNext => Call("usb")
  BY DEF Call, UsbNext, UsbOpen, UsbSetup, UsbRead, UsbReport, UsbTimeout, UsbLost, UsbLostSay,
         UsbRelink, UsbKill, UsbClose, TakeReport, Abort, OpenFails, OpenSucceeds, SetupDone, KillDone

(* The daemon does not announce anything, and uses a driver only when it   *)
(* is attached.                                                            *)
LEMMA DaemonSteps ==
    ASSUME Daemon
    PROVE  /\ Silent /\ UNCHANGED <<driver, truth, link, options, driverVars>>
           /\ \/ phase = "act" /\ phase' \in {"check", "kill", "aborted", "close"}
              \/ phase = "hibernate" /\ phase' \in {"kill", "aborted"}
           /\ phase' = "kill" => driver # "dumb"
           /\ Status' \ DaemonBits = Status \ DaemonBits
           /\ Returned
  BY DEF Daemon, do_action, initiate_hibernate, Terminate, Hibernate, Abort, DaemonBits

LEMMA UpsStep ==
    ASSUME UpsInv, [Next]_vars
    PROVE  UpsInv'
<1> USE DEF UpsInv
<1>1. CASE UNCHANGED vars
  BY <1>1 DEF vars, upsVars
<1>2. CASE Attach
  <2>1. told' = told
    BY <1>2 DEF Attach, attach_driver, Abort, Silent
  <2> QED BY <1>2, <2>1, UpsDriverAssumption DEF Attach, attach_driver, Abort
<1>3. CASE Weather
  <2>1. told' = told
    BY <1>3 DEF Weather, World, Silent
  <2> QED BY <1>3, <2>1, UpsDriverAssumption DEF Weather, World
<1>4. CASE Daemon
  <2>1. told' = told
    BY <1>4, DaemonSteps DEF Silent
  <2> QED BY <1>4, <2>1, DaemonSteps
<1>5. CASE Dumb \/ Test \/ Net \/ Pcnet \/ Snmp \/ Smart \/ Usb
  <2>1. PICK d \in {"dumb", "test", "net", "pcnet", "snmplite", "apcsmart", "usb"} : Call(d)
    BY <1>5, DumbCalls, TestCalls, NetCalls, PcnetCalls, SnmpCalls, SmartCalls, UsbCalls
       DEF Dumb, Test, Net, Pcnet, Snmp, Smart, Usb
  <2>2. told' \in BOOLEAN
    BY <2>1, Zenon DEF Call, Silent, SayFailure, SayOk
  <2> QED BY <2>1, <2>2 DEF Call
<1> QED BY <1>1, <1>2, <1>3, <1>4, <1>5 DEF Next

---------------------------------------------------------------------------
(* What a call of a driver may do to the events, to the bits of the daemon *)
(* and to the program.                                                     *)
LinkStep ==
    \/ Silent
    \/ SayFailure /\ ~told
    \/ SayOk /\ (told \/ "commlost" \in Status)
KeepsDaemonBits == \A b \in DaemonBits : b \in Status' <=> b \in Status
Survives == phase \in {"fill", "check"} => phase' # "aborted"
Behaves == LinkStep /\ KeepsDaemonBits /\ Survives

---------------------------------------------------------------------------
(* The simple-signalling driver.  Only apcupsd --killpower kills, and it   *)
(* closes the driver then.                                                 *)
DumbInv ==
    driver \in {"none", "dumb"} =>
        /\ cable \in Cables /\ ~told
        /\ driver = "none" => outLines = {}
        /\ phase \in {"hibernate", "kill"} => options.hibernate_ups
        /\ KillLineReleased

LEMMA DumbStart == Init => DumbInv
  BY DEF Init, UpsInit, DumbInit, DumbInv, KillLineReleased

LEMMA DumbStep ==
    ASSUME UpsInv, DumbInv, Running, Attach \/ Weather \/ Daemon \/ Dumb
    PROVE  DumbInv'
<1> USE DumbAssumption DEF UpsInv, DumbInv, KillLineReleased, KillAsserted, RtsKills, DtrKills
<1>1. CASE Attach
  BY <1>1 DEF Attach, attach_driver, Silent, Abort, driverVars, dumbVars
<1>2. CASE Weather
  BY <1>2 DEF Weather, World, Silent, driverVars, dumbVars
<1>3. CASE Daemon
  BY <1>3, DaemonSteps DEF Silent, driverVars, dumbVars
<1>4. CASE Dumb
  <2>1. CASE DumbOpen
    BY <2>1 DEF DumbOpen, Abort, OpenSucceeds, Silent
  <2>2. CASE DumbSetup
    BY <2>2 DEF DumbSetup, SetupLines, SetupDone, Silent
  <2>3. CASE DumbRead
    BY <2>3 DEF DumbRead, Silent, dumbVars
  <2>4. CASE DumbDtrEnable
    BY <2>4 DEF DumbDtrEnable, Silent
  <2>5. CASE DumbHibernate
    BY <2>5 DEF DumbHibernate, Hibernate, Abort, Silent, dumbVars
  <2>6. CASE DumbKill
    BY <2>6 DEF DumbKill, KillDone, Silent
  <2>7. CASE DumbClose
    BY <2>7 DEF DumbClose, CloseLines, Silent
  <2> QED BY <1>4, <2>1, <2>2, <2>3, <2>4, <2>5, <2>6, <2>7 DEF Dumb, DumbNext
<1> QED BY <1>1, <1>2, <1>3, <1>4

---------------------------------------------------------------------------
(* The test driver never has anything to tell.                             *)
TestInv == driver \in {"none", "test"} => ~told

LEMMA TestStart == Init => TestInv
  BY DEF Init, UpsInit, TestInv

LEMMA TestStep ==
    ASSUME UpsInv, TestInv, Running, Attach \/ Weather \/ Daemon \/ Test
    PROVE  TestInv'
<1> USE DEF TestInv, Silent, Abort
<1>1. CASE Attach \/ Weather
  <2>1. told' = told /\ (driver' # driver => driver = "none")
    BY <1>1 DEF UpsInv, Attach, attach_driver, Weather, World
  <2> QED BY <2>1
<1>2. CASE Daemon
  BY <1>2, DaemonSteps
<1>3. CASE Test
  BY <1>3 DEF Test, TestNext, TestOpen, TestSetup, TestRead, TestCheck, TestKill, TestClose,
         OpenSucceeds, SetupDone, KillDone
<1> QED BY <1>1, <1>2, <1>3

---------------------------------------------------------------------------
(* The network driver.  A question changes the buffer, UPS_commlost and    *)
(* what it is asked for, and nothing else of the driver.                   *)
MasterBits == ApcByte \cup {"shutdown", "commlost", "fastpoll", "battpresent"}
Counters == 0..LossCap
Texts == [bits : (SUBSET MasterBits) \cup {{"nothing"}}]
NetState == [buf    : Texts,
             lost   : BOOLEAN,
             err    : BOOLEAN,
             caps   : {"unknown", "none", "all"},
             static : BOOLEAN,
             fresh  : BOOLEAN,
             loss   : Counters,
             said   : BOOLEAN,
             vain   : Counters]
Asked(m, n) ==
    /\ m \in NetState
    /\ m.loss = n.loss /\ m.said = n.said /\ m.vain = n.vain
    /\ n.caps # "unknown" => m.caps = n.caps
    /\ n.static => m.static
AskedNow(m, n) == Asked(m, n) /\ m.err = n.err /\ m.fresh = n.fresh
Counted(m, n) ==
    m \in NetState /\ \A f \in {"err", "fresh", "loss", "said", "vain"} : m[f] = n[f]

LEMMA PollsAre ==
    ASSUME UpsInv, master \in Masters
    PROVE  /\ NoText \in Texts /\ NoAnswer # NoText
           /\ \A p \in Polls : p # NoAnswer => p \in Texts /\ link # "down"
<1>1. Answer.bits \in SUBSET MasterBits
  BY NetAssumption, ByteIsApc DEF Answer, MasterBits
<1>2. Answer \in Texts
  BY <1>1 DEF Answer, Texts
<1>3. NoText \in Texts
  BY DEF NoText, Texts
<1>4. NoAnswer # NoText
  <2>1. NoAnswer.bits # NoText.bits
    BY DEF NoAnswer, NoText
  <2> QED BY <2>1
<1> QED BY <1>2, <1>3, <1>4 DEF Polls

LEMMA PollAsks ==
    ASSUME UpsInv, master \in Masters, NEW n \in NetState, NEW p \in Polls
    PROVE  /\ AskedNow(poll_ups(n, p), n)
           /\ poll_ups(n, p).caps = n.caps /\ poll_ups(n, p).static = n.static
           /\ p = NoAnswer => poll_ups(n, p).buf = NoText /\ poll_ups(n, p).lost
  BY PollsAre DEF poll_ups, NetState, AskedNow, Asked

LEMMA CapabilitiesAsk ==
    ASSUME UpsInv, master \in Masters, NEW n \in NetState, NEW p \in Polls
    PROVE  /\ Counted(get_capabilities(n, p), n)
           /\ get_capabilities(n, p).static = n.static
           /\ n.caps = "unknown" => AskedNow(get_capabilities(n, p), n)
<1> DEFINE q == poll_ups(n, p)
<1>1. q \in NetState /\ AskedNow(q, n) /\ q.static = n.static
  BY PollAsks DEF AskedNow, Asked
<1>2. PICK c \in {"unknown", "none", "all"} : get_capabilities(n, p) = [q EXCEPT !.caps = c]
  BY DEF get_capabilities
<1> HIDE DEF q
<1> QED BY <1>1, <1>2 DEF NetState, AskedNow, Asked, Counted

LEMMA StaticAsks ==
    ASSUME UpsInv, master \in Masters, NEW n \in NetState, NEW p \in Polls
    PROVE  /\ Counted(read_static_data(n, p), n)
           /\ read_static_data(n, p).caps = n.caps
           /\ ~n.static => AskedNow(read_static_data(n, p), n)
<1> DEFINE q == poll_ups(n, p)
           known == p # NoAnswer
<1>1. q \in NetState /\ AskedNow(q, n) /\ q.caps = n.caps
  BY PollAsks DEF AskedNow, Asked
<1>2. read_static_data(n, p) = [q EXCEPT !.static = known] /\ known \in BOOLEAN
  BY DEF read_static_data
<1> HIDE DEF q, known
<1> QED BY <1>1, <1>2 DEF NetState, AskedNow, Asked, Counted

LEMMA KnownAsks ==
    ASSUME UpsInv, master \in Masters, NEW n \in NetState, NEW p \in [1..5 -> Polls]
    PROVE  /\ AskedNow(Known(n, p), n)
           /\ n.caps # "unknown" /\ n.static => Known(n, p) = n
<1> DEFINE c == IF n.caps = "unknown" THEN get_capabilities(n, p[4]) ELSE n
<1>1. AskedNow(c, n)
  BY CapabilitiesAsk DEF AskedNow, Asked
<1>2. c \in NetState
  BY <1>1 DEF AskedNow, Asked
<1>3. ~c.static => AskedNow(read_static_data(c, p[5]), c)
  <2> HIDE DEF c
  <2> QED BY <1>2, StaticAsks
<1>4. Known(n, p) = IF c.caps # "unknown" /\ ~c.static THEN read_static_data(c, p[5]) ELSE c
  BY DEF Known
<1> HIDE DEF c
<1>5. AskedNow(Known(n, p), n)
  BY <1>1, <1>3, <1>4 DEF AskedNow, Asked
<1>6. ASSUME n.caps # "unknown", n.static PROVE Known(n, p) = n
  BY <1>6 DEF Known
<1> QED BY <1>5, <1>6

(* Who does not know what it asked for has no connection.                  *)
LEMMA UnknownIsLost ==
    ASSUME UpsInv, master \in Masters, NEW n \in NetState, NEW p \in [1..5 -> Polls],
           Known(n, p).caps = "unknown" \/ ~Known(n, p).static
    PROVE  Known(n, p).lost
<1> DEFINE g == get_capabilities(n, p[4])
           c == IF n.caps = "unknown" THEN g ELSE n
           r == read_static_data(c, p[5])
<1>1. g \in NetState /\ (g.caps = "unknown" => g.lost)
  <2> DEFINE q == poll_ups(n, p[4])
             k == IF p[4] = NoAnswer THEN "unknown" ELSE IF p[4] = NoText THEN "none" ELSE "all"
  <2>1. q \in NetState /\ (p[4] = NoAnswer => q.lost)
    BY PollAsks DEF AskedNow, Asked
  <2>2. g = [q EXCEPT !.caps = k]
    BY DEF get_capabilities
  <2>3. k \in {"unknown", "none", "all"} /\ (k = "unknown" => p[4] = NoAnswer)
    OBVIOUS
  <2> HIDE DEF g, q, k
  <2> QED BY <2>1, <2>2, <2>3 DEF NetState
<1>2. c \in NetState /\ (c.caps = "unknown" => c.lost)
  <2> HIDE DEF g
  <2> QED BY <1>1
<1>3. ~c.static => r.static \/ r.lost
  <2> DEFINE q == poll_ups(c, p[5])
             known == p[5] # NoAnswer
  <2> HIDE DEF c
  <2>1. q \in NetState /\ (~known => q.lost)
    BY <1>2, PollAsks DEF AskedNow, Asked
  <2>2. r = [q EXCEPT !.static = known]
    BY DEF read_static_data
  <2> HIDE DEF q, r, known
  <2> QED BY <2>1, <2>2 DEF NetState
<1>4. ~c.static => r.caps = c.caps
  <2> HIDE DEF c
  <2> QED BY <1>2, StaticAsks
<1>5. Known(n, p) = IF c.caps # "unknown" /\ ~c.static THEN r ELSE c
  BY DEF Known
<1> HIDE DEF c, g, r
<1> QED BY <1>2, <1>3, <1>4, <1>5

(* A buffer that is filled anew tells whether there was a connection; one  *)
(* that is fresh is left as it is.                                         *)
LEMMA FillAsks ==
    ASSUME UpsInv, master \in Masters, NEW n \in NetState, NEW p \in [1..5 -> Polls]
    PROVE  LET f == fill_status_buffer(n, p)
           IN /\ Asked(f, n)
              /\ n.fresh => f = n
              /\ ~n.fresh => /\ f.err <=> p[1] = NoAnswer
                             /\ f.err => f.buf = NoText /\ ~f.fresh /\ f.lost
                             /\ ~f.err => link # "down"
<1> DEFINE f == fill_status_buffer(n, p)
<1>1. CASE n.fresh
  BY <1>1 DEF fill_status_buffer, Asked
<1>2. CASE ~n.fresh /\ p[1] = NoAnswer
  <2> DEFINE r == poll_ups(n, p[1])
  <2>1. AskedNow(r, n) /\ r.buf = NoText /\ r.lost
    BY <1>2, PollAsks
  <2>2. f = [r EXCEPT !.err = TRUE]
    BY <1>2 DEF fill_status_buffer
  <2> HIDE DEF r, f
  <2>3. Asked(f, n) /\ f.err /\ f.buf = NoText /\ f.fresh = n.fresh /\ f.lost
    BY <2>1, <2>2 DEF NetState, AskedNow, Asked
  <2> QED BY <1>2, <2>3 DEF f
<1>3. CASE ~n.fresh /\ p[1] # NoAnswer
  <2> DEFINE q == poll_ups(n, p[1])
             r == [q EXCEPT !.err = FALSE, !.fresh = TRUE]
             c == IF r.caps = "unknown" THEN get_capabilities(r, p[2]) ELSE r
  <2>1. Asked(r, n) /\ r \in NetState /\ ~r.err
    <3>1. AskedNow(q, n)
      BY PollAsks
    <3> HIDE DEF q
    <3> QED BY <3>1 DEF NetState, AskedNow, Asked
  <2>2. AskedNow(c, r) /\ c \in NetState
    <3> HIDE DEF r
    <3> QED BY <2>1, CapabilitiesAsk DEF AskedNow, Asked
  <2>3. ~c.static => AskedNow(read_static_data(c, p[3]), c)
    <3> HIDE DEF c
    <3> QED BY <2>2, StaticAsks
  <2>4. f = IF c.caps # "unknown" /\ ~c.static THEN read_static_data(c, p[3]) ELSE c
    BY <1>3 DEF fill_status_buffer
  <2>5. link # "down"
    BY <1>3, PollsAre
  <2> HIDE DEF q, r, c, f
  <2>6. Asked(f, n) /\ ~f.err
    BY <2>1, <2>2, <2>3, <2>4 DEF AskedNow, Asked
  <2> QED BY <1>3, <2>5, <2>6 DEF f
<1> QED BY <1>1, <1>2, <1>3

(* The order to shut down has a reason, and so has every value of the two  *)
(* counters: _comm_loss does not lose a check that was in vain, because a  *)
(* slave on battery knows all it asks for and because a fresh buffer means *)
(* that there was a connection.                                            *)
LossCounts(n, s) ==
    /\ "shut_remote" \in s => n.said \/ (n.loss >= 5 /\ "onbatt" \in s)
    /\ n.loss >= 5 => "shut_remote" \in s
    /\ n.loss > 0 => "onbatt" \in s
NetInv ==
    driver \in {"none", "net"} =>
        /\ master \in Masters /\ net \in NetState
        /\ net.err <=> told
        /\ told => "commlost" \in Status
        /\ net.fresh => ~net.err
        /\ phase \in {"attach", "open", "setup"} => ~told /\ "onbatt" \notin Status
        /\ LossCounts(net, Status)
        /\ "onbatt" \in Status => net.caps # "unknown" /\ net.static
        /\ net.fresh => net.vain = 0
        /\ net.vain <= net.loss

(* get_ups_status_flag() with st and n keeps them.                         *)
LEMMA FlagTaken ==
    ASSUME NetAssumption, NEW n \in NetState, NEW st, NEW ok \in BOOLEAN,
           ok \/ ~Parsed(n), LossCounts(n, st), TakeFlag(n, st, ok)
    PROVE  /\ net' \in NetState
           /\ \A f \in {"err", "caps", "static", "fresh", "vain"} : net'[f] = n[f]
           /\ Status' \cap DaemonBits = st \cap DaemonBits
           /\ LossCounts(net', Status')
           /\ ~Parsed(n) => ("onbatt" \in Status' <=> "onbatt" \in st)
           /\ ~Parsed(n) /\ "onbatt" \in Status'
                => net'.loss = IF n.loss < LossCap THEN n.loss + 1 ELSE n.loss
           /\ n.lost => "commlost" \in Status'
<1> DEFINE s    == TakenStatus(SetTo(st, "commlost", n.lost), n)
           vain == ~(ok /\ Parsed(n)) /\ "onbatt" \in s
           down == Parsed(n) /\ "shutdown" \in n.buf.bits
           quit == vain /\ n.loss = LossPasses
           lost == "commlost" \in s
           said == IF Parsed(n) THEN down ELSE n.said
           loss == IF ~vain THEN 0 ELSE IF n.loss < LossCap THEN n.loss + 1 ELSE n.loss
           m    == [n EXCEPT !.lost = lost, !.said = said, !.loss = loss]
           t    == IF quit \/ down THEN s \cup {"shut_remote"} ELSE s
<1>1. Left(m, t)
  BY DEF TakeFlag
<1>2. /\ s \cap DaemonBits = st \cap DaemonBits
      /\ ~Parsed(n) => \A b \in {"onbatt", "shut_remote"} : b \in s <=> b \in st
  BY DEF TakenStatus, SetTo, DaemonBits, LocalBits
<1>3. Parsed(n) => "shut_remote" \notin s
  <2>1. "shut_remote" \notin MasterBits
    BY DEF MasterBits, ApcByte
  <2>2. Parsed(n) => n.buf.bits \subseteq MasterBits
    BY DEF Parsed, NoText, NetState, Texts
  <2> QED BY <2>1, <2>2 DEF TakenStatus, LocalBits
<1>4. /\ m \in NetState
      /\ m.err = n.err /\ m.caps = n.caps /\ m.static = n.static
      /\ m.fresh = n.fresh /\ m.vain = n.vain
      /\ m.said = said /\ m.loss = loss
  <2>1. lost \in BOOLEAN /\ said \in BOOLEAN
    <3>1. lost \in BOOLEAN
      <4> HIDE DEF s
      <4> QED OBVIOUS
    <3>3. down \in BOOLEAN
      OBVIOUS
    <3>2. n.said \in BOOLEAN
      BY DEF NetState
    <3> HIDE DEF lost, down
    <3> QED BY <3>1, <3>2, <3>3
  <2>2. loss \in Counters
    <3> HIDE DEF s, vain
    <3> QED BY NetAssumption DEF NetState, Counters
  <2> HIDE DEF lost, said, loss
  <2> QED BY <2>1, <2>2 DEF NetState
<1>5. /\ net' = [m EXCEPT !.lost = FALSE]
      /\ Status' \cap DaemonBits = t \cap DaemonBits
      /\ \A b \in {"onbatt", "shut_remote"} : b \in Status' <=> b \in t
  <2> HIDE DEF m, t
  <2> QED BY <1>1 DEF Left, SetTo, DaemonBits
<1>9. n.lost => "commlost" \in Status'
  <2>1. n.lost => lost
    BY DEF TakenStatus, SetTo, LocalBits
  <2>2. m.lost = lost
    <3>1. n \in NetState /\ m = [n EXCEPT !.lost = lost, !.said = said, !.loss = loss]
      OBVIOUS
    <3> HIDE DEF m, lost, said, loss
    <3> QED BY <3>1 DEF NetState
  <2>3. m.lost => "commlost" \in Status'
    <3> HIDE DEF m, t
    <3> QED BY <1>1 DEF Left, SetTo
  <2> HIDE DEF m, lost, t, s
  <2> QED BY <2>1, <2>2, <2>3
<1>6. /\ t \cap DaemonBits = s \cap DaemonBits
      /\ "onbatt" \in t <=> "onbatt" \in s
      /\ "shut_remote" \in t <=> quit \/ down \/ "shut_remote" \in s
  <2> HIDE DEF s, vain, down, quit
  <2> QED BY DEF DaemonBits
<1> HIDE DEF m, t, s, lost
<1>7. /\ net' \in NetState
      /\ net'.err = n.err /\ net'.caps = n.caps /\ net'.static = n.static
      /\ net'.fresh = n.fresh /\ net'.vain = n.vain
      /\ net'.said = m.said /\ net'.loss = m.loss
  BY <1>4, <1>5 DEF NetState
<1>8. LossCounts(net', Status')
  <2>1. /\ "onbatt" \in Status' <=> "onbatt" \in s
        /\ "shut_remote" \in Status' <=> quit \/ down \/ "shut_remote" \in s
    BY <1>5, <1>6
  <2>2. net'.said = said /\ net'.loss = loss
    BY <1>4, <1>7
  <2>6. /\ Parsed(n) => (net'.said <=> down)
        /\ ~Parsed(n) => net'.said = n.said
    <3>1. Parsed(n) => net'.said = down
      <4> HIDE DEF down
      <4> QED BY <2>2
    <3>2. ~Parsed(n) => net'.said = n.said
      <4> HIDE DEF down
      <4> QED BY <2>2
    <3> QED BY <3>1, <3>2
  <2> HIDE DEF said
  <2>3. n.loss \in Nat /\ n.loss <= LossCap
    BY NetAssumption DEF NetState, Counters
  <2>4. CASE Parsed(n)
    BY <1>3, <2>1, <2>2, <2>3, <2>4, <2>6, NetAssumption DEF LossCounts, LossPasses
  <2>5. CASE ~Parsed(n)
    BY <1>2, <2>1, <2>2, <2>3, <2>5, <2>6, NetAssumption DEF LossCounts, LossPasses
  <2> QED BY <2>4, <2>5
<1> QED BY <1>2, <1>4, <1>5, <1>6, <1>7, <1>8, <1>9

LEMMA NetStart == Init => NetInv
<1>1. Init => net \in NetState
  <2>1. NoText \in Texts
    BY DEF NoText, Texts
  <2> QED BY <2>1, NetAssumption DEF Init, NetInit, NetState, Counters
<1>2. Init => ~net.err /\ ~told
  BY DEF Init, NetInit, UpsInit
<1> QED BY <1>1, <1>2, NetAssumption DEF Init, UpsInit, NetInit, NetInv, LossCounts

LEMMA EnteredIs ==
    ASSUME net \in NetState
    PROVE  Counted(Entered, net) /\ Entered.caps = net.caps /\ Entered.static = net.static
<1> DEFINE lost == "commlost" \in Status
<1>1. lost \in BOOLEAN
  OBVIOUS
<1>2. Entered = [net EXCEPT !.lost = lost]
  BY DEF Entered
<1> HIDE DEF lost
<1> QED BY <1>1, <1>2 DEF NetState, Counted

LEMMA LeftWith ==
    ASSUME NEW n \in NetState, NEW s, Left(n, s)
    PROVE  /\ net' \in NetState
           /\ \A f \in {"err", "fresh", "vain", "loss", "said", "caps", "static"} : net'[f] = n[f]
           /\ Status' \cap DaemonBits = s \cap DaemonBits
           /\ \A b \in {"onbatt", "shut_remote"} : b \in Status' <=> b \in s
           /\ n.lost => "commlost" \in Status'
<1>1. net' = [n EXCEPT !.lost = FALSE]
  BY DEF Left
<1>2. Status' \ {"commlost"} = s \ {"commlost"}
  BY DEF Left, SetTo
<1>3. net' \in NetState
  BY <1>1 DEF NetState
<1>4. n.lost => "commlost" \in Status'
  BY DEF Left, SetTo
<1> QED BY <1>1, <1>2, <1>3, <1>4 DEF NetState, DaemonBits

LEMMA AnnouncedIs ==
    ASSUME told \in BOOLEAN, net \in NetState, net.err <=> told, NEW n \in NetState, Announce(n)
    PROVE  (told' <=> n.err) /\ LinkStep
<1>1. n.err \in BOOLEAN /\ net.err \in BOOLEAN
  BY DEF NetState
<1>2. CASE n.err = net.err
  <2>1. Silent
    BY <1>2 DEF Announce
  <2> QED BY <1>1, <1>2, <2>1 DEF Silent, LinkStep
<1>3. CASE n.err # net.err /\ n.err
  <2>1. SayFailure /\ ~told
    BY <1>1, <1>3 DEF Announce
  <2> QED BY <1>3, <2>1 DEF SayFailure, LinkStep
<1>4. CASE n.err # net.err /\ ~n.err
  <2>1. SayOk /\ told
    BY <1>1, <1>4 DEF Announce
  <2> QED BY <1>4, <2>1 DEF SayOk, LinkStep
<1> QED BY <1>2, <1>3, <1>4

LEMMA NetReads ==
    ASSUME UpsInv, NetInv, driver = "net", NetRead
    PROVE  NetInv' /\ LinkStep
<1> USE NetAssumption DEF UpsInv, NetInv
<1> DEFINE e    == [Entered EXCEPT !.vain = IF link = "up" THEN 0 ELSE @]
           f(p) == fill_status_buffer(e, p)
           k(p) == Known(f(p), p)
<1>1. PICK p \in [1..5 -> Polls] :
        /\ IF f(p).err /\ ~net.fresh THEN Left(f(p), Status)
           ELSE IF k(p).caps = "unknown" \/ ~k(p).static
                THEN Left(k(p), Status \cup {"slave"})
           ELSE TakeFlag(k(p), Status \cup {"slave"}, TRUE)
        /\ Announce(f(p))
  BY DEF NetRead
<1>2. /\ e \in NetState /\ e.vain = IF link = "up" THEN 0 ELSE net.vain
      /\ e.err = net.err /\ e.loss = net.loss /\ e.said = net.said
      /\ e.fresh = net.fresh /\ e.caps = net.caps /\ e.static = net.static
  BY EnteredIs DEF NetState, Counted, Counters
<1> HIDE DEF e
<1>3. /\ Asked(f(p), e)
      /\ e.fresh => f(p) = e
      /\ ~e.fresh => /\ f(p).err => f(p).buf = NoText /\ ~f(p).fresh /\ f(p).lost
                     /\ ~f(p).err => link # "down"
  BY <1>2, FillAsks
<1> HIDE DEF f
<1>4. AskedNow(k(p), f(p))
  BY <1>3, KnownAsks DEF Asked
<1> HIDE DEF k
<1>5. (told' <=> f(p).err) /\ LinkStep
  BY <1>1, <1>3, AnnouncedIs DEF Asked
<1>6. UNCHANGED <<driver, master>> /\ phase' = "act"
  BY DEF NetRead
<1>7. CASE f(p).err /\ ~net.fresh
  <2>1. Left(f(p), Status)
    BY <1>1, <1>7
  <2>2. /\ net' \in NetState
        /\ \A g \in {"err", "fresh", "vain", "loss", "said", "caps", "static"} :
             net'[g] = f(p)[g]
        /\ \A b \in {"onbatt", "shut_remote"} : b \in Status' <=> b \in Status
        /\ f(p).lost => "commlost" \in Status'
    BY <1>3, <2>1, LeftWith DEF Asked
  <2>3. LossCounts(net', Status')
    BY <1>2, <1>3, <2>2 DEF Asked, LossCounts
  <2>4. net'.vain <= net'.loss
    BY <1>2, <1>3, <2>2 DEF Asked, NetState, Counters
  <2> QED BY <1>2, <1>3, <1>5, <1>6, <1>7, <2>2, <2>3, <2>4 DEF Asked
<1>8. CASE ~(f(p).err /\ ~net.fresh)
  <2>4. ~k(p).err /\ ~told'
    BY <1>2, <1>3, <1>4, <1>5, <1>8 DEF AskedNow
  <2>1. k(p).vain = 0
    BY <1>2, <1>3, <1>4, <1>8 DEF AskedNow, Asked
  <2>2. CASE k(p).caps = "unknown" \/ ~k(p).static
    <3>1. "onbatt" \notin Status
      BY <1>2, <1>3, <1>4, <2>2 DEF AskedNow, Asked
    <3>2. Left(k(p), Status \cup {"slave"})
      BY <1>1, <1>8, <2>2
    <3>3. /\ net' \in NetState
          /\ \A g \in {"err", "fresh", "vain", "loss", "said", "caps", "static"} :
               net'[g] = k(p)[g]
          /\ \A b \in {"onbatt", "shut_remote"} : b \in Status' <=> b \in Status
      BY <1>4, <3>2, LeftWith DEF AskedNow, Asked
    <3>4. LossCounts(net', Status')
      BY <1>2, <1>3, <1>4, <3>3 DEF AskedNow, Asked, LossCounts
    <3> QED BY <1>4, <1>5, <1>6, <2>1, <2>4, <3>1, <3>3, <3>4 DEF AskedNow, Asked, NetState, Counters
  <2>3. CASE ~(k(p).caps = "unknown" \/ ~k(p).static)
    <3>1. TakeFlag(k(p), Status \cup {"slave"}, TRUE)
      BY <1>1, <1>8, <2>3
    <3>2. k(p) \in NetState /\ LossCounts(k(p), Status \cup {"slave"})
      BY <1>2, <1>3, <1>4 DEF AskedNow, Asked, LossCounts
    <3>3. /\ net' \in NetState
          /\ \A g \in {"err", "caps", "static", "fresh", "vain"} : net'[g] = k(p)[g]
          /\ LossCounts(net', Status')
      BY <3>1, <3>2, FlagTaken
    <3> QED BY <1>4, <1>5, <1>6, <2>1, <2>3, <2>4, <3>3 DEF AskedNow, Asked, NetState, Counters
  <2> QED BY <2>2, <2>3
<1> QED BY <1>7, <1>8

LEMMA NetChecks ==
    ASSUME UpsInv, NetInv, driver = "net", NetCheck
    PROVE  NetInv' /\ LinkStep
<1> USE NetAssumption DEF UpsInv, NetInv
<1> DEFINE e(b) == [Entered EXCEPT !.fresh = b, !.vain = InVain(b)]
           k(b, p) == Known(e(b), p)
           f(b, p) == fill_status_buffer(k(b, p), p)
<1>1. PICK p \in [1..5 -> Polls], b \in {net.fresh, FALSE} :
        IF k(b, p).caps = "unknown" \/ ~k(b, p).static
        THEN Left(k(b, p), Status) /\ Silent
        ELSE TakeFlag(f(b, p), Status, b \/ ~f(b, p).err) /\ Announce(f(b, p))
  BY DEF NetCheck
<1> DEFINE ee == e(b)
           kk == k(b, p)
           ff == f(b, p)
<1>2. /\ ee \in NetState /\ ee.fresh = b /\ ee.vain = InVain(b)
      /\ ee.err = net.err /\ ee.loss = net.loss /\ ee.said = net.said
      /\ ee.caps = net.caps /\ ee.static = net.static
  <2>1. InVain(b) \in Counters
    BY DEF InVain, NetState, Counters
  <2>2. b \in BOOLEAN
    BY <1>1 DEF NetState
  <2> QED BY <2>1, <2>2, EnteredIs DEF NetState, Counted
<1> HIDE DEF e
<1>3. AskedNow(kk, ee) /\ (ee.caps # "unknown" /\ ee.static => kk = ee)
  BY <1>2, KnownAsks DEF Asked
<1>8. kk.caps = "unknown" \/ ~kk.static => kk.lost
  BY <1>2, UnknownIsLost
<1>9. b => ~net.err
  BY <1>1 DEF NetState
<1> HIDE DEF k
<1>4. /\ Asked(ff, kk)
      /\ b => ff = kk
      /\ ~b => /\ ff.err => ff.buf = NoText /\ ~ff.fresh /\ ff.lost
               /\ ~ff.err => link # "down"
  BY <1>2, <1>3, FillAsks DEF AskedNow, Asked
<1> HIDE DEF f
<1>5. UNCHANGED <<driver, master>> /\ phase' = "fill"
  BY DEF NetCheck
<1>6. CASE kk.caps = "unknown" \/ ~kk.static
  <2>1. Left(kk, Status) /\ told' = told /\ LinkStep
    BY <1>1, <1>6 DEF Silent, LinkStep
  <2>2. "onbatt" \notin Status /\ kk.vain = 0
    BY <1>2, <1>3, <1>6 DEF AskedNow, Asked, InVain
  <2>3. /\ net' \in NetState
        /\ \A g \in {"err", "fresh", "vain", "loss", "said", "caps", "static"} :
             net'[g] = kk[g]
        /\ \A g \in {"onbatt", "shut_remote"} : g \in Status' <=> g \in Status
        /\ kk.lost => "commlost" \in Status'
    BY <1>3, <2>1, LeftWith DEF AskedNow, Asked
  <2>4. LossCounts(net', Status')
    BY <1>2, <1>3, <2>3 DEF AskedNow, Asked, LossCounts
  <2>5. "commlost" \in Status'
    BY <1>6, <1>8, <2>3
  <2>6. net'.fresh => ~net'.err
    BY <1>2, <1>3, <1>9, <2>3 DEF AskedNow
  <2> QED BY <1>2, <1>3, <1>5, <2>1, <2>2, <2>3, <2>4, <2>5, <2>6
          DEF AskedNow, Asked, NetState, Counters
<1>7. CASE ~(kk.caps = "unknown" \/ ~kk.static)
  <2>1. TakeFlag(ff, Status, b \/ ~ff.err) /\ Announce(ff)
    BY <1>1, <1>7
  <2>2. ff \in NetState /\ LossCounts(ff, Status)
    BY <1>2, <1>3, <1>4 DEF AskedNow, Asked, LossCounts
  <2>3. (b \/ ~ff.err) \/ ~Parsed(ff)
    BY <1>4 DEF Parsed
  <2>4. /\ net' \in NetState
        /\ \A g \in {"err", "caps", "static", "fresh", "vain"} : net'[g] = ff[g]
        /\ LossCounts(net', Status')
        /\ ~Parsed(ff) => ("onbatt" \in Status' <=> "onbatt" \in Status)
        /\ ~Parsed(ff) /\ "onbatt" \in Status'
             => net'.loss = IF ff.loss < LossCap THEN ff.loss + 1 ELSE ff.loss
        /\ ff.lost => "commlost" \in Status'
    <3> DEFINE ok == b \/ ~ff.err
    <3>1. ok \in BOOLEAN
      OBVIOUS
    <3>2. ok \/ ~Parsed(ff)
      BY <2>3
    <3>3. TakeFlag(ff, Status, ok)
      BY <2>1
    <3> HIDE DEF ok
    <3> QED BY <2>2, <3>1, <3>2, <3>3, FlagTaken
  <2>5. (told' <=> ff.err) /\ LinkStep
    BY <2>1, <2>2, AnnouncedIs
  <2>6. ff.vain = InVain(b) /\ ff.loss = net.loss /\ (b => ff.fresh) /\ (ff.fresh => InVain(b) = 0)
    BY <1>2, <1>3, <1>4 DEF AskedNow, Asked, InVain
  <2>7. net'.vain <= net'.loss
    <3>1. CASE InVain(b) = 0
      BY <2>4, <2>6, <3>1 DEF NetState, Counters
    <3>2. CASE InVain(b) # 0
      <4>1. link # "up" /\ ~b /\ "onbatt" \in Status
        BY <3>2 DEF InVain
      <4>2. ~Parsed(ff)
        BY <1>4, <4>1 DEF Parsed
      <4> QED BY <2>4, <2>6, <4>1, <4>2 DEF InVain, NetState, Counters
    <3> QED BY <3>1, <3>2
  <2>8. ff.caps # "unknown" /\ ff.static
    BY <1>4, <1>7 DEF Asked
  <2>9. b => ~ff.err
    BY <1>2, <1>3, <1>4, <1>9 DEF AskedNow
  <2>10. told' => "commlost" \in Status'
    BY <1>4, <2>4, <2>5, <2>9
  <2>11. net'.fresh => ~net'.err
    BY <1>4, <2>4, <2>9
  <2> QED BY <1>5, <2>4, <2>5, <2>6, <2>7, <2>8, <2>10, <2>11
<1> QED BY <1>6, <1>7

LEMMA NetStep ==
    ASSUME UpsInv, NetInv, Running, Attach \/ Weather \/ Daemon \/ Net
    PROVE  NetInv'
<1> USE NetAssumption DEF UpsInv
<1>1. CASE Attach
  <2>1. told' = told /\ UNCHANGED <<net, master, Status>> /\ (driver' \in {"none", "net"} => driver = "none")
    BY <1>1 DEF Attach, attach_driver, Silent, Abort, driverVars, netVars
  <2>2. phase' \in {"open", "aborted"} /\ phase = "attach"
    BY <1>1 DEF Attach, attach_driver, Silent, Abort
  <2> QED BY <2>1, <2>2 DEF NetInv, LossCounts
<1>2. CASE Weather
  <2>1. told' = told /\ UNCHANGED <<net, master, Status, driver, phase>>
    BY <1>2 DEF Weather, World, Silent, driverVars, netVars
  <2> QED BY <2>1 DEF NetInv, LossCounts
<1>3. CASE Daemon
  <2>1. told' = told /\ UNCHANGED <<net, master, driver>> /\ phase' \notin {"attach", "open", "setup"}
    BY <1>3, DaemonSteps DEF Silent, driverVars, netVars
  <2>2. \A b \in {"onbatt", "shut_remote", "commlost"} : b \in Status' <=> b \in Status
    BY <1>3, DaemonSteps DEF DaemonBits
  <2> QED BY <2>1, <2>2 DEF NetInv, LossCounts
<1>4. CASE Net
  <2> SUFFICES ASSUME driver = "net" PROVE NetInv'
    BY <1>4, NetCalls DEF Call, Net
  <2> USE DEF NetInv
  <2>1. CASE NetOpen
    <3>1. told' = told
      BY <2>1 DEF NetOpen, OpenSucceeds, Silent
    <3> QED BY <2>1, <3>1 DEF NetOpen, OpenSucceeds, netVars, LossCounts
  <2>2. CASE NetSetup
    <3>1. PICK p \in [1..2 -> Polls] :
            Left(IF options.hibernate_ups THEN get_capabilities(Entered, p[1])
                 ELSE read_static_data(get_capabilities(Entered, p[1]), p[2]), Status)
      BY <2>2 DEF NetSetup
    <3> DEFINE c == get_capabilities(Entered, p[1])
               n == IF options.hibernate_ups THEN c ELSE read_static_data(c, p[2])
    <3>2. Counted(Entered, net)
      BY EnteredIs
    <3>3. Counted(c, net)
      BY <3>2, CapabilitiesAsk DEF Counted
    <3>4. Counted(n, net)
      <4> HIDE DEF c
      <4> QED BY <3>3, StaticAsks DEF Counted
    <3> HIDE DEF c, n
    <3>5. Left(n, Status)
      BY <3>1 DEF n, c
    <3>6. /\ Counted(net', net)
          /\ \A b \in {"onbatt", "shut_remote"} : b \in Status' <=> b \in Status
      BY <3>4, <3>5, LeftWith DEF Counted
    <3>7. told' = told
      BY <2>2 DEF NetSetup, SetupDone, Silent, Abort
    <3> QED BY <2>2, <3>6, <3>7 DEF NetSetup, LossCounts, Counted
  <2>3. CASE NetRead
    BY <2>3, NetReads
  <2>4. CASE NetCheck
    BY <2>4, NetChecks
  <2>5. CASE NetTime
    <3>1. told' = told
      BY <2>5 DEF NetTime, Silent
    <3> QED BY <2>5, <3>1 DEF NetTime, NetState, LossCounts
  <2>6. CASE NetMaster \/ NetKill \/ NetClose
    <3>1. told' = told
      BY <2>6 DEF NetMaster, NetKill, NetClose, KillDone, Silent
    <3> QED BY <2>6, <3>1 DEF NetMaster, NetKill, NetClose, KillDone, netVars, LossCounts
  <2> QED BY <1>4, <2>1, <2>2, <2>3, <2>4, <2>5, <2>6 DEF Net, NetNext
<1> QED BY <1>1, <1>2, <1>3, <1>4

---------------------------------------------------------------------------
(* The PCNET driver: _uptime is never behind the packet the status is of.  *)
PcnetInv ==
    driver \in {"none", "pcnet"} =>
        /\ stamp \in Nat /\ seen \in Nat /\ shown \in Nat /\ idle \in Nat
        /\ shown <= seen
        /\ \A p \in packets : p.stamp \in Nat /\ p.bits \subseteq ApcByte
        /\ told => "commlost" \in Status

LEMMA PcnetStart == Init => PcnetInv
  BY DEF Init, UpsInit, PcnetInit, PcnetInv

(* Waiting for data leaves a status whose other bits are the daemon's.     *)
LEMMA DataWaited ==
    ASSUME PcnetInv, driver = "pcnet", WaitForData
    PROVE  /\ seen' \in Nat /\ shown' \in Nat /\ idle' \in Nat /\ shown' <= seen'
           /\ \A b \in DaemonBits \cup {"commlost"} : b \in Status' <=> b \in Status
<1>1. CASE UNCHANGED <<seen, shown, Status, idle>>
  BY <1>1 DEF PcnetInv
<1>2. ASSUME NEW p \in packets, seen' = p.stamp, shown' = p.stamp, Status' = Processed(p), idle' = 0
      PROVE  /\ seen' \in Nat /\ shown' \in Nat /\ idle' \in Nat /\ shown' <= seen'
             /\ \A b \in DaemonBits \cup {"commlost"} : b \in Status' <=> b \in Status
  <2>1. p.stamp \in Nat /\ p.bits \subseteq ApcByte
    BY DEF PcnetInv
  <2>2. \A b \in DaemonBits \cup {"commlost"} : b \notin ApcByte \cup {"shut_remote"}
    BY DEF DaemonBits, ApcByte
  <2>3. \A b \in DaemonBits \cup {"commlost"} : b \in Status' <=> b \in Status
    BY <1>2, <2>1, <2>2 DEF Processed
  <2> QED BY <1>2, <2>1, <2>3
<1> QED BY <1>1, <1>2 DEF WaitForData

LEMMA PcnetStep ==
    ASSUME UpsInv, PcnetInv, Running, Attach \/ Weather \/ Daemon \/ Pcnet
    PROVE  PcnetInv'
<1> USE PcnetAssumption DEF UpsInv
<1>1. CASE Attach
  <2>1. told' = told /\ UNCHANGED <<pcnetVars, Status>> /\ (driver' \in {"none", "pcnet"} => driver = "none")
    BY <1>1 DEF Attach, attach_driver, Silent, Abort, driverVars
  <2> QED BY <2>1 DEF PcnetInv, pcnetVars
<1>2. CASE Weather
  <2>1. told' = told /\ UNCHANGED <<pcnetVars, Status, driver>>
    BY <1>2 DEF Weather, World, Silent, driverVars
  <2> QED BY <2>1 DEF PcnetInv, pcnetVars
<1>3. CASE Daemon
  <2>1. told' = told /\ UNCHANGED <<pcnetVars, driver>>
    BY <1>3, DaemonSteps DEF Silent, driverVars
  <2>2. "commlost" \in Status' <=> "commlost" \in Status
    BY <1>3, DaemonSteps DEF DaemonBits
  <2> QED BY <2>1, <2>2 DEF PcnetInv, pcnetVars
<1>4. CASE Pcnet
  <2> SUFFICES ASSUME driver = "pcnet" PROVE PcnetInv'
    BY <1>4, PcnetCalls DEF Call, Pcnet
  <2> USE DEF PcnetInv
  <2>1. CASE PcnetBroadcast
    <3>1. PICK keys \in Keys : packets' = packets \cup {Packet(stamp + 1, TRUE, truth, keys)}
      BY <2>1 DEF PcnetBroadcast
    <3> DEFINE q == Packet(stamp + 1, TRUE, truth, keys)
    <3>2. stamp \in Nat => q.stamp \in Nat /\ q.bits \subseteq ApcByte
      BY ByteIsApc DEF Packet
    <3>3. packets' = packets \cup {q}
      BY <3>1
    <3>4. /\ stamp' = stamp + 1 /\ told' = told
          /\ UNCHANGED <<driver, seen, shown, idle, Status>>
      BY <2>1 DEF PcnetBroadcast, Silent
    <3> HIDE DEF q
    <3> QED BY <3>2, <3>3, <3>4
  <2>2. CASE PcnetForeign
    <3>1. \A n \in 1..MaxStamp, t \in Truths : \A keys :
            Packet(n, FALSE, t, keys).stamp \in Nat /\ Packet(n, FALSE, t, keys).bits \subseteq ApcByte
      BY UpsDriverAssumption DEF Packet, ByteOf, ApcByte
    <3> QED BY <2>2, <3>1 DEF PcnetForeign, Silent
  <2>3. CASE PcnetSkips
    BY <2>3 DEF PcnetSkips, Silent, Accepts
  <2>4. CASE PcnetOpen
    <3>1. CASE Abort /\ UNCHANGED <<Status, tries, idle>>
      BY <2>4, <3>1 DEF PcnetOpen, Abort, Silent
    <3>2. CASE OpenSucceeds(Status) /\ idle' = 0
      <4>1. ~told'
        BY <3>2 DEF OpenSucceeds, Silent, SayOk
      <4> QED BY <2>4, <3>2, <4>1 DEF PcnetOpen
    <3> QED BY <2>4, <3>1, <3>2 DEF PcnetOpen
  <2>5. CASE PcnetSetup \/ PcnetCheck \/ PcnetSelfTestMsg
    <3>1. WaitForData /\ told' = told /\ UNCHANGED <<packets, stamp>>
      BY <2>5 DEF PcnetSetup, PcnetCheck, PcnetSelfTestMsg, SetupDone, Silent, Abort
    <3> QED BY <3>1, DataWaited
  <2>6. CASE PcnetRead
    <3>1. told' => "commlost" \in Status'
      BY <2>6 DEF PcnetRead, SetTo, Silent, SayFailure, SayOk
    <3> QED BY <2>6, <3>1 DEF PcnetRead, pcnetVars
  <2>7. CASE PcnetTime
    BY <2>7 DEF PcnetTime, Silent
  <2>8. CASE PcnetKill
    BY <2>8 DEF PcnetKill, KillDone, Abort, Silent
  <2>9. CASE PcnetClose
    BY <2>9 DEF PcnetClose, Silent, pcnetVars
  <2> QED BY <1>4, <2>1, <2>2, <2>3, <2>4, <2>5, <2>6, <2>7, <2>8, <2>9 DEF Pcnet, PcnetNext
<1> QED BY <1>1, <1>2, <1>3, <1>4

LEMMA StatusFromNewer ==
    ASSUME PcnetInv, Pcnet
    PROVE  shown' # shown => /\ shown' > shown
                             /\ auth => \E p \in packets : p.stamp = shown' /\ p.ours
<1>1. CASE UNCHANGED shown
  BY <1>1
<1>2. CASE driver = "pcnet" /\ WaitForData
  BY <1>2 DEF WaitForData, Accepts, PcnetInv
<1> QED BY <1>1, <1>2 DEF Pcnet, PcnetNext, PcnetBroadcast, PcnetForeign, PcnetSkips, PcnetOpen,
           PcnetSetup, PcnetRead, PcnetCheck, PcnetSelfTestMsg, PcnetTime, PcnetKill, PcnetClose, pcnetVars

---------------------------------------------------------------------------
(* The SNMP driver: no answer under way has the number of the next poll,   *)
(* because each poll drops those that would come to have it.               *)
SnmpInv ==
    driver \in {"none", "snmplite"} =>
        /\ fields = Cis /\ caps \subseteq Cis
        /\ \A r \in late : r.id # reqid
        /\ phase \in {"attach", "open", "setup"} => late = {}
        /\ phase \in {"attach", "open", "aborted"} \/ mib \in {"APC", "RFC", "MGE"}
        /\ told => "commlost" \in Status

LEMMA SnmpStart == Init => SnmpInv
  BY DEF Init, UpsInit, SnmpInit, SnmpInv, Cis

(* An answer in time leaves the bits alone that no row is for.             *)
LEMMA StatusUpdated ==
    ASSUME mib \in {"APC", "RFC", "MGE"}, NEW r
    PROVE  \A b \in DaemonBits \cup {"commlost"} : b \in StatusAfter(r) <=> b \in Status
<1>1. ASSUME NEW s, NEW ci, NEW bits, NEW b \in DaemonBits \cup {"commlost"}
      PROVE  b \in update_ci(s, ci, bits) <=> b \in s
  BY <1>1 DEF update_ci, apc_update_ci, rfc1628_update_ci, mge_update_ci, SetTo, set_online,
     clear_online, DaemonBits
<1> QED BY <1>1 DEF StatusAfter

LEMMA NoneStays ==
    ASSUME NEW l PROVE \A r \in StillComing(l) : r \in l /\ r.id # NextId
  BY DEF StillComing

LEMMA FieldsStay ==
    ASSUME fields = Cis, caps \subseteq Cis, NEW r \in Arrives
    PROVE  FieldsAfter(r) = Cis
  BY DEF Arrives, Response, FieldsAfter, Updated

LEMMA SnmpStep ==
    ASSUME UpsInv, SnmpInv, Running, Attach \/ Weather \/ Daemon \/ Snmp
    PROVE  SnmpInv'
<1> USE SnmpAssumption DEF UpsInv
<1>1. CASE Attach
  <2>1. told' = told /\ UNCHANGED <<snmpVars, Status>> /\ (driver' \in {"none", "snmplite"} => driver = "none")
    BY <1>1 DEF Attach, attach_driver, Silent, Abort, driverVars
  <2>2. phase' \in {"open", "aborted"} /\ phase = "attach"
    BY <1>1 DEF Attach, attach_driver, Abort
  <2> QED BY <2>1, <2>2 DEF SnmpInv, snmpVars
<1>2. CASE Weather
  <2>1. told' = told /\ UNCHANGED <<snmpVars, Status, driver, phase>>
    BY <1>2 DEF Weather, World, Silent, driverVars
  <2> QED BY <2>1 DEF SnmpInv, snmpVars
<1>3. CASE Daemon
  <2>1. told' = told /\ UNCHANGED <<snmpVars, driver>>
    BY <1>3, DaemonSteps DEF Silent, driverVars
  <2>2. "commlost" \in Status' <=> "commlost" \in Status
    BY <1>3, DaemonSteps DEF DaemonBits
  <2>3. phase \in {"act", "hibernate"} /\ phase' \notin {"attach", "open", "setup"}
    BY <1>3, DaemonSteps
  <2> QED BY <2>1, <2>2, <2>3 DEF SnmpInv, snmpVars
<1>4. CASE Snmp
  <2> SUFFICES ASSUME driver = "snmplite" PROVE SnmpInv'
    BY <1>4, SnmpCalls DEF Call, Snmp
  <2> USE DEF SnmpInv
  <2>1. CASE SnmpOpen
    <3>1. CASE Abort /\ UNCHANGED <<Status, tries, mib>>
      BY <2>1, <3>1 DEF SnmpOpen, Abort, Silent
    <3>2. CASE mib' \in ProbeMib /\ OpenSucceeds(Status)
      <4>1. ~told'
        BY <3>2 DEF OpenSucceeds, Silent, SayOk
      <4>2. mib' \in {"APC", "RFC", "MGE"}
        BY <3>2 DEF ProbeMib, Agents
      <4> QED BY <2>1, <3>2, <4>1, <4>2 DEF SnmpOpen, OpenSucceeds
    <3> QED BY <2>1, <3>1, <3>2 DEF SnmpOpen
  <2>2. CASE SnmpSetup
    BY <2>2 DEF SnmpSetup, SetupDone, Silent, Abort
  <2>3. CASE SnmpReadOk
    <3>1. PICK r \in Arrives :
            late' = StillComing(late \ {r}) /\ Status' = StatusAfter(r) \ {"commlost"}
            /\ fields' = FieldsAfter(r)
      BY <2>3 DEF SnmpReadOk, Matches
    <3>2. ~told'
      BY <2>3 DEF SnmpReadOk, Silent, SayOk
    <3>3. fields' = Cis
      BY <3>1, FieldsStay
    <3> QED BY <2>3, <3>1, <3>2, <3>3, NoneStays DEF SnmpReadOk
  <2>4. CASE SnmpReadFails
    <3>1. told' => "commlost" \in Status'
      BY <2>4 DEF SnmpReadFails, Silent, SayFailure
    <3> QED BY <2>4, <3>1 DEF SnmpReadFails, Reopened
  <2>5. CASE SnmpCheck \/ SnmpClose
    BY <2>5 DEF SnmpCheck, SnmpClose, snmpVars, Silent
  <2>6. CASE SnmpSelfTest
    <3>1. told' = told
      BY <2>6 DEF SnmpSelfTest, Silent
    <3>2. \A r \in late' : r.id # NextId
      BY <2>6, NoneStays DEF SnmpSelfTest, TimesOut
    <3>3. fields' = Cis /\ ("commlost" \in Status' <=> "commlost" \in Status)
      BY <2>6, FieldsStay, StatusUpdated DEF SnmpSelfTest
    <3> QED BY <2>6, <3>1, <3>2, <3>3 DEF SnmpSelfTest
  <2>7. CASE SnmpKill
    BY <2>7, NoneStays DEF SnmpKill, KillDone, Silent
  <2> QED BY <1>4, <2>1, <2>2, <2>3, <2>4, <2>5, <2>6, <2>7 DEF Snmp, SnmpNext
<1> QED BY <1>1, <1>2, <1>3, <1>4

---------------------------------------------------------------------------
(* The USB driver: from a poll that was told whether the UPS is on battery *)
(* to the next, the status says the same as one of the values last looks.   *)
(* It may not where the next call is a poll that is not skipped.           *)
UsbTypes ==
    /\ platform \in Platforms
    /\ DOMAIN usb = {"open", "caps", "last", "bpcnt", "recent", "missed", "check", "turns",
                     "said", "method", "armed"}
    /\ usb.caps \subseteq Items
    /\ "Discharging" \in usb.caps => "ACPresent" \notin usb.caps
    /\ DOMAIN usb.last = Items
    /\ usb.recent \in BOOLEAN /\ usb.missed \in BOOLEAN
    /\ usb.check \in BOOLEAN /\ usb.said \in BOOLEAN
InStep == \E i \in Telling : "onbatt" \in usb.last[i] <=> "onbatt" \in Status
UsbInv ==
    driver \in {"none", "usb"} =>
        /\ UsbTypes
        /\ phase \in {"attach", "open", "setup", "hibernate"} => usb.missed
        /\ ~usb.check /\ ~usb.missed
             => /\ phase \in {"act", "check", "kill"} => InStep
                /\ phase = "fill" /\ usb.recent /\ "onbatt" \in Status => InStep
        /\ usb.check => phase \in {"check", "aborted"} /\ "commlost" \in Status
        /\ told => /\ "commlost" \in Status
                   /\ phase \in {"open", "aborted"} \/ (usb.check /\ usb.said)

LEMMA UsbStart == Init => UsbInv
<1>1. Init => UsbTypes
  BY DEF Init, UsbInit, UsbTypes, Items
<1> QED BY <1>1 DEF Init, UpsInit, UsbInit, UsbInv

(* The values of a poll or a report are those of some items, each with no  *)
(* bits but its own.                                                       *)
Values(v) == DOMAIN v \subseteq Items /\ \A i \in DOMAIN v : v[i] \subseteq BitsOf(i)

LEMMA ValuesAre ==
    ASSUME NEW got \in SUBSET Items, NEW looks
    PROVE  Values([i \in got |-> ValueOf(i, looks[i])])
  BY DEF Values, ValueOf

LEMMA OnBattOf ==
    ASSUME NEW t \in SUBSET {"onbatt", "battlow", "replacebatt"}
    PROVE  /\ \A i \in {"STATUS", "Discharging"} : "onbatt" \in ValueOf(i, t) <=> "onbatt" \in t
           /\ ValueOf("Discharging", t) = {} <=> "onbatt" \notin t
           /\ ValueOf("ACPresent", t) = {} <=> "onbatt" \in t
<1>1. "onbatt" \in ByteOf(t) <=> "onbatt" \in t
  BY DEF ByteOf
<1>2. "online" \in ByteOf(t) <=> "onbatt" \notin t
  BY DEF ByteOf
<1>3. /\ BitsOf("STATUS") = ApcByte /\ BitsOf("Discharging") = {"onbatt"}
      /\ BitsOf("ACPresent") = {"online"}
  BY DEF BitsOf
<1>4. "onbatt" \in ApcByte
  BY DEF ApcByte
<1> QED BY <1>1, <1>2, <1>3, <1>4 DEF ValueOf

LEMMA TrackedIs ==
    ASSUME NEW v, NEW old
    PROVE  /\ DOMAIN Tracked(v, old) = Items
           /\ \A i \in Items : Tracked(v, old)[i] = IF i \in DOMAIN v THEN v[i] ELSE old[i]
  BY DEF Tracked

(* usb_process_value() leaves the bits that are not of the byte, and does  *)
(* to CI_Discharging's what each item is for.                              *)
Kept == DaemonBits \cup {"commlost"}
LEMMA WithIs ==
    ASSUME NEW s, NEW v, Values(v), NEW ci \in Items
    PROVE  /\ \A b \in Kept : b \in With(s, ci, v) <=> b \in s
           /\ ci \notin DOMAIN v => With(s, ci, v) = s
           /\ ci = "STATUS" /\ ci \in DOMAIN v
                => ("onbatt" \in With(s, ci, v) <=> "onbatt" \in v[ci])
           /\ ci = "BelowRemCapLimit" => ("onbatt" \in With(s, ci, v) <=> "onbatt" \in s)
           /\ ci = "Discharging" /\ ci \in DOMAIN v
                => ("onbatt" \in With(s, ci, v) <=> v[ci] # {})
           /\ ci = "ACPresent" /\ ci \in DOMAIN v
                => ("onbatt" \in With(s, ci, v) <=> "onbatt" \in s /\ v[ci] = {})
<1>1. CASE ci \notin DOMAIN v
  BY <1>1 DEF With
<1>2. CASE ci \in DOMAIN v
  <2> DEFINE x == v[ci]
  <2>1. With(s, ci, v) = usb_process_value(s, ci, x) /\ x \subseteq BitsOf(ci)
    BY <1>2 DEF With, Values
  <2>2. \A b \in Kept : b \notin ApcByte /\ b \notin {"onbatt", "online"}
    BY DEF Kept, DaemonBits, ApcByte
  <2> HIDE DEF x
  <2>3. CASE ci = "STATUS"
    <3>1. With(s, ci, v) = (s \ ApcByte) \cup x /\ x \subseteq ApcByte
      BY <2>1, <2>3 DEF usb_process_value, BitsOf
    <3>2. "onbatt" \in ApcByte
      BY DEF ApcByte
    <3> QED BY <1>2, <2>2, <2>3, <3>1, <3>2 DEF x
  <2>4. CASE ci = "BelowRemCapLimit"
    <3>1. With(s, ci, v) = s \cup x /\ x \subseteq {"battlow"}
      BY <2>1, <2>4 DEF usb_process_value, BitsOf
    <3>2. "battlow" \notin Kept
      BY DEF Kept, DaemonBits
    <3> QED BY <1>2, <2>4, <3>1, <3>2
  <2>5. CASE ci = "Discharging"
    <3>1. With(s, ci, v) = IF x # {} THEN clear_online(s) ELSE set_online(s)
      BY <2>1, <2>5 DEF usb_process_value
    <3> QED BY <1>2, <2>2, <2>5, <3>1 DEF x, clear_online, set_online
  <2>6. CASE ci = "ACPresent"
    <3>1. With(s, ci, v) = IF x # {} THEN set_online(s) ELSE s
      BY <2>1, <2>6 DEF usb_process_value
    <3> QED BY <1>2, <2>2, <2>6, <3>1 DEF x, set_online
  <2> QED BY <2>3, <2>4, <2>5, <2>6 DEF Items
<1> QED BY <1>1, <1>2

(* The three items that are processed in the same order by both.           *)
LEMMA WithPartsIs ==
    ASSUME NEW s, NEW v, Values(v)
    PROVE  /\ \A b \in Kept : b \in WithParts(s, v) <=> b \in s
           /\ "onbatt" \in WithParts(s, v)
                <=> /\ IF "Discharging" \in DOMAIN v THEN v["Discharging"] # {} ELSE "onbatt" \in s
                    /\ "ACPresent" \in DOMAIN v => v["ACPresent"] = {}
<1> DEFINE low  == With(s, "BelowRemCapLimit", v)
           disc == With(low, "Discharging", v)
           all  == With(disc, "ACPresent", v)
<1>1. WithParts(s, v) = all
  BY DEF WithParts
<1>2. /\ \A b \in Kept : b \in low <=> b \in s
      /\ "onbatt" \in low <=> "onbatt" \in s
  BY WithIs DEF Items
<1> HIDE DEF low
<1>3. /\ \A b \in Kept : b \in disc <=> b \in low
      /\ "onbatt" \in disc <=> IF "Discharging" \in DOMAIN v THEN v["Discharging"] # {}
                               ELSE "onbatt" \in low
  BY WithIs DEF Items
<1> HIDE DEF disc
<1>4. /\ \A b \in Kept : b \in all <=> b \in disc
      /\ "onbatt" \in all <=> "onbatt" \in disc /\ ("ACPresent" \in DOMAIN v => v["ACPresent"] = {})
  BY WithIs DEF Items
<1> HIDE DEF all
<1> QED BY <1>1, <1>2, <1>3, <1>4

(* A poll: what was read last counts.                                      *)
LEMMA UsbPolledIs ==
    ASSUME NEW s, NEW v, Values(v)
    PROVE  /\ \A b \in Kept : b \in Polled(s, v) <=> b \in s
           /\ "STATUS" \in DOMAIN v
                => ("onbatt" \in Polled(s, v) <=> "onbatt" \in v["STATUS"])
           /\ {"STATUS", "ACPresent"} \cap DOMAIN v = {} /\ "Discharging" \in DOMAIN v
                => ("onbatt" \in Polled(s, v) <=> v["Discharging"] # {})
<1> DEFINE parts == WithParts(s, v)
           all   == With(parts, "STATUS", v)
<1>1. Polled(s, v) = all
  BY DEF Polled
<1>2. /\ \A b \in Kept : b \in parts <=> b \in s
      /\ "ACPresent" \notin DOMAIN v /\ "Discharging" \in DOMAIN v
           => ("onbatt" \in parts <=> v["Discharging"] # {})
  BY WithPartsIs
<1> HIDE DEF parts
<1>3. /\ \A b \in Kept : b \in all <=> b \in parts
      /\ "STATUS" \in DOMAIN v => ("onbatt" \in all <=> "onbatt" \in v["STATUS"])
      /\ "STATUS" \notin DOMAIN v => all = parts
  BY WithIs DEF Items
<1> HIDE DEF all
<1> QED BY <1>1, <1>2, <1>3

(* A report: all its values are of one moment.                             *)
LEMMA ReportedIs ==
    ASSUME NEW s, NEW cis \in SUBSET Items, NEW t \in SUBSET {"onbatt", "battlow", "replacebatt"}, NEW v,
           v = [i \in cis |-> ValueOf(i, t)]
    PROVE  /\ \A b \in Kept : b \in Reported(s, v) <=> b \in s
           /\ cis \cap {"Discharging", "STATUS"} # {}
                => ("onbatt" \in Reported(s, v) <=> "onbatt" \in t)
           /\ cis \cap {"Discharging", "STATUS"} = {} /\ "onbatt" \in Reported(s, v) => "onbatt" \in s
           /\ "ACPresent" \notin cis /\ cis \cap {"Discharging", "STATUS"} = {} /\ "onbatt" \in s
                => "onbatt" \in Reported(s, v)
           /\ cis = {"STATUS"} => cis \cap {"Discharging", "STATUS"} # {}
<1> DEFINE first == With(s, "STATUS", v)
           all   == WithParts(first, v)
<1>1. Values(v) /\ DOMAIN v = cis /\ \A i \in cis : v[i] = ValueOf(i, t)
  BY DEF Values, ValueOf
<1>2. Reported(s, v) = all
  BY DEF Reported
<1>3. /\ \A b \in Kept : b \in first <=> b \in s
      /\ "STATUS" \in cis => ("onbatt" \in first <=> "onbatt" \in v["STATUS"])
      /\ "STATUS" \notin cis => first = s
  BY <1>1, WithIs DEF Items
<1> HIDE DEF first
<1>4. /\ \A b \in Kept : b \in all <=> b \in first
      /\ "onbatt" \in all
           <=> /\ IF "Discharging" \in cis THEN v["Discharging"] # {} ELSE "onbatt" \in first
               /\ "ACPresent" \in cis => v["ACPresent"] = {}
  BY <1>1, WithPartsIs
<1>5. /\ "STATUS" \in cis => ("onbatt" \in v["STATUS"] <=> "onbatt" \in t)
      /\ "Discharging" \in cis => (v["Discharging"] # {} <=> "onbatt" \in t)
      /\ "ACPresent" \in cis => (v["ACPresent"] = {} <=> "onbatt" \in t)
  BY <1>1, OnBattOf
<1> HIDE DEF all
<1> QED BY <1>2, <1>3, <1>4, <1>5

LEMMA EventsAre ==
    ASSUME UsbTypes, NEW cis \in Events
    PROVE  cis \in SUBSET Items /\ cis \subseteq usb.caps
<1>1. cis \in linux_events \/ cis \in bsd_events
  BY UsbAssumption DEF UsbTypes, Events, generic_events
<1>2. cis \subseteq News
  BY <1>1 DEF linux_events, bsd_events
<1> QED BY <1>2 DEF News, UsbTypes

LEMMA FoundIs ==
    ASSUME UsbTypes, NEW f \in Found
    PROVE  /\ f.caps \subseteq Items /\ DOMAIN f.last = Items
           /\ "Discharging" \in f.caps => "ACPresent" \notin f.caps
<1>1. \A c \in Offers : /\ Used(c) \subseteq Items
                        /\ "Discharging" \in Used(c) => "ACPresent" \notin Used(c)
  BY UsbAssumption DEF Used
<1>2. CASE f \in linux_capabilities \/ f \in bsd_capabilities
  BY <1>1, <1>2 DEF linux_capabilities, bsd_capabilities
<1>3. CASE f = [caps |-> {}, last |-> usb.last]
  BY <1>3 DEF UsbTypes
<1> QED BY <1>2, <1>3, UsbAssumption DEF UsbTypes, Found, generic_capabilities

(* A poll that is not skipped, and a report, are of such values.           *)
LEMMA PollTaken ==
    ASSUME UsbRead, ~Throttled, usb.caps \subseteq Items
    PROVE  \E v, there : Values(v) /\ DOMAIN v \subseteq usb.caps /\ TakePoll(v, there)
<1>1. PICK got \in SUBSET (IF link = "up" THEN usb.caps ELSE {}), there \in BOOLEAN :
        \E looks \in [got -> Truths] : TakePoll([i \in got |-> ValueOf(i, looks[i])], there)
  BY DEF UsbRead
<1>2. PICK looks \in [got -> Truths] : TakePoll([i \in got |-> ValueOf(i, looks[i])], there)
  BY <1>1
<1> DEFINE v == [i \in got |-> ValueOf(i, looks[i])]
<1>3. DOMAIN v = got /\ got \subseteq usb.caps /\ Values(v)
  BY ValuesAre
<1>4. TakePoll(v, there)
  BY <1>2
<1> HIDE DEF v
<1> QED BY <1>3, <1>4

LEMMA ReportTaken ==
    ASSUME UsbReport
    PROVE  \E cis \in Events : \E v, t, s :
               /\ v = [i \in cis |-> ValueOf(i, t)] /\ t = truth
               /\ s = Status /\ TakeReport(v)
  BY DEF UsbReport

LEMMA UsbStep ==
    ASSUME UsbInv, UpsInv, Running, Attach \/ Weather \/ Daemon \/ Usb
    PROVE  UsbInv'
<1> USE DEF UpsInv, UsbTypes, InStep, Telling
<1>1. CASE Attach
  <2>1. told' = told /\ UNCHANGED <<usbVars, Status>> /\ (driver' \in {"none", "usb"} => driver = "none")
    BY <1>1 DEF Attach, attach_driver, Silent, Abort, driverVars
  <2>2. phase' \in {"open", "aborted"} /\ phase = "attach"
    BY <1>1 DEF Attach, attach_driver, Abort
  <2> QED BY <2>1, <2>2 DEF UsbInv, usbVars
<1>2. CASE Weather
  <2>1. told' = told /\ UNCHANGED <<usbVars, Status, driver, phase>>
    BY <1>2 DEF Weather, World, Silent, driverVars
  <2> QED BY <2>1 DEF UsbInv, usbVars
<1>3. CASE Daemon
  <2>1. told' = told /\ UNCHANGED <<usbVars, driver>>
    BY <1>3, DaemonSteps DEF Silent, driverVars
  <2>2. /\ "commlost" \in Status' <=> "commlost" \in Status
        /\ "onbatt" \in Status' <=> "onbatt" \in Status
    BY <1>3, DaemonSteps DEF DaemonBits
  <2>3. \/ phase = "act" /\ phase' \in {"check", "kill", "aborted", "close"}
        \/ phase = "hibernate" /\ phase' \in {"kill", "aborted"}
    BY <1>3, DaemonSteps
  <2> QED BY <2>1, <2>2, <2>3 DEF UsbInv, usbVars
<1>4. CASE Usb
  <2> SUFFICES ASSUME driver = "usb" PROVE UsbInv'
    BY <1>4, UsbCalls DEF Call, Usb
  <2> USE DEF UsbInv
  <2>1. CASE UsbOpen
    <3>1. CASE OpenFails /\ UNCHANGED usb
      <4>1. told' => "commlost" \in Status'
        BY <2>1, <3>1 DEF OpenFails, Abort, Silent
      <4> QED BY <2>1, <3>1, <4>1 DEF UsbOpen, OpenFails, Abort
    <3>2. CASE OpenSucceeds(Status \ {"slave"}) /\ usb' = [usb EXCEPT !.open = TRUE]
      <4>1. ~told'
        BY <3>2 DEF OpenSucceeds, Silent, SayOk
      <4> QED BY <2>1, <3>2, <4>1 DEF UsbOpen, OpenSucceeds
    <3> QED BY <2>1, <3>1, <3>2 DEF UsbOpen
  <2>2. CASE UsbSetup
    <3>1. told' = told
      BY <2>2 DEF UsbSetup, SetupDone, Abort, Silent
    <3>2. CASE UNCHANGED usb /\ Abort
      BY <2>2, <3>1, <3>2 DEF UsbSetup, Abort
    <3>3. ASSUME NEW f \in Found, usb' = [usb EXCEPT !.caps = f.caps, !.last = f.last], SetupDone(f.caps # {})
          PROVE  UsbInv'
      <4>1. phase' \in {"fill", "hibernate", "aborted"}
        BY <3>3 DEF SetupDone, Abort
      <4> QED BY <2>2, <3>1, <3>3, <4>1, FoundIs DEF UsbSetup
    <3> QED BY <2>2, <3>2, <3>3 DEF UsbSetup
  <2>3. CASE UsbRead
    <3>1. told' = told
      BY <2>3 DEF UsbRead, Silent
    <3>2. CASE Throttled /\ UNCHANGED <<Status, usb>>
      BY <2>3, <3>1, <3>2 DEF UsbRead, Throttled
    <3>3. CASE ~Throttled
      <4>a. PICK v, there : Values(v) /\ DOMAIN v \subseteq usb.caps /\ TakePoll(v, there)
        BY <2>3, <3>3, PollTaken
      <4> DEFINE got == DOMAIN v
                 n   == IF link = "down" THEN usb.bpcnt ELSE IF there THEN 1 ELSE 0
                 mid == Status \ ApcByte
      <4>b. /\ mid = Status \ ApcByte /\ got = DOMAIN v
            /\ Status' = IF link = "up" THEN BatteryPresent(Polled(mid, v), there) ELSE Polled(mid, v)
            /\ usb' = [usb EXCEPT !.last = Tracked(v, @), !.recent = TRUE,
                                  !.missed = Telling \cap got = {}, !.bpcnt = n]
        BY <4>a DEF TakePoll
      <4> HIDE DEF got, n, mid
      <4> DEFINE last   == Tracked(v, usb.last)
                 missed == Telling \cap got = {}
                 s      == Polled(mid, v)
      <4>1. got \in SUBSET Items /\ got \subseteq usb.caps
        BY <4>a, <4>b
      <4>2. Values(v) /\ DOMAIN v = got
        BY <4>a, <4>b
      <4>3. /\ "commlost" \in s <=> "commlost" \in Status
            /\ "STATUS" \in got => ("onbatt" \in s <=> "onbatt" \in v["STATUS"])
            /\ "STATUS" \notin got /\ "Discharging" \in got
                 => ("onbatt" \in s <=> v["Discharging"] # {})
        <5>1. "commlost" \notin ApcByte /\ "commlost" \in Kept
          BY DEF ApcByte, Kept
        <5>2. "Discharging" \in got => "ACPresent" \notin got
          BY <4>1
        <5>3. /\ \A b \in Kept : b \in s <=> b \in mid
              /\ "STATUS" \in got => ("onbatt" \in s <=> "onbatt" \in v["STATUS"])
              /\ {"STATUS", "ACPresent"} \cap got = {} /\ "Discharging" \in got
                   => ("onbatt" \in s <=> v["Discharging"] # {})
          BY <4>2, UsbPolledIs
        <5> HIDE DEF s
        <5> QED BY <4>b, <5>1, <5>2, <5>3
      <4>4. /\ "commlost" \in Status' <=> "commlost" \in s
            /\ "onbatt" \in Status' <=> "onbatt" \in s
        BY <4>b DEF BatteryPresent
      <4>5. /\ DOMAIN last = Items
            /\ \A i \in Telling \cap got : last[i] = v[i]
        BY <4>1, <4>2, TrackedIs
      <4>6. "Discharging" \in got => (v["Discharging"] # {} <=> "onbatt" \in v["Discharging"])
        <5>1. BitsOf("Discharging") = {"onbatt"}
          BY DEF BitsOf
        <5> QED BY <4>2, <5>1 DEF Values
      <4>7. missed \in BOOLEAN
        OBVIOUS
      <4>8. usb' = [usb EXCEPT !.last = last, !.recent = TRUE, !.missed = missed, !.bpcnt = n]
        BY <4>b
      <4> HIDE DEF last, missed, s
      <4>9. /\ usb'.last = last /\ usb'.missed = missed /\ Telling' = Telling
            /\ usb'.caps = usb.caps /\ usb'.check = usb.check /\ usb'.said = usb.said
        BY <4>8 DEF Telling
      <4>10. ~missed => InStep'
        <5>1. CASE "STATUS" \in Telling \cap got
          BY <4>3, <4>4, <4>5, <4>9, <5>1
        <5>2. CASE "STATUS" \notin Telling \cap got /\ ~missed
          <6>1. "Discharging" \in Telling \cap got /\ "STATUS" \notin got
            BY <4>1, <5>2 DEF missed, Telling
          <6> QED BY <4>3, <4>4, <4>5, <4>6, <4>9, <6>1
        <5> QED BY <5>1, <5>2
      <4>11. UsbTypes'
        <5>1. platform' = platform
          BY <2>3 DEF UsbRead
        <5> QED BY <4>5, <4>7, <4>8, <5>1
      <4>12. UNCHANGED driver /\ phase = "fill" /\ phase' = "act"
        BY <2>3 DEF UsbRead
      <4> HIDE DEF InStep, UsbTypes
      <4> QED BY <3>1, <4>3, <4>4, <4>9, <4>10, <4>11, <4>12
    <3> QED BY <2>3, <3>2, <3>3 DEF UsbRead
  <2>4. CASE UsbReport
    <3>a. PICK cis \in Events : \E v, t, s :
            v = [i \in cis |-> ValueOf(i, t)] /\ t = truth /\ s = Status /\ TakeReport(v)
      BY <2>4, ReportTaken
    <3>b. PICK v, t, s : /\ v = [i \in cis |-> ValueOf(i, t)] /\ t = truth
                         /\ s = Status /\ TakeReport(v)
      BY <3>a
    <3>1. /\ v = [i \in cis |-> ValueOf(i, t)] /\ s = Status /\ t = truth
          /\ Status' = Reported(s, v)
          /\ usb' = [usb EXCEPT !.last = Tracked(v, @)]
          /\ phase' = IF cis = {"STATUS"} THEN "check" ELSE "fill"
      BY <3>b DEF TakeReport
    <3> DEFINE last  == Tracked(v, usb.last)
               tells == cis \cap {"Discharging", "STATUS"} # {}
    <3>2. cis \in SUBSET Items /\ cis \subseteq usb.caps
      BY EventsAre
    <3>3. t \in SUBSET {"onbatt", "battlow", "replacebatt"}
      BY <3>1
    <3>4. /\ "commlost" \in Status' <=> "commlost" \in Status
          /\ tells => ("onbatt" \in Status' <=> "onbatt" \in truth)
          /\ ~tells /\ "onbatt" \in Status' => "onbatt" \in Status
          /\ ~tells /\ cis = {"STATUS"} => FALSE
      <4>1. "commlost" \in Kept
        BY DEF Kept
      <4>2. /\ \A b \in Kept : b \in Reported(s, v) <=> b \in s
            /\ tells => ("onbatt" \in Reported(s, v) <=> "onbatt" \in t)
            /\ ~tells /\ "onbatt" \in Reported(s, v) => "onbatt" \in s
        <5>1. v = [i \in cis |-> ValueOf(i, t)] /\ cis \in SUBSET Items
          BY <3>1, <3>2
        <5> HIDE DEF UsbInv, UpsInv, UsbTypes, InStep, Telling
        <5> QED BY <3>3, <5>1, ReportedIs
      <4>3. /\ Status' = Reported(s, v) /\ s = Status /\ t = truth
        BY <3>1
      <4>4. cis = {"STATUS"} => tells
        OBVIOUS
      <4> HIDE DEF tells
      <4> QED BY <4>1, <4>2, <4>3, <4>4
    <3>5. /\ DOMAIN last = Items
          /\ \A i \in cis : last[i] = ValueOf(i, truth)
          /\ ~tells => \A i \in Telling : last[i] = usb.last[i]
      <4>1. DOMAIN v = cis /\ \A i \in cis : v[i] = ValueOf(i, truth)
        BY <3>1
      <4>2. Telling \subseteq Items /\ (~tells => Telling \cap cis = {})
        BY DEF Telling
      <4> HIDE DEF tells
      <4> QED BY <3>2, <4>1, <4>2, TrackedIs
    <3>6. usb' = [usb EXCEPT !.last = last] /\ (phase' = "check" \/ phase' = "fill")
          /\ (phase' = "check" => cis = {"STATUS"})
      BY <3>1
    <3>7. told' = told /\ UNCHANGED <<driver, platform>> /\ phase = "check" /\ ~usb.check
      BY <2>4 DEF UsbReport, Silent
    <3>8. tells => \E i \in cis : i \in Telling /\ i \in {"STATUS", "Discharging"}
      BY <3>2 DEF Telling
    <3> HIDE DEF last, tells
    <3>9. usb'.last = last /\ usb'.missed = usb.missed /\ Telling' = Telling /\ usb'.check = usb.check
      BY <3>6 DEF Telling
    <3>10. tells => InStep'
      BY <3>1, <3>3, <3>4, <3>5, <3>8, <3>9, OnBattOf
    <3>11. ~tells /\ "onbatt" \in Status' /\ InStep => InStep'
      BY <3>4, <3>5, <3>9
    <3>12. UsbTypes'
      BY <3>5, <3>6, <3>7
    <3> HIDE DEF InStep, UsbTypes
    <3> QED BY <3>4, <3>6, <3>7, <3>9, <3>10, <3>11, <3>12
  <2>5. CASE UsbTimeout
    BY <2>5 DEF UsbTimeout, Silent
  <2>6. CASE UsbLost
    BY <2>6 DEF UsbLost, Silent
  <2>7. CASE UsbLostSay
    BY <2>7 DEF UsbLostSay, SayFailure
  <2>8. CASE UsbRelink
    <3>1. usb.check /\ UNCHANGED <<driver, platform>>
      BY <2>8 DEF UsbRelink
    <3>2. ASSUME NEW f \in Found, SayOk, phase' = "fill",
                 usb' = [usb EXCEPT !.check = FALSE, !.open = TRUE, !.caps = f.caps,
                                    !.last = f.last, !.recent = Slept(@), !.turns = 0,
                                    !.said = FALSE]
          PROVE  UsbInv'
      BY <3>1, <3>2, FoundIs DEF SayOk, Slept
    <3>3. ASSUME NEW n, UNCHANGED <<Status, phase>>, Silent,
                 usb' = [usb EXCEPT !.open = FALSE, !.caps = {}, !.recent = Slept(@), !.turns = n]
          PROVE  UsbInv'
      BY <3>1, <3>3 DEF Silent, Slept
    <3>4. CASE Abort /\ UNCHANGED <<Status, usb>>
      BY <3>1, <3>4 DEF Abort, Silent
    <3> QED BY <2>8, <3>2, <3>3, <3>4 DEF UsbRelink
  <2>9. CASE UsbKill
    <3>1. told' = told /\ UNCHANGED <<driver, platform, Status>> /\ phase = "kill"
          /\ phase' \in {"kill", "close", "check"}
      BY <2>9 DEF UsbKill, KillDone, Silent
    <3>2. PICK a, m : usb' = [usb EXCEPT !.armed = a, !.method = m]
      <4>1. CASE \E done : usb' = [usb EXCEPT !.armed = @ \cup done, !.method = @ + 1]
        BY <4>1
      <4>2. CASE usb' = [usb EXCEPT !.method = 1, !.armed = {}]
        <5>1. usb' = [usb EXCEPT !.armed = {}, !.method = 1]
          BY <4>2
        <5> QED BY <5>1
      <4> QED BY <2>9, <4>1, <4>2 DEF UsbKill
    <3> QED BY <3>1, <3>2
  <2>10. CASE UsbClose
    BY <2>10 DEF UsbClose, Silent, usbVars
  <2> QED BY <1>4, <2>1, <2>2, <2>3, <2>4, <2>5, <2>6, <2>7, <2>8, <2>9, <2>10 DEF Usb, UsbNext
<1> QED BY <1>1, <1>2, <1>3, <1>4

---------------------------------------------------------------------------
(* The smart driver: which calls run in which phase, who has the lock, and *)
(* where the connection counts as lost: in open_ups() and in the loop of   *)
(* UPSlinkCheck(), which read_volatile_data() enters with the lock.        *)
Questions == {"Q", "B", "Y", "S", "G"}
Messages == [kind : {"line", "alert"}, q : Questions \cup {"none", "empty", "rest", "cut", "blank"},
             bits : SUBSET ApcByte]
SmartTypes ==
    /\ wire \in Seq(Messages)
    /\ DOMAIN smart = {"fd", "call", "todo", "retry", "again", "silent", "check", "waited",
                       "locked", "caps"}
    /\ smart.call \in {"none", "caps", "static", "volatile", "selftest"}
    /\ smart.todo \in Seq(Questions)
    /\ smart.check \in {"no", "first", "loop"}
    /\ smart.locked \in BOOLEAN
Calls(p) ==
    CASE p = "setup" -> {"caps", "static"}
      [] p = "fill"  -> {"volatile"}
      [] p = "act"   -> {"selftest"}
      [] OTHER       -> {}
CallRuns ==
    /\ phase = "aborted" \/ smart.call \in {"none"} \cup Calls(phase)
    /\ smart.call = "none" => smart.check = "no" /\ smart.todo = <<>>
    /\ smart.check # "no" => smart.todo # <<>>
    /\ smart.call = "volatile" => smart.locked \/ smart.check = "loop"
SmartInv ==
    driver \in {"none", "apcsmart"} =>
        /\ SmartTypes /\ CallRuns
        /\ "commlost" \in Status => phase \in {"open", "aborted"} \/ smart.check = "loop"
        /\ told => "commlost" \in Status

LEMMA SmartStart == Init => SmartInv
<1>1. Init => SmartTypes
  BY DEF Init, SmartInit, SmartTypes
<1> QED BY <1>1 DEF Init, UpsInit, SmartInit, SmartInv, CallRuns, Calls

LEMMA LineIs ==
    ASSUME UpsInv, NEW q \in Questions PROVE Line(q) \in Messages
  BY ByteIsApc DEF Line, Messages, Questions

LEMMA SentIs ==
    ASSUME UpsInv, NEW w \in Seq(Messages), NEW q \in Questions, NEW x \in Sent(w, q)
    PROVE  x \in Seq(Messages)
  BY LineIs DEF Sent

LEMMA RestIs ==
    ASSUME NEW w \in Seq(Messages), NEW k \in 1..(Len(w) + 1)
    PROVE  SubSeq(w, k, Len(w)) \in Seq(Messages)
<1>1. k \in Int /\ Len(w) \in Int /\ \A i \in k..Len(w) : w[i] \in Messages
  OBVIOUS
<1> QED BY <1>1, SubSeqProperties

LEMMA FlushedIs ==
    ASSUME NEW w \in Seq(Messages), NEW x \in Flushed(w)
    PROVE  x \in Seq(Messages)
  BY RestIs DEF Flushed

(* An answer is a line, or what a part of one is taken for.                *)
LEMMA PartsAre ==
    ASSUME NEW l \in Messages, l.kind = "line", NEW a \in Whole(l) \cup CutTo(l)
    PROVE  /\ a \in Messages /\ a.kind = "line"
           /\ a.q # "rest" /\ (a = l \/ a.q \in {"cut", "blank", "Y"})
           /\ a.q = "Y" => l.q # "rest"
<1>1. /\ \A b \in Garbled : Cut(b) \in Messages /\ Cut(b).kind = "line" /\ Cut(b).q = "cut"
      /\ Blank \in Messages /\ Blank.kind = "line" /\ Blank.q = "blank"
  BY SmartAssumption DEF Cut, Blank, Messages
<1>2. Line("Y") \in Messages /\ Line("Y").kind = "line" /\ Line("Y").q = "Y"
  BY DEF Line, Messages, Questions
<1>4. a = l \/ a = Blank \/ a = Line("Y") \/ \E b \in Garbled : a = Cut(b)
  BY DEF Whole, CutTo
<1>5. l.q = "rest" => a = Blank \/ \E b \in Garbled : a = Cut(b)
  BY DEF Whole, CutTo
<1> QED BY <1>1, <1>2, <1>4, <1>5

LEMMA Readings ==
    ASSUME NEW w, NEW r \in Reads(w)
    PROVE  \/ r = [ans |-> NoLine, rest |-> w]
           \/ /\ w # <<>> /\ Head(w).kind = "line"
              /\ \E a \in Whole(Head(w)) \cup CutTo(Head(w)), x \in {Tail(w), <<Rest>> \o Tail(w)} :
                    r.ans = a /\ r.rest = x
<1> DEFINE l == Head(w)
           short == <<Rest>> \o Tail(w)
<1>1. CASE w # <<>> /\ l.kind = "line" /\ \E a \in Whole(l) : r = [ans |-> a, rest |-> Tail(w)]
  BY <1>1
<1>2. CASE w # <<>> /\ l.kind = "line" /\ \E a \in CutTo(l) : r = [ans |-> a, rest |-> short]
  <2> HIDE DEF l, short
  <2>1. PICK a \in CutTo(l) : r = [ans |-> a, rest |-> short]
    BY <1>2
  <2>2. r.ans = a /\ r.rest = short
    BY <2>1
  <2> QED BY <1>2, <2>2 DEF l, short
<1>3. CASE ~(w # <<>> /\ l.kind = "line")
  <2>1. Reads(w) = {[ans |-> NoLine, rest |-> w]} \cup {}
    BY <1>3 DEF Reads
  <2> QED BY <2>1
<1>4. CASE w # <<>> /\ l.kind = "line"
  <2>1. Reads(w) = {[ans |-> NoLine, rest |-> w]}
                   \cup ({[ans |-> a, rest |-> Tail(w)] : a \in Whole(l)}
                         \cup {[ans |-> a, rest |-> short] : a \in CutTo(l)})
    BY <1>4 DEF Reads
  <2> HIDE DEF l, short
  <2>2. \/ r = [ans |-> NoLine, rest |-> w]
        \/ \E a \in Whole(l) : r = [ans |-> a, rest |-> Tail(w)]
        \/ \E a \in CutTo(l) : r = [ans |-> a, rest |-> short]
    BY <2>1
  <2> QED BY <1>1, <1>2, <1>4, <2>2
<1> QED BY <1>3, <1>4

LEMMA ReadsIs ==
    ASSUME NEW w \in Seq(Messages), NEW r \in Reads(w)
    PROVE  r.ans \in Messages /\ r.rest \in Seq(Messages)
<1>1. NoLine \in Messages
  BY DEF NoLine, Messages
<1>2. CASE r = [ans |-> NoLine, rest |-> w]
  BY <1>1, <1>2
<1>3. ASSUME w # <<>>, Head(w).kind = "line", NEW a \in Whole(Head(w)) \cup CutTo(Head(w)),
             NEW z \in {Tail(w), <<Rest>> \o Tail(w)}, r.ans = a /\ r.rest = z
      PROVE  r.ans \in Messages /\ r.rest \in Seq(Messages)
  <2>1. Head(w) \in Messages /\ Tail(w) \in Seq(Messages)
    BY <1>3
  <2>2. a \in Messages
    BY <1>3, <2>1, PartsAre
  <2> DEFINE m == Rest
             x == Tail(w)
  <2>3. m \in Messages
    BY DEF Rest, Messages
  <2>4. <<m>> \o x \in Seq(Messages)
    <3> HIDE DEF m, x
    <3> QED BY <2>1, <2>3 DEF x
  <2>5. z = x \/ z = <<m>> \o x
    BY <1>3
  <2> HIDE DEF m, x
  <2>6. z \in Seq(Messages)
    BY <2>1, <2>4, <2>5 DEF x
  <2> QED BY <1>3, <2>2, <2>6
<1> QED BY <1>2, <1>3, Readings

(* Where no bit of the byte of the UPS is changed.                         *)
Others == DaemonBits \cup {"commlost"}

LEMMA AlertedIs ==
    ASSUME NEW s, NEW t, NEW b \in Others
    PROVE  b \in Alerted(s, t) <=> b \in s
  BY DEF Alerted, SetTo, set_online, clear_online, Others, DaemonBits

LEMMA AnsweredIs ==
    ASSUME SmartTypes, smart.todo # <<>>, NEW s, NEW q \in Questions, NEW a \in Messages,
           Answered(s, q, a)
    PROVE  /\ DOMAIN smart' = DOMAIN smart /\ smart'.call = smart.call
           /\ smart'.todo \in Seq(Questions) /\ smart'.check = "no"
           /\ smart'.locked = (smart.call # "static")
           /\ \A b \in Others : b \in Status' <=> b \in s
<1>1. /\ DOMAIN smart' = DOMAIN smart /\ smart'.call = smart.call
      /\ smart'.todo = Tail(smart.todo) /\ smart'.check = "no"
      /\ smart'.locked = TakesLock(smart.call)
  BY DEF Answered, SmartTypes
<1>2. a.bits \subseteq ApcByte /\ \A b \in Others : b \notin ApcByte
  BY DEF Messages, Others, DaemonBits, ApcByte
<1>3. \A b \in Others : b \in Status' <=> b \in s
  BY <1>2 DEF Answered, Stored, StatusByte
<1> QED BY <1>1, <1>3 DEF TakesLock, SmartTypes

LEMMA CheckReturnsIs ==
    ASSUME SmartTypes, smart.todo # <<>>, CheckReturns
    PROVE  /\ DOMAIN smart' = DOMAIN smart /\ smart'.call = smart.call
           /\ smart'.todo \in Seq(Questions) /\ smart'.check = "no"
           /\ smart'.locked \in BOOLEAN
           /\ smart.call = "volatile" /\ (smart.locked \/ smart.check = "loop") => smart'.locked
           /\ \A b \in Others : b \in Status' <=> b \in Status \ {"commlost"}
<1>1. CASE Answered(Status \ {"commlost"}, Head(smart.todo), NoLine)
  <2>1. NoLine \in Messages /\ Head(smart.todo) \in Questions
    BY DEF NoLine, Messages, SmartTypes
  <2> QED BY <1>1, <2>1, AnsweredIs
<1>2. CASE ~Answered(Status \ {"commlost"}, Head(smart.todo), NoLine)
  <2> DEFINE retry == IF smart.silent THEN smart.retry - 1 ELSE smart.retry
             locked == smart.locked \/ smart.check = "loop"
  <2>1. /\ smart' = [smart EXCEPT !.check = "no", !.silent = FALSE, !.waited = 0,
                                  !.retry = retry, !.locked = locked]
        /\ Status' = Status \ {"commlost"}
    BY <1>2 DEF CheckReturns
  <2>2. locked \in BOOLEAN
    OBVIOUS
  <2>3. DOMAIN smart' = DOMAIN smart /\ smart'.call = smart.call /\ smart'.todo = smart.todo
        /\ smart'.check = "no" /\ smart'.locked = locked
    <3> HIDE DEF retry, locked
    <3> QED BY <2>1 DEF SmartTypes
  <2> QED BY <2>1, <2>2, <2>3 DEF SmartTypes
<1> QED BY <1>1, <1>2

LEMMA BeginIs ==
    ASSUME SmartTypes, NEW call, NEW todo, NEW check, Begin(call, todo, check)
    PROVE  /\ DOMAIN smart' = DOMAIN smart
           /\ smart'.call = call /\ smart'.todo = todo /\ smart'.check = check
           /\ smart'.locked = (call # "static")
<1> DEFINE locked == call # "static"
<1>1. smart' = [smart EXCEPT !.call = call, !.todo = todo, !.check = check,
                            !.retry = PollRetries, !.again = StatusRetries,
                            !.silent = FALSE, !.waited = 0, !.locked = locked]
  BY DEF Begin, TakesLock
<1> HIDE DEF locked
<1>2. /\ DOMAIN smart' = DOMAIN smart
      /\ smart'.call = call /\ smart'.todo = todo /\ smart'.check = check
      /\ smart'.locked = locked
  BY <1>1 DEF SmartTypes
<1> QED BY <1>2 DEF locked

(* smart_poll() takes a message for an answer, or asks again.              *)
LEMMA PolledIs ==
    ASSUME UpsInv, SmartTypes, SmartPoll
    PROVE  /\ wire' \in Seq(Messages) /\ Head(smart.todo) \in Questions
           /\ \/ \E a \in Messages : Answered(Status, Head(smart.todo), a)
              \/ /\ smart' = [smart EXCEPT !.silent = TRUE, !.check = "first"]
                 /\ UNCHANGED Status
              \/ /\ smart' = [smart EXCEPT !.again = @ - 1, !.retry = PollRetries]
                 /\ UNCHANGED Status
<1> DEFINE q == Head(smart.todo)
           Outcome(r) ==
               /\ wire' = r.rest
               /\ \/ Answered(Status, q, r.ans)
                  \/ /\ smart' = [smart EXCEPT !.silent = TRUE, !.check = "first"]
                     /\ UNCHANGED Status
                  \/ /\ smart' = [smart EXCEPT !.again = @ - 1, !.retry = PollRetries]
                     /\ UNCHANGED Status
<1>1. PICK w \in Sent(wire, q) : \E r \in Reads(w) : Outcome(r)
  BY DEF SmartPoll
<1>2. q \in Questions
  BY DEF SmartPoll, SmartTypes
<1>3. w \in Seq(Messages)
  BY <1>1, <1>2, SentIs DEF SmartTypes
<1>4. PICK r \in Reads(w) : Outcome(r)
  BY <1>1
<1>5. r.ans \in Messages /\ r.rest \in Seq(Messages)
  BY <1>3, ReadsIs
<1> QED BY <1>2, <1>4, <1>5

LEMMA SmartStep ==
    ASSUME UpsInv, SmartInv, Running, Attach \/ Weather \/ Daemon \/ Smart
    PROVE  SmartInv'
<1> USE DEF UpsInv
<1>1. CASE Attach
  <2>1. told' = told /\ UNCHANGED <<smartVars, Status>> /\ (driver' \in {"none", "apcsmart"} => driver = "none")
    BY <1>1 DEF Attach, attach_driver, Silent, Abort, driverVars
  <2>2. phase' \in {"open", "aborted"} /\ phase = "attach"
    BY <1>1 DEF Attach, attach_driver, Abort
  <2> QED BY <2>1, <2>2 DEF SmartInv, smartVars, SmartTypes, CallRuns, Calls
<1>2. CASE Weather
  <2>1. told' = told /\ UNCHANGED <<smartVars, Status, driver, phase>>
    BY <1>2 DEF Weather, World, Silent, driverVars
  <2> QED BY <2>1 DEF SmartInv, smartVars, SmartTypes, CallRuns
<1>3. CASE Daemon
  <2>1. told' = told /\ UNCHANGED <<smartVars, driver>> /\ smart.call = "none"
    BY <1>3, DaemonSteps DEF Silent, driverVars, Returned
  <2>2. "commlost" \in Status' <=> "commlost" \in Status
    BY <1>3, DaemonSteps DEF DaemonBits
  <2>3. phase \in {"act", "hibernate"}
    BY <1>3, DaemonSteps
  <2> QED BY <2>1, <2>2, <2>3 DEF SmartInv, smartVars, SmartTypes, CallRuns
<1>4. CASE Smart
  <2> SUFFICES ASSUME driver = "apcsmart" PROVE SmartInv'
    BY <1>4, SmartCalls DEF Call, Smart
  <2> USE DEF SmartInv
  <2>1. CASE SmartAlert
    <3>1. Alert(truth) \in Messages
      BY DEF Alert, Messages, ApcByte
    <3> QED BY <2>1, <3>1 DEF SmartAlert, Silent, SmartTypes, CallRuns
  <2>2. CASE SmartReadsAlert
    <3>1. "commlost" \in Status' <=> "commlost" \in Status
      BY <2>2, AlertedIs DEF SmartReadsAlert, Others
    <3> QED BY <2>2, <3>1 DEF SmartReadsAlert, Silent, SmartTypes, CallRuns
  <2>3. CASE SmartOpen
    <3>1. CASE OpenFails /\ UNCHANGED smart
      <4>1. told' => "commlost" \in Status'
        BY <2>3, <3>1 DEF OpenFails, Abort, Silent
      <4> QED BY <2>3, <3>1, <4>1 DEF SmartOpen, OpenFails, Abort, SmartTypes, CallRuns
    <3>2. CASE OpenSucceeds(Status) /\ smart' = [smart EXCEPT !.fd = TRUE]
      <4>1. ~told'
        BY <3>2 DEF OpenSucceeds, Silent, SayOk
      <4>2. smart.call = "none"
        BY <2>3 DEF SmartOpen, CallRuns, Calls
      <4> QED BY <2>3, <3>2, <4>1, <4>2 DEF SmartOpen, OpenSucceeds, SmartTypes, CallRuns
    <3> QED BY <2>3, <3>1, <3>2 DEF SmartOpen
  <2>4. CASE SmartSetup
    <3>1. told' = told
      BY <2>4 DEF SmartSetup, Abort, Silent
    <3>2. CASE Abort /\ UNCHANGED <<smart, wire>>
      BY <2>4, <3>1, <3>2 DEF SmartSetup, Abort, SmartTypes, CallRuns
    <3>3. CASE wire' \in {<<>>, <<Line("Y")>>} /\ Begin("caps", <<"Q", "B">>, "no") /\ UNCHANGED phase
      <4>1. Line("Y") \in Messages
        BY LineIs DEF Questions
      <4>2. wire' \in Seq(Messages)
        <5> DEFINE m == Line("Y")
        <5>1. m \in Messages /\ wire' \in {<<>>, <<m>>}
          BY <3>3, <4>1
        <5> HIDE DEF m
        <5>2. <<m>> \in Seq(Messages) /\ <<>> \in Seq(Messages)
          BY <5>1
        <5> QED BY <5>1, <5>2
      <4>3. <<"Q", "B">> \in Seq(Questions)
        BY DEF Questions
      <4> QED BY <2>4, <3>1, <3>3, <4>2, <4>3, BeginIs, ZenonT(30) DEF SmartSetup, SmartTypes, CallRuns, Calls
    <3> QED BY <2>4, <3>2, <3>3 DEF SmartSetup
  <2>5. CASE SmartRead
    <3> DEFINE todo == IfKnown("Q") \o IfKnown("B") \o <<"Y", "Y">>
    <3>1. todo \in Seq(Questions) /\ todo # <<>>
      <4>1. \A q \in Questions : IfKnown(q) \in Seq(Questions)
        BY DEF IfKnown
      <4>2. IfKnown("Q") \in Seq(Questions) /\ IfKnown("B") \in Seq(Questions)
            /\ <<"Y", "Y">> \in Seq(Questions)
        BY <4>1 DEF Questions
      <4> QED BY <4>2
    <3>2. Begin("volatile", todo, "first") /\ told' = told /\ UNCHANGED <<driver, phase, Status, wire>>
          /\ phase = "fill" /\ smart.call = "none"
      BY <2>5 DEF SmartRead, VolatileCheck, Silent
    <3> HIDE DEF todo
    <3>3. /\ DOMAIN smart' = DOMAIN smart /\ smart'.call = "volatile" /\ smart'.check = "first"
          /\ smart'.todo = todo /\ smart'.locked = TRUE
      BY <3>2, BeginIs
    <3> QED BY <3>1, <3>2, <3>3 DEF SmartTypes, CallRuns, Calls
  <2>6. CASE SmartSelfTest
    <3>1. <<"G">> \in Seq(Questions)
      BY DEF Questions
    <3>2. Begin("selftest", <<"G">>, "no") /\ told' = told /\ UNCHANGED <<driver, phase, Status, wire>>
          /\ phase = "act" /\ smart.call = "none"
      BY <2>6 DEF SmartSelfTest, Silent
    <3>3. /\ DOMAIN smart' = DOMAIN smart /\ smart'.call = "selftest" /\ smart'.check = "no"
          /\ smart'.todo \in Seq(Questions) /\ smart'.locked = TRUE
      BY <3>1, <3>2, BeginIs
    <3> QED BY <3>2, <3>3 DEF SmartTypes, CallRuns, Calls
  <2>7. CASE SmartPoll
    <3> DEFINE q == Head(smart.todo)
    <3>1. /\ wire' \in Seq(Messages) /\ smart.todo # <<>> /\ smart.check = "no"
          /\ told' = told /\ UNCHANGED <<driver, phase>>
          /\ q \in Questions
      BY <2>7, PolledIs DEF SmartPoll, Silent
    <3>2. CASE \E a \in Messages : Answered(Status, q, a)
      <4> HIDE DEF q
      <4> QED BY <3>1, <3>2, AnsweredIs DEF SmartTypes, CallRuns, Others
    <3>3. CASE smart' = [smart EXCEPT !.silent = TRUE, !.check = "first"] /\ UNCHANGED Status
      <4>1. /\ DOMAIN smart' = DOMAIN smart /\ smart'.check = "first"
            /\ smart'.call = smart.call /\ smart'.todo = smart.todo
            /\ smart'.locked = smart.locked
        BY <3>3 DEF SmartTypes
      <4>2. smart.call # "none"
        BY <3>1 DEF CallRuns
      <4> QED BY <3>1, <3>3, <4>1, <4>2 DEF SmartTypes, CallRuns
    <3>4. CASE smart' = [smart EXCEPT !.again = @ - 1, !.retry = PollRetries] /\ UNCHANGED Status
      BY <3>1, <3>4 DEF SmartTypes, CallRuns
    <3> QED BY <2>7, <3>2, <3>3, <3>4, PolledIs
  <2>8. CASE SmartCheckFirst
    <3>1. PICK f \in Flushed(wire) : \E w \in Sent(f, "Y") : \E r \in Reads(w) :
            /\ wire' = r.rest
            /\ \/ CheckReturns /\ UNCHANGED phase /\ Silent
               \/ /\ smart' = [smart EXCEPT !.check = "loop", !.waited = 0, !.locked = FALSE]
                  /\ UNCHANGED <<Status, phase>> /\ Silent
               \/ UNCHANGED <<Status, smart>> /\ Abort
      BY <2>8 DEF SmartCheckFirst
    <3>2. f \in Seq(Messages)
      BY <3>1, FlushedIs DEF SmartTypes
    <3>3. PICK w \in Sent(f, "Y") : \E r \in Reads(w) :
            /\ wire' = r.rest
            /\ \/ CheckReturns /\ UNCHANGED phase /\ Silent
               \/ /\ smart' = [smart EXCEPT !.check = "loop", !.waited = 0, !.locked = FALSE]
                  /\ UNCHANGED <<Status, phase>> /\ Silent
               \/ UNCHANGED <<Status, smart>> /\ Abort
      BY <3>1
    <3>4. w \in Seq(Messages)
      BY <3>2, <3>3, SentIs DEF Questions
    <3>5. wire' \in Seq(Messages)
      BY <3>3, <3>4, ReadsIs
    <3>6. smart.check = "first" /\ smart.todo # <<>> /\ smart.call # "none" /\ driver' = driver
      BY <2>8 DEF SmartCheckFirst, CallRuns
    <3>7. CASE CheckReturns /\ UNCHANGED phase /\ Silent
      <4>1. told' = told /\ phase' = phase
        BY <3>7 DEF Silent
      <4>2. "commlost" \in Status => phase = "open"
        BY <3>6 DEF Running
      <4>3. phase # "open"
        BY <3>6 DEF CallRuns, Calls, Running
      <4> QED BY <3>5, <3>6, <3>7, <4>1, <4>2, <4>3, CheckReturnsIs
              DEF SmartTypes, CallRuns, Others
    <3>8. CASE /\ smart' = [smart EXCEPT !.check = "loop", !.waited = 0, !.locked = FALSE]
               /\ UNCHANGED <<Status, phase>> /\ Silent
      <4>1. /\ DOMAIN smart' = DOMAIN smart /\ smart'.check = "loop"
            /\ smart'.call = smart.call /\ smart'.todo = smart.todo
            /\ smart'.locked = FALSE
        BY <3>8 DEF SmartTypes
      <4>2. told' = told
        BY <3>8 DEF Silent
      <4> QED BY <3>5, <3>6, <3>8, <4>1, <4>2 DEF SmartTypes, CallRuns
    <3>9. CASE UNCHANGED <<Status, smart>> /\ Abort
      BY <3>5, <3>6, <3>9 DEF SmartTypes, CallRuns, Abort, Silent
    <3> QED BY <3>3, <3>7, <3>8, <3>9
  <2>9. CASE SmartCheckLoop
    <3>1. PICK f \in Flushed(wire) : \E w \in Sent(f, "Y") : \E r \in Reads(w) :
            \/ /\ wire' = r.rest /\ CheckReturns
               /\ IF "commlost" \in Status THEN SayOk ELSE Silent
            \/ /\ wire' = r.rest /\ smart' = [smart EXCEPT !.waited = @ + 1]
               /\ UNCHANGED Status /\ Silent
            \/ /\ wire' = <<>> /\ smart' = [smart EXCEPT !.fd = link = "up"]
               /\ Status' = Status \cup {"commlost"}
               /\ IF "commlost" \in Status THEN Silent ELSE SayFailure
      BY <2>9 DEF SmartCheckLoop
    <3>2. f \in Seq(Messages)
      BY <3>1, FlushedIs DEF SmartTypes
    <3>3. PICK w \in Sent(f, "Y") : \E r \in Reads(w) :
            \/ /\ wire' = r.rest /\ CheckReturns
               /\ IF "commlost" \in Status THEN SayOk ELSE Silent
            \/ /\ wire' = r.rest /\ smart' = [smart EXCEPT !.waited = @ + 1]
               /\ UNCHANGED Status /\ Silent
            \/ /\ wire' = <<>> /\ smart' = [smart EXCEPT !.fd = link = "up"]
               /\ Status' = Status \cup {"commlost"}
               /\ IF "commlost" \in Status THEN Silent ELSE SayFailure
      BY <3>1
    <3>4. w \in Seq(Messages)
      BY <3>2, <3>3, SentIs DEF Questions
    <3>5. wire' \in Seq(Messages)
      <4>1. <<>> \in Seq(Messages)
        OBVIOUS
      <4> QED BY <3>3, <3>4, <4>1, ReadsIs
    <3>6. smart.check = "loop" /\ smart.todo # <<>> /\ smart.call # "none"
          /\ UNCHANGED <<driver, phase>>
      BY <2>9 DEF SmartCheckLoop, CallRuns
    <3>7. CASE CheckReturns /\ IF "commlost" \in Status THEN SayOk ELSE Silent
      <4>1. ~told'
        BY <3>7 DEF Silent, SayOk
      <4> QED BY <3>5, <3>6, <3>7, <4>1, CheckReturnsIs DEF SmartTypes, CallRuns, Others
    <3>8. CASE smart' = [smart EXCEPT !.waited = @ + 1] /\ UNCHANGED Status /\ Silent
      BY <3>5, <3>6, <3>8 DEF SmartTypes, CallRuns, Silent
    <3>9. CASE smart' = [smart EXCEPT !.fd = link = "up"] /\ "commlost" \in Status'
      <4> DEFINE up == link = "up"
      <4>1. smart' = [smart EXCEPT !.fd = up]
        BY <3>9
      <4> HIDE DEF up
      <4> QED BY <3>5, <3>6, <3>9, <4>1 DEF SmartTypes, CallRuns
    <3> QED BY <3>3, <3>7, <3>8, <3>9
  <2>10. CASE SmartReturn
    <3>1. told' = told /\ UNCHANGED <<driver, Status, wire>> /\ smart.check = "no"
      BY <2>10 DEF SmartReturn, SetupDone, Abort, Silent
    <3>2. CASE Begin("static", <<"S">>, "no") /\ UNCHANGED phase /\ smart.call = "caps"
      <4>1. <<"S">> \in Seq(Questions)
        BY DEF Questions
      <4>2. phase \in {"setup", "aborted"}
        BY <3>2 DEF CallRuns, Calls
      <4>3. /\ DOMAIN smart' = DOMAIN smart /\ smart'.call = "static" /\ smart'.check = "no"
            /\ smart'.todo \in Seq(Questions) /\ smart'.locked = FALSE
        BY <3>2, <4>1, BeginIs
      <4> QED BY <3>1, <3>2, <4>2, <4>3 DEF SmartTypes, CallRuns, Calls
    <3>3. CASE smart' = [smart EXCEPT !.call = "none", !.locked = FALSE]
      <4>1. /\ DOMAIN smart' = DOMAIN smart /\ smart'.check = "no" /\ smart'.call = "none"
            /\ smart'.todo = smart.todo /\ smart'.locked = FALSE
        BY <3>1, <3>3 DEF SmartTypes
      <4>2. "commlost" \notin Status
        BY <2>10, <3>1 DEF SmartReturn, CallRuns, Calls, Running
      <4>3. smart.todo = <<>>
        BY <2>10 DEF SmartReturn
      <4> QED BY <3>1, <4>1, <4>2, <4>3 DEF SmartTypes, CallRuns
    <3> QED BY <2>10, <3>2, <3>3 DEF SmartReturn
  <2>11. CASE SmartCheck
    <3>1. PICK k \in 0..Len(wire) :
            /\ wire' = SubSeq(wire, k + 1, Len(wire))
            /\ \E t : Status' \in {Status, Alerted(Status, t)}
      BY <2>11 DEF SmartCheck
    <3>2. wire' \in Seq(Messages)
      BY <3>1, RestIs DEF SmartTypes
    <3>3. "commlost" \in Status' <=> "commlost" \in Status
      BY <3>1, AlertedIs DEF Others
    <3> QED BY <2>11, <3>2, <3>3 DEF SmartCheck, Silent, SmartTypes, CallRuns
  <2>12. CASE SmartKill
    BY <2>12 DEF SmartKill, KillDone, Silent, smartVars, SmartTypes, CallRuns
  <2>13. CASE SmartClose
    BY <2>13 DEF SmartClose, Silent, SmartTypes, CallRuns
  <2> QED BY <1>4, <2>1, <2>2, <2>3, <2>4, <2>5, <2>6, <2>7, <2>8, <2>9, <2>10, <2>11, <2>12, <2>13
          DEF Smart, SmartNext
<1> QED BY <1>1, <1>2, <1>3, <1>4

---------------------------------------------------------------------------
(* All of them.                                                            *)
DriversInv ==
    /\ UpsInv /\ DumbInv /\ TestInv /\ NetInv /\ PcnetInv /\ SnmpInv /\ SmartInv /\ UsbInv

LEMMA DriversStart == Init => DriversInv
  BY UpsStart, DumbStart, TestStart, NetStart, PcnetStart, SnmpStart, SmartStart, UsbStart
     DEF DriversInv

LEMMA DriversStep ==
    ASSUME DriversInv, [Next]_vars
    PROVE  DriversInv'
<1> USE DEF DriversInv
<1>1. UpsInv'
  BY UpsStep
<1>2. CASE UNCHANGED vars
  <2>1. DumbInv' /\ TestInv' /\ NetInv'
    BY <1>2 DEF vars, upsVars, driverVars, dumbVars, netVars, DumbInv, TestInv, NetInv,
            KillLineReleased, KillAsserted, LossCounts
  <2>2. PcnetInv' /\ SnmpInv'
    BY <1>2 DEF vars, upsVars, driverVars, pcnetVars, snmpVars, PcnetInv, SnmpInv
  <2>3. SmartInv' /\ UsbInv'
    BY <1>2 DEF vars, upsVars, driverVars, smartVars, usbVars, SmartInv, SmartTypes, CallRuns,
            UsbInv, UsbTypes, InStep, Telling
  <2> QED BY <1>1, <2>1, <2>2, <2>3
<1>3. CASE Next
  <2>1. Running
    BY <1>3 DEF Next
  <2>2. CASE Attach \/ Weather \/ Daemon
    BY <1>1, <2>1, <2>2, DumbStep, TestStep, NetStep, PcnetStep, SnmpStep, SmartStep, UsbStep
  <2>3. CASE Dumb
    <3>1. driver' = "dumb"
      BY <2>3, DumbCalls DEF Call, Dumb
    <3> QED BY <1>1, <2>1, <2>3, <3>1, DumbStep
            DEF TestInv, NetInv, PcnetInv, SnmpInv, SmartInv, UsbInv
  <2>4. CASE Test
    <3>1. driver' = "test"
      BY <2>4, TestCalls DEF Call, Test
    <3> QED BY <1>1, <2>1, <2>4, <3>1, TestStep
            DEF DumbInv, NetInv, PcnetInv, SnmpInv, SmartInv, UsbInv
  <2>5. CASE Net
    <3>1. driver' = "net"
      BY <2>5, NetCalls DEF Call, Net
    <3> QED BY <1>1, <2>1, <2>5, <3>1, NetStep
            DEF DumbInv, TestInv, PcnetInv, SnmpInv, SmartInv, UsbInv
  <2>6. CASE Pcnet
    <3>1. driver' = "pcnet"
      BY <2>6, PcnetCalls DEF Call, Pcnet
    <3> QED BY <1>1, <2>1, <2>6, <3>1, PcnetStep
            DEF DumbInv, TestInv, NetInv, SnmpInv, SmartInv, UsbInv
  <2>7. CASE Snmp
    <3>1. driver' = "snmplite"
      BY <2>7, SnmpCalls DEF Call, Snmp
    <3> QED BY <1>1, <2>1, <2>7, <3>1, SnmpStep
            DEF DumbInv, TestInv, NetInv, PcnetInv, SmartInv, UsbInv
  <2>8. CASE Smart
    <3>1. driver' = "apcsmart"
      BY <2>8, SmartCalls DEF Call, Smart
    <3> QED BY <1>1, <2>1, <2>8, <3>1, SmartStep
            DEF DumbInv, TestInv, NetInv, PcnetInv, SnmpInv, UsbInv
  <2>9. CASE Usb
    <3>1. driver' = "usb"
      BY <2>9, UsbCalls DEF Call, Usb
    <3> QED BY <1>1, <2>1, <2>9, <3>1, UsbStep
            DEF DumbInv, TestInv, NetInv, PcnetInv, SnmpInv, SmartInv
  <2> QED BY <1>3, <2>2, <2>3, <2>4, <2>5, <2>6, <2>7, <2>8, <2>9 DEF Next
<1> QED BY <1>2, <1>3

LEMMA DriversAlways == Spec => []DriversInv
  BY DriversStart, DriversStep, PTL DEF Spec

(* From the serial port of a simple-signalling UPS no line that kills it   *)
(* is raised while the daemon monitors, nor left behind by Close() except  *)
(* with the MAM cable.                                                     *)
THEOREM LinesAlwaysReleased == Spec => []KillLineReleased
<1>1. DriversInv => KillLineReleased
  BY DEF DriversInv, DumbInv, KillLineReleased
<1> QED BY <1>1, DriversAlways, PTL

(* A slave shuts down only because its master does or was asked in vain    *)
(* five times while the slave was on battery.                              *)
THEOREM SlaveAlwaysJustified == Spec => []SlaveShutdownJustified
<1>1. DriversInv => SlaveShutdownJustified
  BY DEF DriversInv, NetInv, LossCounts, SlaveShutdownJustified
<1> QED BY <1>1, DriversAlways, PTL

(* A slave on battery counts every check in vain: at the fifth it gives up.*)
THEOREM SilentMasterAlwaysEnds == Spec => []SilentMasterEndsSlave
<1>1. DriversInv => SilentMasterEndsSlave
  BY NetAssumption DEF DriversInv, NetInv, NetState, Counters, LossCounts, SilentMasterEndsSlave
<1> QED BY <1>1, DriversAlways, PTL

(* No value and no status of an SNMP card is taken from the answer to an   *)
(* earlier poll, for every number of answers that may be under way.        *)
THEOREM AnswersAlwaysCurrent == Spec => []AnswersAreCurrent
<1>1. DriversInv => AnswersAreCurrent
  BY DEF DriversInv, SnmpInv, AnswersAreCurrent
<1> QED BY <1>1, DriversAlways, PTL

(* A USB report that is ignored has nothing new for the status, on every   *)
(* platform and with every choice of items, unless the last poll was not   *)
(* told or the values last seen contradict each other.                     *)
THEOREM IgnoredAlwaysKnown == Spec => []IgnoredReportsAreKnown
<1>1. DriversInv => IgnoredReportsAreKnown
  <2> SUFFICES ASSUME DriversInv, driver = "usb", phase = "check", ~usb.check, ~usb.missed,
                      ~Contradictory, NEW i \in Telling
               PROVE  "onbatt" \in usb.last[i] <=> "onbatt" \in Status
    BY DEF IgnoredReportsAreKnown
  <2>1. PICK j \in Telling : "onbatt" \in usb.last[j] <=> "onbatt" \in Status
    BY DEF DriversInv, UsbInv, InStep
  <2> QED BY <2>1 DEF Contradictory
<1> QED BY <1>1, DriversAlways, PTL

---------------------------------------------------------------------------
(* The status that a smart UPS did give.  The hypothesis: no more than one *)
(* answer is late when a question is asked.  Then UPSlinkCheck() leaves,   *)
(* before the status is asked for, nothing on the wire but answers to its  *)
(* own "Y".                                                                *)
OneLate == MaxWire <= 2

Wrong(m) == m.kind = "line" /\ m.q \notin {"Q", "Y", "empty", "rest", "cut", "blank"}
Entire(m) == m.kind = "line" /\ m.q # "rest"
OneLine(w) == \A i, j \in DOMAIN w : Entire(w[i]) /\ Entire(w[j]) => i = j
NoneWrong(w) == \A i \in DOMAIN w : ~Wrong(w[i])
NoneBehind(w) ==                        \* a line that may be taken for "SM"
    \A i, j \in DOMAIN w : i < j /\ Entire(w[i]) => ~Wrong(w[j])

AsksStatus == smart.call = "volatile" /\ smart.todo # <<>> /\ smart.todo[1] = "Q"
WireInv ==
    /\ Len(wire) <= 2
    /\ smart.todo = <<>> => OneLine(wire)
    /\ smart.call = "volatile" => \A i \in DOMAIN smart.todo : i > 1 => smart.todo[i] # "Q"
    /\ AsksStatus => IF smart.check = "no" \/ smart.silent THEN NoneWrong(wire)
                     ELSE NoneBehind(wire)
OriginInv == driver \in {"none", "apcsmart"} => WireInv

(* What is left of a wire is no worse than it was.                         *)
NoWorse(x, w) ==
    /\ Len(x) <= Len(w)
    /\ OneLine(w) => OneLine(x)
    /\ NoneWrong(w) => NoneWrong(x)
    /\ NoneBehind(w) => NoneBehind(x)

LEMMA PartIs ==
    ASSUME NEW w \in Seq(Messages), NEW x \in Seq(Messages), NEW k \in Nat,
           Len(x) + k = Len(w), \A i \in DOMAIN x : x[i] = w[i + k]
    PROVE  NoWorse(x, w)
<1>1. /\ DOMAIN x = 1..Len(x) /\ DOMAIN w = 1..Len(w) /\ Len(x) \in Nat /\ Len(w) \in Nat
  OBVIOUS
<1>2. \A i \in DOMAIN x : i \in Nat /\ i + k \in DOMAIN w
  BY <1>1
<1>3. \A i, j \in DOMAIN x : (i + k = j + k => i = j) /\ (i < j => i + k < j + k)
  BY <1>1
<1>4. OneLine(w) => OneLine(x)
  BY <1>2, <1>3 DEF OneLine, Entire
<1>5. NoneWrong(w) => NoneWrong(x)
  BY <1>2 DEF NoneWrong, Wrong
<1>6. NoneBehind(w) => NoneBehind(x)
  BY <1>2, <1>3 DEF NoneBehind, Wrong, Entire
<1> QED BY <1>1, <1>4, <1>5, <1>6 DEF NoWorse

LEMMA SuffixIs ==
    ASSUME NEW w \in Seq(Messages), NEW k \in 1..(Len(w) + 1)
    PROVE  SubSeq(w, k, Len(w)) \in Seq(Messages) /\ NoWorse(SubSeq(w, k, Len(w)), w)
<1> DEFINE x == SubSeq(w, k, Len(w))
<1>1. x \in Seq(Messages)
  BY RestIs
<1>2. Len(x) = Len(w) - k + 1 /\ \A i \in 1..Len(x) : x[i] = w[i + k - 1]
  OBVIOUS
<1>3. /\ k - 1 \in Nat /\ Len(x) + (k - 1) = Len(w) /\ Len(w) \in Nat
      /\ \A i \in DOMAIN x : x[i] = w[i + (k - 1)]
  <2>1. Len(w) \in Nat /\ k \in Int /\ k >= 1 /\ Len(x) \in Nat
    BY <1>1
  <2>2. \A i \in DOMAIN x : i \in 1..Len(x)
    BY <1>1
  <2>3. \A i \in 1..Len(x) : i + k - 1 = i + (k - 1)
    BY <2>1
  <2> HIDE DEF x
  <2>4. k - 1 \in Nat /\ Len(x) + (k - 1) = Len(w)
    BY <1>2, <2>1
  <2>5. \A i \in DOMAIN x : x[i] = w[i + (k - 1)]
    BY <1>2, <2>2, <2>3
  <2> QED BY <2>1, <2>4, <2>5
<1> QED BY <1>1, <1>3, PartIs

LEMMA TailIs ==
    ASSUME NEW w \in Seq(Messages), w # <<>>
    PROVE  /\ Tail(w) \in Seq(Messages) /\ NoWorse(Tail(w), w) /\ Len(Tail(w)) = Len(w) - 1
           /\ Head(w) = w[1] /\ Head(w) \in Messages
<1> DEFINE x == Tail(w)
<1>1. x \in Seq(Messages) /\ Len(x) = Len(w) - 1 /\ Len(w) \in Nat
      /\ \A i \in DOMAIN x : x[i] = w[i + 1]
  OBVIOUS
<1>2. Len(x) + 1 = Len(w)
  <2> HIDE DEF x
  <2> QED BY <1>1
<1>3. Head(w) = w[1] /\ Head(w) \in Messages
  OBVIOUS
<1> QED BY <1>1, <1>2, <1>3, PartIs

LEMMA FlushedKeeps ==
    ASSUME NEW w \in Seq(Messages), NEW x \in Flushed(w)
    PROVE  x \in Seq(Messages) /\ NoWorse(x, w)
  BY SuffixIs DEF Flushed

(* One more answer, or alert.                                              *)
LEMMA AppendedIs ==
    ASSUME NEW w \in Seq(Messages), NEW m \in Messages
    PROVE  /\ Append(w, m) \in Seq(Messages) /\ Len(Append(w, m)) = Len(w) + 1
           /\ m.kind # "line" /\ OneLine(w) => OneLine(Append(w, m))
           /\ ~Wrong(m) /\ NoneWrong(w) => NoneWrong(Append(w, m))
           /\ ~Wrong(m) /\ NoneBehind(w) => NoneBehind(Append(w, m))
<1> DEFINE x == Append(w, m)
<1>1. /\ x \in Seq(Messages) /\ Len(x) = Len(w) + 1 /\ Len(w) \in Nat
      /\ \A i \in DOMAIN x : (i \in DOMAIN w /\ x[i] = w[i]) \/ (x[i] = m /\ i = Len(w) + 1)
      /\ \A i \in DOMAIN w : i < Len(w) + 1
      /\ DOMAIN x \subseteq Nat
  <2>1. \A i \in 1..(Len(w) + 1) : i \in 1..Len(w) \/ i = Len(w) + 1
    OBVIOUS
  <2> QED BY <2>1
<1> HIDE DEF x
<1>2. m.kind # "line" /\ OneLine(w) => OneLine(x)
  BY <1>1 DEF OneLine, Entire
<1>3. ~Wrong(m) /\ NoneWrong(w) => NoneWrong(x)
  BY <1>1 DEF NoneWrong
<1>4. ~Wrong(m) /\ NoneBehind(w) => NoneBehind(x)
  <2>1. \A i \in DOMAIN x : \A j \in DOMAIN w : i < j => i \in DOMAIN w
    BY <1>1
  <2> QED BY <1>1, <2>1 DEF NoneBehind
<1> QED BY <1>1, <1>2, <1>3, <1>4 DEF x

LEMMA SentKeeps ==
    ASSUME OneLate, UpsInv, NEW w \in Seq(Messages), Len(w) <= 2,
           NEW q \in Questions, NEW x \in Sent(w, q)
    PROVE  /\ x \in Seq(Messages) /\ Len(x) <= 2
           /\ q \in {"Q", "Y"} /\ NoneWrong(w) => NoneWrong(x)
           /\ q \in {"Q", "Y"} /\ NoneBehind(w) => NoneBehind(x)
<1>1. CASE x = w
  BY <1>1
<1>2. CASE Len(w) < MaxWire /\ x = Append(w, Line(q))
  <2> DEFINE m == Line(q)
  <2>1. m \in Messages /\ (q \in {"Q", "Y"} => ~Wrong(m))
    BY LineIs DEF Line, Wrong
  <2>2. Len(w) + 1 <= 2
    BY <1>2, SmartAssumption DEF OneLate
  <2> HIDE DEF m
  <2>3. x = Append(w, m)
    BY <1>2 DEF m
  <2> QED BY <2>1, <2>2, <2>3, AppendedIs
<1> QED BY <1>1, <1>2 DEF Sent

(* The first line is read, as a whole or in part.                          *)
LEMMA TailBehind ==
    ASSUME NEW w \in Seq(Messages), Len(w) <= 2, w # <<>>
    PROVE  /\ Tail(w) \in Seq(Messages) /\ NoWorse(Tail(w), w) /\ OneLine(Tail(w))
           /\ NoneBehind(w) /\ Entire(w[1]) => NoneWrong(Tail(w))
<1> DEFINE x == Tail(w)
<1>1. x \in Seq(Messages) /\ NoWorse(x, w) /\ Len(x) = Len(w) - 1
  BY TailIs
<1>2. Len(w) \in Nat /\ Len(w) # 0 /\ 1 \in DOMAIN w
  OBVIOUS
<1>3. DOMAIN x \subseteq {1}
  <2>1. Len(x) \in Nat /\ Len(x) <= 1 /\ DOMAIN x = 1..Len(x)
    BY <1>1, <1>2
  <2> QED BY <2>1
<1>4. OneLine(x)
  BY <1>3 DEF OneLine
<1>5. NoneBehind(w) /\ Entire(w[1]) => NoneWrong(x)
  <2>1. \A i \in DOMAIN x : i + 1 \in DOMAIN w /\ x[i] = w[i + 1] /\ 1 < i + 1
    OBVIOUS
  <2> HIDE DEF x
  <2> QED BY <1>1, <1>2, <2>1 DEF NoneBehind, NoneWrong
<1> QED BY <1>1, <1>4, <1>5

LEMMA CutIs ==
    ASSUME NEW w \in Seq(Messages), Len(w) <= 2, w # <<>>
    PROVE  /\ <<Rest>> \o Tail(w) \in Seq(Messages) /\ NoWorse(<<Rest>> \o Tail(w), w)
           /\ OneLine(<<Rest>> \o Tail(w))
           /\ NoneBehind(w) /\ Entire(w[1]) => NoneWrong(<<Rest>> \o Tail(w))
<1> DEFINE m == Rest
           x == <<m>> \o Tail(w)
<1>1. m \in Messages /\ ~Entire(m) /\ ~Wrong(m)
  BY DEF Rest, Messages, Entire, Wrong, Questions
<1> HIDE DEF m
<1>2. /\ x \in Seq(Messages) /\ Len(x) = Len(w) /\ x[1] = m
      /\ \A i \in DOMAIN w : i # 1 => x[i] = w[i]
  <2> DEFINE t == Tail(w)
  <2>1. /\ t \in Seq(Messages) /\ Len(t) = Len(w) - 1 /\ Len(w) \in Nat /\ DOMAIN w = 1..Len(w)
        /\ \A i \in 1..Len(t) : t[i] = w[i + 1]
    OBVIOUS
  <2> HIDE DEF t
  <2>2. /\ <<m>> \o t \in Seq(Messages) /\ Len(<<m>> \o t) = 1 + Len(t) /\ (<<m>> \o t)[1] = m
        /\ \A i \in 1..Len(t) : (<<m>> \o t)[i + 1] = t[i]
    BY <1>1, <2>1
  <2>3. \A i \in DOMAIN w : i # 1 => i - 1 \in 1..Len(t) /\ (i - 1) + 1 = i
    BY <2>1
  <2>4. \A i \in DOMAIN w : i # 1 => (<<m>> \o t)[i] = w[i]
    BY <2>1, <2>2, <2>3
  <2>5. 1 + Len(t) = Len(w)
    BY <2>1
  <2> QED BY <2>2, <2>4, <2>5 DEF t
<1>3. /\ DOMAIN x = DOMAIN w /\ 1 \in DOMAIN w /\ DOMAIN w \subseteq {1, 2} /\ Len(w) \in Nat
  <2>1. Len(w) \in Nat /\ Len(w) # 0 /\ DOMAIN w = 1..Len(w) /\ DOMAIN x = 1..Len(x)
    BY <1>2
  <2> QED BY <1>2, <2>1
<1> HIDE DEF x
<1>4. OneLine(x)
  BY <1>1, <1>2, <1>3 DEF OneLine
<1>5. NoneWrong(w) => NoneWrong(x)
  BY <1>1, <1>2, <1>3 DEF NoneWrong
<1>6. NoneBehind(w) => NoneBehind(x)
  BY <1>1, <1>2, <1>3 DEF NoneBehind
<1>7. NoneBehind(w) /\ Entire(w[1]) => NoneWrong(x)
  <2>1. \A i \in DOMAIN w : i # 1 => 1 < i
    BY <1>3
  <2> QED BY <1>1, <1>2, <1>3, <2>1 DEF NoneBehind, NoneWrong
<1>8. NoWorse(x, w)
  BY <1>2, <1>3, <1>4, <1>5, <1>6 DEF NoWorse
<1> QED BY <1>2, <1>4, <1>7, <1>8 DEF x, m

(* What getline() returns from a wire that holds no more than two.         *)
LEMMA ReadKeeps ==
    ASSUME NEW w \in Seq(Messages), Len(w) <= 2, NEW r \in Reads(w)
    PROVE  /\ r.ans \in Messages /\ r.rest \in Seq(Messages) /\ NoWorse(r.rest, w)
           /\ Len(r.rest) <= 2 /\ r.ans.kind = "line"
           /\ r.ans.q # "rest"
           /\ r.ans # NoLine => OneLine(r.rest) /\ (NoneWrong(w) => ~Wrong(r.ans))
           /\ r.ans.q = "Y" => OneLine(r.rest) /\ (NoneBehind(w) => NoneWrong(r.rest))
<1>1. CASE r = [ans |-> NoLine, rest |-> w]
  <2>1. NoWorse(w, w)
    BY DEF NoWorse
  <2>2. NoLine \in Messages /\ NoLine.kind = "line" /\ NoLine.q \notin {"Y", "rest"}
    BY DEF NoLine, Messages
  <2> QED BY <1>1, <2>1, <2>2
<1>2. ASSUME w # <<>>, Head(w).kind = "line", NEW a \in Whole(Head(w)) \cup CutTo(Head(w)),
             NEW x, x \in {Tail(w), <<Rest>> \o Tail(w)}, r.ans = a, r.rest = x
      PROVE  /\ r.ans \in Messages /\ r.rest \in Seq(Messages) /\ NoWorse(r.rest, w)
             /\ Len(r.rest) <= 2 /\ r.ans.kind = "line"
             /\ r.ans.q # "rest"
             /\ r.ans # NoLine => OneLine(r.rest) /\ (NoneWrong(w) => ~Wrong(r.ans))
             /\ r.ans.q = "Y" => OneLine(r.rest) /\ (NoneBehind(w) => NoneWrong(r.rest))
  <2>1. /\ Head(w) = w[1] /\ w[1] \in Messages /\ w[1].kind = "line"
    BY <1>2, TailIs
  <2>2. Len(w) \in Nat /\ Len(w) # 0 /\ 1 \in DOMAIN w
    BY <1>2
  <2>3. /\ a \in Messages /\ a.kind = "line" /\ a.q # "rest" /\ (a = w[1] \/ a.q \in {"cut", "blank", "Y"})
        /\ a.q = "Y" => w[1].q # "rest"
    BY <1>2, <2>1, PartsAre
  <2>4. NoneWrong(w) => ~Wrong(a)
    <3>1. NoneWrong(w) => ~Wrong(w[1])
      BY <2>2 DEF NoneWrong
    <3> QED BY <2>3, <3>1 DEF Wrong
  <2>5. /\ x \in Seq(Messages) /\ NoWorse(x, w) /\ OneLine(x)
        /\ NoneBehind(w) /\ Entire(w[1]) => NoneWrong(x)
    <3>1. CASE x = Tail(w)
      BY <1>2, <3>1, TailBehind
    <3>2. CASE x = <<Rest>> \o Tail(w)
      BY <1>2, <3>2, CutIs
    <3> QED BY <1>2, <3>1, <3>2
  <2>6. Len(x) <= 2
    <3>1. Len(x) \in Nat /\ Len(x) <= Len(w)
      BY <2>5 DEF NoWorse
    <3> QED BY <2>2, <3>1
  <2> QED BY <1>2, <2>1, <2>3, <2>4, <2>5, <2>6 DEF Entire
<1> QED BY <1>1, <1>2, Readings

(* The question asked is answered, or given up.                            *)
LEMMA AnsweredWire ==
    ASSUME SmartTypes, WireInv, StatusIsStatus, smart.todo # <<>>, NEW s, NEW a,
           Answered(s, Head(smart.todo), a), Len(wire') <= 2, OneLine(wire'),
           AsksStatus => a.q \in {"Q", "Y", "empty", "cut", "blank"}
    PROVE  WireInv' /\ StatusIsStatus'
<1>1. smart'.todo = Tail(smart.todo) /\ smart'.call = smart.call
  BY DEF Answered, SmartTypes
<1>2. smart.todo \in Seq(Questions) /\ Head(smart.todo) = smart.todo[1]
  BY DEF SmartTypes
<1>3. /\ smart'.todo \in Seq(Questions)
      /\ \A i \in DOMAIN smart'.todo : i + 1 \in DOMAIN smart.todo /\ i + 1 > 1
                                       /\ smart'.todo[i] = smart.todo[i + 1]
  BY <1>1, <1>2
<1>4. smart.call = "volatile" => \A i \in DOMAIN smart'.todo : smart'.todo[i] # "Q"
  BY <1>3 DEF WireInv
<1>5. smart'.todo # <<>> => 1 \in DOMAIN smart'.todo
  BY <1>3
<1>6. ~AsksStatus'
  BY <1>1, <1>4, <1>5 DEF AsksStatus
<1>7. WireInv'
  BY <1>1, <1>4, <1>6 DEF WireInv
<1>8. StatusIsStatus'
  <2>1. CASE AsksStatus
    BY <1>2, <2>1 DEF AsksStatus, Answered, Stored, StatusIsStatus
  <2>2. CASE ~AsksStatus
    <3>1. origin' = origin
      BY <1>2, <2>2 DEF AsksStatus, Answered, Stored
    <3> QED BY <3>1 DEF StatusIsStatus
  <2> QED BY <2>1, <2>2
<1> QED BY <1>7, <1>8

(* The question is asked again, or the link is being checked.              *)
LEMMA AskedWire ==
    ASSUME WireInv, StatusIsStatus, smart.todo # <<>>, UNCHANGED origin,
           smart'.call = smart.call, smart'.todo = smart.todo, Len(wire') <= 2,
           AsksStatus => IF smart'.check = "no" \/ smart'.silent THEN NoneWrong(wire')
                         ELSE NoneBehind(wire')
    PROVE  WireInv' /\ StatusIsStatus'
<1>1. AsksStatus' = AsksStatus
  BY DEF AsksStatus
<1> QED BY <1>1 DEF WireInv, StatusIsStatus

(* Nothing changes but that some of the wire is gone.                      *)
LEMMA FewerWire ==
    ASSUME SmartTypes, WireInv, StatusIsStatus, UNCHANGED origin, wire' \in Seq(Messages),
           smart'.call = smart.call, smart'.todo = smart.todo, smart'.check = smart.check,
           smart'.silent = smart.silent, NoWorse(wire', wire)
    PROVE  WireInv' /\ StatusIsStatus'
<1>1. AsksStatus' = AsksStatus
  BY DEF AsksStatus
<1>2. Len(wire') <= 2
  <2>1. Len(wire') \in Nat /\ Len(wire) \in Nat /\ Len(wire') <= Len(wire) /\ Len(wire) <= 2
    BY DEF NoWorse, WireInv, SmartTypes
  <2> QED BY <2>1
<1> QED BY <1>1, <1>2 DEF WireInv, StatusIsStatus, NoWorse

LEMMA PollWire ==
    ASSUME OneLate, UpsInv, SmartTypes, WireInv, StatusIsStatus, SmartPoll
    PROVE  WireInv' /\ StatusIsStatus'
<1> DEFINE q == Head(smart.todo)
<1>1. PICK w \in Sent(wire, q) : \E r \in Reads(w) :
         /\ wire' = r.rest
         /\ \/ /\ r.ans = NoLine
               /\ smart' = [smart EXCEPT !.silent = TRUE, !.check = "first"]
               /\ UNCHANGED <<Status, origin>>
            \/ /\ r.ans.q = "Y" /\ smart' = [smart EXCEPT !.again = @ - 1, !.retry = PollRetries]
               /\ UNCHANGED <<Status, origin>>
            \/ r.ans # NoLine /\ Answered(Status, q, r.ans)
  BY DEF SmartPoll
<1>2. PICK r \in Reads(w) :
         /\ wire' = r.rest
         /\ \/ /\ r.ans = NoLine
               /\ smart' = [smart EXCEPT !.silent = TRUE, !.check = "first"]
               /\ UNCHANGED <<Status, origin>>
            \/ /\ r.ans.q = "Y" /\ smart' = [smart EXCEPT !.again = @ - 1, !.retry = PollRetries]
               /\ UNCHANGED <<Status, origin>>
            \/ r.ans # NoLine /\ Answered(Status, q, r.ans)
  BY <1>1
<1>3. /\ smart.todo # <<>> /\ smart.check = "no" /\ wire \in Seq(Messages) /\ q \in Questions
      /\ q = smart.todo[1]
  BY DEF SmartPoll, SmartTypes
<1>4. /\ w \in Seq(Messages) /\ Len(w) <= 2
      /\ AsksStatus => NoneWrong(w)
  <2> HIDE DEF q
  <2>1. AsksStatus => NoneWrong(wire) /\ q = "Q"
    BY <1>3 DEF WireInv, AsksStatus
  <2> QED BY <1>1, <1>3, <2>1, SentKeeps DEF WireInv
<1>5. /\ r.ans \in Messages /\ r.ans.kind = "line" /\ Len(wire') <= 2
      /\ AsksStatus => NoneWrong(wire')
      /\ r.ans # NoLine => OneLine(wire') /\ (AsksStatus => ~Wrong(r.ans))
      /\ r.ans.q # "rest"
  BY <1>2, <1>4, ReadKeeps DEF NoWorse
<1>6. CASE smart' = [smart EXCEPT !.silent = TRUE, !.check = "first"] /\ UNCHANGED <<Status, origin>>
  <2>1. smart'.call = smart.call /\ smart'.todo = smart.todo /\ smart'.silent = TRUE
    BY <1>6 DEF SmartTypes
  <2> QED BY <1>3, <1>5, <1>6, <2>1, AskedWire
<1>7. CASE smart' = [smart EXCEPT !.again = @ - 1, !.retry = PollRetries] /\ UNCHANGED <<Status, origin>>
  <2>1. smart'.call = smart.call /\ smart'.todo = smart.todo /\ smart'.check = smart.check
    BY <1>7 DEF SmartTypes
  <2> QED BY <1>3, <1>5, <1>7, <2>1, AskedWire
<1>8. CASE r.ans # NoLine /\ Answered(Status, q, r.ans)
  <2>1. AsksStatus => r.ans.q \in {"Q", "Y", "empty", "cut", "blank"}
    BY <1>5, <1>8 DEF Wrong
  <2> HIDE DEF q
  <2>2. Answered(Status, Head(smart.todo), r.ans)
    BY <1>8 DEF q
  <2> QED BY <1>3, <1>5, <1>8, <2>1, <2>2, AnsweredWire
<1> QED BY <1>2, <1>6, <1>7, <1>8

(* UPSlinkCheck() has read its answer.                                     *)
LEMMA ReturnsWire ==
    ASSUME SmartTypes, WireInv, StatusIsStatus, smart.todo # <<>>, CheckReturns,
           Len(wire') <= 2, OneLine(wire'), AsksStatus => NoneWrong(wire')
    PROVE  WireInv' /\ StatusIsStatus'
<1>1. CASE Answered(Status \ {"commlost"}, Head(smart.todo), NoLine)
  <2>1. NoLine.q = "empty"
    BY DEF NoLine
  <2> QED BY <1>1, <2>1, AnsweredWire
<1>2. CASE ~Answered(Status \ {"commlost"}, Head(smart.todo), NoLine)
  <2> DEFINE retry == IF smart.silent THEN smart.retry - 1 ELSE smart.retry
             locked == smart.locked \/ smart.check = "loop"
  <2>1. /\ smart' = [smart EXCEPT !.check = "no", !.silent = FALSE, !.waited = 0,
                                  !.retry = retry, !.locked = locked]
        /\ UNCHANGED origin
    BY <1>2 DEF CheckReturns
  <2>2. smart'.call = smart.call /\ smart'.todo = smart.todo /\ smart'.check = "no"
    <3> HIDE DEF retry, locked
    <3> QED BY <2>1 DEF SmartTypes
  <2> QED BY <2>1, <2>2, AskedWire
<1> QED BY <1>1, <1>2

(* One turn of UPSlinkCheck(): flush, "Y", read.                           *)
LEMMA TurnKeeps ==
    ASSUME OneLate, UpsInv, SmartTypes, WireInv, smart.check # "no",
           NEW f \in Flushed(wire), NEW w \in Sent(f, "Y"), NEW r \in Reads(w)
    PROVE  /\ r.rest \in Seq(Messages) /\ Len(r.rest) <= 2
           /\ AsksStatus => IF smart.silent THEN NoneWrong(r.rest) ELSE NoneBehind(r.rest)
           /\ Resynchronized(r.ans) => OneLine(r.rest) /\ (AsksStatus => NoneWrong(r.rest))
<1>1. wire \in Seq(Messages) /\ Len(wire) <= 2 /\ Len(wire) \in Nat
  BY DEF SmartTypes, WireInv
<1>2. f \in Seq(Messages) /\ NoWorse(f, wire) /\ Len(f) \in Nat
  BY <1>1, FlushedKeeps
<1>3. Len(f) <= 2
  BY <1>1, <1>2 DEF NoWorse
<1>4. /\ w \in Seq(Messages) /\ Len(w) <= 2
      /\ NoneWrong(f) => NoneWrong(w)
      /\ NoneBehind(f) => NoneBehind(w)
  BY <1>2, <1>3, SentKeeps DEF Questions
<1>5. /\ r.rest \in Seq(Messages) /\ Len(r.rest) <= 2 /\ NoWorse(r.rest, w)
      /\ r.ans.q = "Y" => OneLine(r.rest) /\ (NoneBehind(w) => NoneWrong(r.rest))
  BY <1>4, ReadKeeps
<1>6. /\ NoneWrong(wire) => NoneWrong(w) /\ NoneWrong(r.rest)
      /\ NoneBehind(wire) => NoneBehind(w) /\ NoneBehind(r.rest)
  BY <1>2, <1>4, <1>5 DEF NoWorse
<1>7. AsksStatus => IF smart.silent THEN NoneWrong(wire) ELSE NoneBehind(wire)
  BY DEF WireInv
<1> QED BY <1>5, <1>6, <1>7 DEF Resynchronized

LEMMA CheckFirstWire ==
    ASSUME OneLate, UpsInv, SmartTypes, CallRuns, WireInv, StatusIsStatus, SmartCheckFirst
    PROVE  WireInv' /\ StatusIsStatus'
<1>1. PICK f \in Flushed(wire) : \E w \in Sent(f, "Y") : \E r \in Reads(w) :
         /\ wire' = r.rest
         /\ \/ Resynchronized(r.ans) /\ CheckReturns
            \/ /\ smart' = [smart EXCEPT !.check = "loop", !.waited = 0, !.locked = FALSE]
               /\ UNCHANGED origin
            \/ UNCHANGED <<smart, origin>>
  BY DEF SmartCheckFirst
<1>2. PICK w \in Sent(f, "Y") : \E r \in Reads(w) :
         /\ wire' = r.rest
         /\ \/ Resynchronized(r.ans) /\ CheckReturns
            \/ /\ smart' = [smart EXCEPT !.check = "loop", !.waited = 0, !.locked = FALSE]
               /\ UNCHANGED origin
            \/ UNCHANGED <<smart, origin>>
  BY <1>1
<1>3. PICK r \in Reads(w) :
         /\ wire' = r.rest
         /\ \/ Resynchronized(r.ans) /\ CheckReturns
            \/ /\ smart' = [smart EXCEPT !.check = "loop", !.waited = 0, !.locked = FALSE]
               /\ UNCHANGED origin
            \/ UNCHANGED <<smart, origin>>
  BY <1>2
<1>4. smart.check = "first" /\ smart.todo # <<>>
  BY DEF SmartCheckFirst, CallRuns
<1>5. /\ Len(wire') <= 2
      /\ AsksStatus => IF smart.silent THEN NoneWrong(wire') ELSE NoneBehind(wire')
      /\ Resynchronized(r.ans) => OneLine(wire') /\ (AsksStatus => NoneWrong(wire'))
  BY <1>3, <1>4, TurnKeeps
<1>6. CASE Resynchronized(r.ans) /\ CheckReturns
  BY <1>4, <1>5, <1>6, ReturnsWire
<1>7. CASE smart' = [smart EXCEPT !.check = "loop", !.waited = 0, !.locked = FALSE] /\ UNCHANGED origin
  <2>1. /\ smart'.call = smart.call /\ smart'.todo = smart.todo /\ smart'.check = "loop"
        /\ smart'.silent = smart.silent
    BY <1>7 DEF SmartTypes
  <2> QED BY <1>4, <1>5, <1>7, <2>1, AskedWire
<1>8. CASE UNCHANGED <<smart, origin>>
  BY <1>4, <1>5, <1>8, AskedWire
<1> QED BY <1>3, <1>6, <1>7, <1>8

LEMMA CheckLoopWire ==
    ASSUME OneLate, UpsInv, SmartTypes, CallRuns, WireInv, StatusIsStatus, SmartCheckLoop
    PROVE  WireInv' /\ StatusIsStatus'
<1> DEFINE up == link = "up"
<1>1. PICK f \in Flushed(wire) : \E w \in Sent(f, "Y") : \E r \in Reads(w) :
         \/ Resynchronized(r.ans) /\ wire' = r.rest /\ CheckReturns
         \/ wire' = r.rest /\ smart' = [smart EXCEPT !.waited = @ + 1] /\ UNCHANGED origin
         \/ wire' = <<>> /\ smart' = [smart EXCEPT !.fd = up] /\ UNCHANGED origin
  BY DEF SmartCheckLoop
<1>2. PICK w \in Sent(f, "Y") : \E r \in Reads(w) :
         \/ Resynchronized(r.ans) /\ wire' = r.rest /\ CheckReturns
         \/ wire' = r.rest /\ smart' = [smart EXCEPT !.waited = @ + 1] /\ UNCHANGED origin
         \/ wire' = <<>> /\ smart' = [smart EXCEPT !.fd = up] /\ UNCHANGED origin
  BY <1>1
<1>3. PICK r \in Reads(w) :
         \/ Resynchronized(r.ans) /\ wire' = r.rest /\ CheckReturns
         \/ wire' = r.rest /\ smart' = [smart EXCEPT !.waited = @ + 1] /\ UNCHANGED origin
         \/ wire' = <<>> /\ smart' = [smart EXCEPT !.fd = up] /\ UNCHANGED origin
  BY <1>2
<1>4. smart.check = "loop" /\ smart.todo # <<>>
  BY DEF SmartCheckLoop, CallRuns
<1>5. /\ Len(r.rest) <= 2
      /\ AsksStatus => IF smart.silent THEN NoneWrong(r.rest) ELSE NoneBehind(r.rest)
      /\ Resynchronized(r.ans) => OneLine(r.rest) /\ (AsksStatus => NoneWrong(r.rest))
  BY <1>4, TurnKeeps
<1>6. CASE Resynchronized(r.ans) /\ wire' = r.rest /\ CheckReturns
  BY <1>4, <1>5, <1>6, ReturnsWire
<1>7. CASE wire' = r.rest /\ smart' = [smart EXCEPT !.waited = @ + 1] /\ UNCHANGED origin
  <2>1. /\ smart'.call = smart.call /\ smart'.todo = smart.todo /\ smart'.check = "loop"
        /\ smart'.silent = smart.silent
    BY <1>4, <1>7 DEF SmartTypes
  <2> QED BY <1>4, <1>5, <1>7, <2>1, AskedWire
<1>8. CASE wire' = <<>> /\ smart' = [smart EXCEPT !.fd = up] /\ UNCHANGED origin
  <2> HIDE DEF up
  <2>1. /\ smart'.call = smart.call /\ smart'.todo = smart.todo /\ smart'.check = "loop"
        /\ smart'.silent = smart.silent
    BY <1>4, <1>8 DEF SmartTypes
  <2>2. NoneWrong(wire') /\ NoneBehind(wire') /\ Len(wire') <= 2
    BY <1>8 DEF NoneWrong, NoneBehind
  <2> QED BY <1>4, <1>8, <2>1, <2>2, AskedWire
<1> QED BY <1>3, <1>6, <1>7, <1>8

LEMMA OriginStart == Init => OriginInv /\ StatusIsStatus
  BY DEF Init, SmartInit, OriginInv, WireInv, OneLine, AsksStatus, StatusIsStatus

LEMMA SmartOrigin ==
    ASSUME OneLate, UpsInv, SmartInv, WireInv, StatusIsStatus, driver = "apcsmart", SmartNext
    PROVE  WireInv' /\ StatusIsStatus'
<1>0. SmartTypes /\ CallRuns
  BY DEF SmartInv
<1>1. CASE SmartAlert
  <2> DEFINE m == Alert(truth)
  <2>1. m \in Messages /\ m.kind # "line" /\ ~Wrong(m)
    BY DEF Alert, Messages, ApcByte, UpsInv, Wrong
  <2>2. /\ wire \in Seq(Messages) /\ wire' = Append(wire, m) /\ Len(wire) < MaxWire
        /\ UNCHANGED <<smart, origin>>
    BY <1>0, <1>1 DEF SmartAlert, SmartTypes
  <2> HIDE DEF m
  <2>3. /\ Len(wire') = Len(wire) + 1
        /\ OneLine(wire) => OneLine(wire')
        /\ NoneWrong(wire) => NoneWrong(wire')
        /\ NoneBehind(wire) => NoneBehind(wire')
    BY <2>1, <2>2, AppendedIs
  <2>4. Len(wire') <= 2
    <3>1. Len(wire) \in Nat /\ MaxWire \in Nat /\ MaxWire <= 2
      BY <2>2, SmartAssumption DEF OneLate
    <3> QED BY <2>2, <2>3, <3>1
  <2> QED BY <2>2, <2>3, <2>4 DEF WireInv, StatusIsStatus, AsksStatus
<1>2. CASE SmartReadsAlert
  <2>1. wire' = Tail(wire) /\ wire # <<>> /\ UNCHANGED <<smart, origin>> /\ wire \in Seq(Messages)
    BY <1>0, <1>2 DEF SmartReadsAlert, SmartTypes
  <2>2. wire' \in Seq(Messages) /\ NoWorse(wire', wire)
    BY <2>1, TailIs
  <2> QED BY <1>0, <2>1, <2>2, FewerWire
<1>3. CASE SmartOpen
  <2>1. UNCHANGED <<wire, origin>> /\ (smart' = smart \/ smart' = [smart EXCEPT !.fd = TRUE])
    BY <1>3 DEF SmartOpen
  <2>2. /\ smart'.call = smart.call /\ smart'.todo = smart.todo /\ smart'.check = smart.check
        /\ smart'.silent = smart.silent
    BY <1>0, <2>1 DEF SmartTypes
  <2> QED BY <1>0, <2>1, <2>2, FewerWire DEF NoWorse, SmartTypes
<1>4. CASE SmartSetup
  <2>1. CASE UNCHANGED <<smart, wire>>
    BY <1>0, <1>4, <2>1, FewerWire DEF NoWorse, SmartTypes, SmartSetup
  <2>2. CASE wire' \in {<<>>, <<Line("Y")>>} /\ Begin("caps", <<"Q", "B">>, "no")
    <3>1. smart'.call = "caps" /\ smart'.todo = <<"Q", "B">> /\ UNCHANGED origin
      BY <1>0, <1>4, <2>2, BeginIs DEF SmartSetup
    <3> DEFINE m == Line("Y")
    <3>2. wire' \in {<<>>, <<m>>}
      BY <2>2
    <3> HIDE DEF m
    <3>3. Len(wire') <= 2
      BY <3>2
    <3> QED BY <3>1, <3>3 DEF WireInv, StatusIsStatus, AsksStatus
  <2> QED BY <1>4, <2>1, <2>2 DEF SmartSetup
<1>5. CASE SmartRead
  <2> DEFINE todo == IfKnown("Q") \o IfKnown("B") \o <<"Y", "Y">>
  <2>1. \A i \in DOMAIN todo : i > 1 => todo[i] # "Q"
    <3>1. CASE "Q" \in smart.caps /\ "B" \in smart.caps
      BY <3>1 DEF IfKnown
    <3>2. CASE "Q" \in smart.caps /\ "B" \notin smart.caps
      BY <3>2 DEF IfKnown
    <3>3. CASE "Q" \notin smart.caps /\ "B" \in smart.caps
      BY <3>3 DEF IfKnown
    <3>4. CASE "Q" \notin smart.caps /\ "B" \notin smart.caps
      BY <3>4 DEF IfKnown
    <3> QED BY <3>1, <3>2, <3>3, <3>4
  <2>2. todo # <<>>
    <3>1. \A q \in Questions : IfKnown(q) \in Seq(Questions)
      BY DEF IfKnown
    <3>2. IfKnown("Q") \in Seq(Questions) /\ IfKnown("B") \in Seq(Questions)
          /\ <<"Y", "Y">> \in Seq(Questions)
      BY <3>1 DEF Questions
    <3> QED BY <3>2
  <2>3. Begin("volatile", todo, "first") /\ UNCHANGED <<wire, origin>> /\ smart.call = "none"
    BY <1>5 DEF SmartRead, VolatileCheck
  <2> HIDE DEF todo
  <2>4. smart'.call = "volatile" /\ smart'.check = "first" /\ smart'.todo = todo /\ smart'.silent = FALSE
    <3>1. smart'.call = "volatile" /\ smart'.check = "first" /\ smart'.todo = todo
      BY <1>0, <2>3, BeginIs
    <3>2. smart'.silent = FALSE
      BY <1>0, <2>3 DEF Begin, SmartTypes
    <3> QED BY <3>1, <3>2
  <2>5. OneLine(wire)
    BY <1>0, <2>3 DEF CallRuns, WireInv
  <2>6. NoneBehind(wire)
    <3>1. \A i, j \in DOMAIN wire : i < j => i # j
      BY <1>0 DEF SmartTypes
    <3> QED BY <2>5, <3>1 DEF OneLine, NoneBehind, Wrong, Entire
  <2> QED BY <2>1, <2>2, <2>3, <2>4, <2>6 DEF WireInv, StatusIsStatus, AsksStatus, NoneBehind
<1>6. CASE SmartSelfTest
  <2>1. Begin("selftest", <<"G">>, "no") /\ UNCHANGED <<wire, origin>>
    BY <1>6 DEF SmartSelfTest
  <2>2. smart'.call = "selftest" /\ smart'.todo = <<"G">>
    BY <1>0, <2>1, BeginIs
  <2> QED BY <2>1, <2>2 DEF WireInv, StatusIsStatus, AsksStatus
<1>7. CASE SmartReturn
  <2>1. UNCHANGED <<wire, origin>> /\ smart.todo = <<>>
    BY <1>7 DEF SmartReturn
  <2>2. CASE Begin("static", <<"S">>, "no")
    <3>1. smart'.call = "static" /\ smart'.todo = <<"S">>
      BY <1>0, <2>2, BeginIs
    <3> QED BY <2>1, <3>1 DEF WireInv, StatusIsStatus, AsksStatus
  <2>3. CASE smart' = [smart EXCEPT !.call = "none", !.locked = FALSE]
    <3>1. smart'.call = "none" /\ smart'.todo = <<>>
      BY <1>0, <2>1, <2>3 DEF SmartTypes
    <3> QED BY <2>1, <3>1 DEF WireInv, StatusIsStatus, AsksStatus
  <2> QED BY <1>7, <2>2, <2>3 DEF SmartReturn
<1>8. CASE SmartCheck
  <2>1. PICK k \in 0..Len(wire) : wire' = SubSeq(wire, k + 1, Len(wire))
    BY <1>8 DEF SmartCheck
  <2>2. k + 1 \in 1..(Len(wire) + 1) /\ wire \in Seq(Messages)
    BY <1>0 DEF SmartTypes
  <2>3. wire' \in Seq(Messages) /\ NoWorse(wire', wire)
    BY <2>1, <2>2, SuffixIs
  <2> QED BY <1>0, <1>8, <2>3, FewerWire DEF SmartCheck
<1>9. CASE SmartKill
  BY <1>0, <1>9, FewerWire DEF SmartKill, smartVars, NoWorse, SmartTypes
<1>10. CASE SmartClose
  <2>1. wire' = <<>> /\ UNCHANGED origin /\ smart' = [smart EXCEPT !.fd = FALSE]
    BY <1>10 DEF SmartClose
  <2>2. /\ smart'.call = smart.call /\ smart'.todo = smart.todo
    BY <1>0, <2>1 DEF SmartTypes
  <2> QED BY <2>1, <2>2 DEF WireInv, StatusIsStatus, AsksStatus, OneLine, NoneWrong, NoneBehind
<1> QED BY <1>0, <1>1, <1>2, <1>3, <1>4, <1>5, <1>6, <1>7, <1>8, <1>9, <1>10,
           PollWire, CheckFirstWire, CheckLoopWire DEF SmartNext

LEMMA OriginStep ==
    ASSUME OneLate, DriversInv, OriginInv, StatusIsStatus, [Next]_vars
    PROVE  OriginInv' /\ StatusIsStatus'
<1>1. CASE UNCHANGED smartVars /\ (driver' \in {"none", "apcsmart"} => driver \in {"none", "apcsmart"})
  BY <1>1 DEF smartVars, OriginInv, WireInv, AsksStatus, StatusIsStatus
<1>2. CASE UNCHANGED smartVars /\ driver' \notin {"none", "apcsmart"}
  BY <1>2 DEF smartVars, OriginInv, StatusIsStatus
<1>3. CASE UNCHANGED vars
  BY <1>1, <1>3 DEF vars, upsVars, driverVars
<1>4. CASE Attach \/ Weather \/ Daemon
  <2>1. UNCHANGED smartVars
    BY <1>4 DEF Attach, Weather, Daemon, driverVars
  <2>2. driver' \in {"none", "apcsmart"} => driver \in {"none", "apcsmart"}
    BY <1>4, DaemonSteps DEF Attach, attach_driver, Weather, World, Running, DriversInv, UpsInv
  <2> QED BY <1>1, <2>1, <2>2
<1>5. CASE Smart
  <2>1. driver = "apcsmart" /\ SmartNext
    BY <1>5, SmartCalls DEF Smart, Call
  <2> QED BY <2>1, SmartOrigin DEF DriversInv, OriginInv
<1>6. CASE Dumb \/ Test \/ Net \/ Pcnet \/ Snmp \/ Usb
  <2>1. UNCHANGED smartVars
    BY <1>6 DEF Dumb, Test, Net, Pcnet, Snmp, Usb, driverVars
  <2>2. driver' \notin {"none", "apcsmart"}
    BY <1>6, DumbCalls, TestCalls, NetCalls, PcnetCalls, SnmpCalls, UsbCalls
       DEF Dumb, Test, Net, Pcnet, Snmp, Usb, Call
  <2> QED BY <1>2, <2>1, <2>2
<1> QED BY <1>3, <1>4, <1>5, <1>6 DEF Next

(* A smart UPS that is late with one answer at a time never makes the      *)
(* driver take a measurement or a setting for the status, for every number *)
(* of retries: UPSlinkCheck() before each status brings the two back into  *)
(* step.                                                                   *)
THEOREM StatusAlwaysStatus == ASSUME OneLate PROVE Spec => []StatusIsStatus
<1>1. Init => OriginInv /\ StatusIsStatus
  BY OriginStart
<1>2. DriversInv /\ OriginInv /\ StatusIsStatus /\ [Next]_vars => OriginInv' /\ StatusIsStatus'
  BY OriginStep
<1> QED BY <1>1, <1>2, DriversAlways, PTL DEF Spec

---------------------------------------------------------------------------
(* Each driver behaves.                                                    *)
LEMMA DumbBehaves == ASSUME DumbNext PROVE Behaves
<1>1. KeepsDaemonBits
  <2>1. \A in : \A b \in DaemonBits : b \in DumbStatus(in) <=> b \in Status
    BY DEF DumbStatus, SetTo, set_online, clear_online, DaemonBits
  <2>2. CASE DumbRead \/ DumbHibernate
    <3>1. Status' = DumbStatus(InputLines(cable, truth))
      BY <2>2 DEF DumbRead, DumbHibernate
    <3> QED BY <2>1, <3>1 DEF KeepsDaemonBits
  <2>3. CASE DumbOpen
    BY <2>3 DEF DumbOpen, OpenSucceeds, KeepsDaemonBits, DaemonBits
  <2>4. CASE DumbSetup \/ DumbDtrEnable \/ DumbKill \/ DumbClose
    <3>1. UNCHANGED Status
      BY <2>4 DEF DumbSetup, DumbDtrEnable, DumbKill, DumbClose
    <3> QED BY <3>1 DEF KeepsDaemonBits
  <2> QED BY <2>2, <2>3, <2>4 DEF DumbNext
<1>2. LinkStep
  BY DEF DumbNext, DumbOpen, DumbSetup, DumbRead, DumbDtrEnable, DumbHibernate, DumbKill,
         DumbClose, OpenSucceeds, SetupDone, Hibernate, KillDone, Abort, LinkStep
<1>3. Survives
  BY DEF DumbNext, DumbOpen, DumbSetup, DumbRead, DumbDtrEnable, DumbHibernate, DumbKill,
         DumbClose, Survives
<1> QED BY <1>1, <1>2, <1>3 DEF Behaves

LEMMA TestBehaves == ASSUME TestNext PROVE LinkStep /\ Survives
  BY DEF TestNext, TestOpen, TestSetup, TestRead, TestCheck, TestKill, TestClose,
         Abort, OpenSucceeds, SetupDone, KillDone, LinkStep, Survives

LEMMA PcnetBehaves == ASSUME PcnetInv, PcnetNext PROVE Behaves
<1> USE DEF PcnetNext, PcnetBroadcast, PcnetForeign, PcnetSkips, PcnetOpen, PcnetSetup,
            PcnetRead, PcnetCheck, PcnetSelfTestMsg, PcnetTime, PcnetKill, PcnetClose
<1>1. KeepsDaemonBits
  <2>1. driver = "pcnet"
    OBVIOUS
  <2>2. CASE WaitForData
    BY <2>1, <2>2, DataWaited DEF KeepsDaemonBits
  <2>3. CASE UNCHANGED Status \/ Status' = SetTo(Status, "commlost", Overdue) \/ OpenSucceeds(Status)
    BY <2>3 DEF SetTo, OpenSucceeds, KeepsDaemonBits, DaemonBits
  <2> QED BY <2>2, <2>3
<1>2. LinkStep
  <2>1. CASE PcnetRead
    <3>1. CASE Overdue = ("commlost" \in Status)
      BY <2>1, <3>1 DEF LinkStep
    <3>2. CASE Overdue /\ "commlost" \notin Status
      BY <2>1, <3>2 DEF LinkStep, PcnetInv
    <3>3. CASE ~Overdue /\ "commlost" \in Status
      BY <2>1, <3>3 DEF LinkStep
    <3> QED BY <3>1, <3>2, <3>3 DEF Overdue
  <2>2. CASE ~PcnetRead
    BY <2>2 DEF Abort, OpenSucceeds, SetupDone, KillDone, LinkStep
  <2> QED BY <2>1, <2>2
<1>3. Survives
  BY DEF Survives
<1> QED BY <1>1, <1>2, <1>3 DEF Behaves

LEMMA SnmpBehaves == ASSUME SnmpInv, Running, SnmpNext PROVE Behaves
<1> USE DEF SnmpNext, SnmpOpen, SnmpSetup, SnmpReadOk, SnmpReadFails, SnmpCheck,
            SnmpSelfTest, SnmpKill, SnmpClose
<1>1. KeepsDaemonBits
  <2>1. CASE SnmpReadOk \/ SnmpSelfTest
    <3>1. mib \in {"APC", "RFC", "MGE"}
      BY <2>1 DEF SnmpInv
    <3>2. Status' = Status \/ \E r : Status' \in {StatusAfter(r), StatusAfter(r) \ {"commlost"}}
      BY <2>1
    <3> QED BY <3>1, <3>2, StatusUpdated DEF KeepsDaemonBits, DaemonBits
  <2>2. CASE ~(SnmpReadOk \/ SnmpSelfTest)
    <3>1. Status' \in {Status, Status \ {"commlost"}, Status \cup {"commlost"}}
      BY <2>2 DEF OpenSucceeds
    <3> QED BY <3>1 DEF KeepsDaemonBits, DaemonBits
  <2> QED BY <2>1, <2>2
<1>2. LinkStep
  BY DEF Abort, OpenSucceeds, SetupDone, KillDone, LinkStep, SnmpInv
<1>3. Survives
  BY DEF Survives
<1> QED BY <1>1, <1>2, <1>3 DEF Behaves

LEMMA UsbBehaves ==
    ASSUME UsbInv, UpsInv, Running, UsbNext
    PROVE  LinkStep /\ KeepsDaemonBits /\ (Survives \/ platform = "linux")
<1> USE DEF UsbNext, UsbOpen, UsbSetup, UsbRead, UsbReport, UsbTimeout, UsbLost, UsbLostSay,
            UsbRelink, UsbKill, UsbClose, TakeReport
<1>1. KeepsDaemonBits
  <2>1. \A b \in DaemonBits : b \notin ApcByte
    BY DEF DaemonBits, ApcByte
  <2>2. \A s, there : \A b \in DaemonBits : b \in BatteryPresent(s, there) <=> b \in s
    BY DEF BatteryPresent, DaemonBits
  <2>3. CASE UsbRead
    <3>1. CASE Throttled /\ UNCHANGED <<Status, usb>>
      BY <3>1 DEF KeepsDaemonBits
    <3>2. CASE ~Throttled
      <4>1. PICK v, there : Values(v) /\ TakePoll(v, there)
        BY <2>3, <3>2, PollTaken DEF UsbInv, UsbTypes
      <4> DEFINE mid == Status \ ApcByte
      <4>2. Status' \in {Polled(mid, v), BatteryPresent(Polled(mid, v), there)}
        BY <4>1 DEF TakePoll
      <4>3. \A b \in DaemonBits : b \in mid <=> b \in Status
        BY <2>1
      <4> HIDE DEF mid
      <4>4. \A b \in DaemonBits : b \in Polled(mid, v) <=> b \in mid
        BY <4>1, UsbPolledIs DEF Kept
      <4> QED BY <2>2, <4>2, <4>3, <4>4 DEF KeepsDaemonBits
    <3> QED BY <2>3, <3>1, <3>2
  <2>4. CASE UsbReport
    <3>1. PICK cis \in Events : \E v, t, s :
            v = [i \in cis |-> ValueOf(i, t)] /\ t = truth /\ s = Status /\ TakeReport(v)
      BY <2>4, ReportTaken
    <3>2. PICK v, t, s : /\ v = [i \in cis |-> ValueOf(i, t)] /\ t = truth
                         /\ s = Status /\ TakeReport(v)
      BY <3>1
    <3>3. cis \in SUBSET Items
      BY <2>4, EventsAre DEF UsbInv
    <3>4. t \in SUBSET {"onbatt", "battlow", "replacebatt"}
      BY <3>2 DEF UpsInv
    <3> HIDE DEF UsbNext, UsbReport
    <3>5. \A b \in Kept : b \in Reported(s, v) <=> b \in s
      BY <3>2, <3>3, <3>4, ReportedIs
    <3> QED BY <3>2, <3>5 DEF KeepsDaemonBits, Kept, TakeReport
  <2>5. CASE ~(UsbRead \/ UsbReport)
    <3>1. Status' \in {Status, Status \ {"commlost"}, Status \cup {"commlost"},
                      (Status \ {"slave"}) \ {"commlost"}}
      BY <2>5 DEF OpenSucceeds, OpenFails, KillDone
    <3> QED BY <3>1 DEF KeepsDaemonBits, DaemonBits
  <2> QED BY <2>3, <2>4, <2>5
<1>2. LinkStep
  <2>1. CASE UsbLostSay
    <3>1. ~told
      BY <2>1 DEF UsbInv, Running
    <3> QED BY <2>1, <3>1 DEF LinkStep
  <2>2. CASE UsbRelink
    <3>1. SayOk => "commlost" \in Status
      BY <2>2 DEF UsbInv
    <3> QED BY <2>2, <3>1 DEF LinkStep, Abort
  <2>3. CASE ~(UsbLostSay \/ UsbRelink)
    BY <2>3 DEF Abort, OpenFails, OpenSucceeds, SetupDone, KillDone, LinkStep
  <2> QED BY <2>1, <2>2, <2>3
<1>3. Survives \/ platform = "linux"
  BY DEF Survives, KillDone
<1> QED BY <1>1, <1>2, <1>3

LEMMA NetBehaves == ASSUME UpsInv, NetInv, NetNext PROVE Behaves
<1> USE DEF NetNext
<1>1. KeepsDaemonBits
  <2>1. \A n, t, b : Left(n, t) /\ b \in DaemonBits => (b \in Status' <=> b \in t)
    BY DEF Left, SetTo, DaemonBits
  <2>2. \A n, t, ok, b : TakeFlag(n, t, ok) /\ b \in DaemonBits => (b \in Status' <=> b \in t)
    <3> SUFFICES ASSUME NEW n, NEW t, NEW ok, NEW b \in DaemonBits, TakeFlag(n, t, ok)
                 PROVE  b \in Status' <=> b \in t
      OBVIOUS
    <3> DEFINE x == TakenStatus(SetTo(t, "commlost", n.lost), n)
    <3>1. b \in x <=> b \in t
      BY DEF TakenStatus, SetTo, LocalBits, DaemonBits
    <3>2. \E m : Left(m, x) \/ Left(m, x \cup {"shut_remote"})
      BY DEF TakeFlag
    <3> HIDE DEF x
    <3> QED BY <2>1, <3>1, <3>2 DEF DaemonBits
  <2>3. CASE NetRead
    <3>1. \E n : \/ Left(n, Status) \/ Left(n, Status \cup {"slave"})
                 \/ TakeFlag(n, Status \cup {"slave"}, TRUE)
      BY <2>3 DEF NetRead
    <3> QED BY <2>1, <2>2, <3>1, ZenonT(30) DEF KeepsDaemonBits, DaemonBits
  <2>4. CASE NetCheck
    <3>1. \E n, ok : Left(n, Status) \/ TakeFlag(n, Status, ok)
      BY <2>4 DEF NetCheck
    <3> QED BY <2>1, <2>2, <3>1 DEF KeepsDaemonBits
  <2>5. CASE NetSetup
    <3>1. \E n : Left(n, Status)
      BY <2>5 DEF NetSetup
    <3> QED BY <2>1, <3>1 DEF KeepsDaemonBits
  <2>6. CASE NetOpen
    BY <2>6 DEF NetOpen, OpenSucceeds, KeepsDaemonBits, DaemonBits
  <2>7. CASE NetTime \/ NetMaster \/ NetKill \/ NetClose
    <3>1. UNCHANGED Status
      BY <2>7 DEF NetTime, NetMaster, NetKill, NetClose
    <3> QED BY <3>1 DEF KeepsDaemonBits
  <2> QED BY <2>3, <2>4, <2>5, <2>6, <2>7
<1>2. LinkStep
  <2>1. CASE NetRead \/ NetCheck
    <3>1. driver = "net"
      BY <2>1 DEF NetRead, NetCheck
    <3> QED BY <2>1, <3>1, NetReads, NetChecks
  <2>2. CASE ~(NetRead \/ NetCheck)
    BY <2>2 DEF NetOpen, NetSetup, NetTime, NetMaster, NetKill, NetClose,
               Abort, OpenSucceeds, SetupDone, KillDone, LinkStep
  <2> QED BY <2>1, <2>2
<1>3. Survives
  BY DEF NetOpen, NetSetup, NetRead, NetCheck, NetTime, NetMaster, NetKill, NetClose, Survives
<1> QED BY <1>1, <1>2, <1>3 DEF Behaves

LEMMA SmartBehaves == ASSUME UpsInv, SmartInv, Running, SmartNext PROVE Behaves
<1>1. SmartTypes /\ CallRuns /\ driver = "apcsmart"
  BY SmartCalls DEF SmartInv, Call
<1>2. CASE SmartReadsAlert \/ SmartCheck
  <2>1. KeepsDaemonBits
    BY <1>2, AlertedIs DEF SmartReadsAlert, SmartCheck, KeepsDaemonBits, Others
  <2> QED BY <1>2, <2>1 DEF SmartReadsAlert, SmartCheck, Behaves, LinkStep, Survives
<1>3. CASE SmartPoll
  <2>1. KeepsDaemonBits
    <3>1. CASE \E a \in Messages : Answered(Status, Head(smart.todo), a)
      BY <1>1, <1>3, <3>1, PolledIs, AnsweredIs DEF SmartPoll, KeepsDaemonBits, Others
    <3>2. CASE UNCHANGED Status
      BY <3>2 DEF KeepsDaemonBits
    <3> QED BY <1>1, <1>3, <3>1, <3>2, PolledIs
  <2> QED BY <1>3, <2>1 DEF SmartPoll, Behaves, LinkStep, Survives
<1>4. CASE SmartCheckFirst
  <2>1. CheckReturns \/ UNCHANGED Status
    BY <1>4 DEF SmartCheckFirst
  <2>2. KeepsDaemonBits
    BY <1>1, <1>4, <2>1, CheckReturnsIs DEF SmartCheckFirst, CallRuns, KeepsDaemonBits, Others, DaemonBits
  <2>3. Silent /\ (phase' = "aborted" => ~smart.locked \/ phase = "aborted")
    BY <1>4 DEF SmartCheckFirst, Abort
  <2>4. Survives
    BY <1>1, <1>4, <2>3 DEF SmartCheckFirst, CallRuns, Calls, Survives
  <2> QED BY <2>2, <2>3, <2>4 DEF Behaves, LinkStep
<1>5. CASE SmartCheckLoop
  <2>1. CheckReturns \/ Status' \in {Status, Status \cup {"commlost"}}
    BY <1>5 DEF SmartCheckLoop
  <2>2. KeepsDaemonBits
    BY <1>1, <1>5, <2>1, CheckReturnsIs DEF SmartCheckLoop, CallRuns, KeepsDaemonBits, Others, DaemonBits
  <2>3. LinkStep
    BY <1>1, <1>5 DEF SmartCheckLoop, SmartInv, LinkStep
  <2> QED BY <1>5, <2>2, <2>3 DEF SmartCheckLoop, Behaves, Survives
<1>6. CASE SmartOpen
  <2>1. KeepsDaemonBits
    BY <1>6 DEF SmartOpen, OpenFails, OpenSucceeds, KeepsDaemonBits, DaemonBits
  <2> QED BY <1>6, <2>1 DEF SmartOpen, OpenFails, OpenSucceeds, Abort, Behaves, LinkStep, Survives
<1>7. CASE \/ SmartAlert \/ SmartSetup \/ SmartRead \/ SmartSelfTest \/ SmartReturn
           \/ SmartKill \/ SmartClose
  <2>1. KeepsDaemonBits
    BY <1>7 DEF SmartAlert, SmartSetup, SmartRead, SmartSelfTest, SmartReturn, SmartKill, SmartClose,
               KeepsDaemonBits
  <2>2. LinkStep
    BY <1>7 DEF SmartAlert, SmartSetup, SmartRead, SmartSelfTest, SmartReturn, SmartKill, SmartClose,
               Abort, SetupDone, KillDone, LinkStep
  <2>3. Survives
    BY <1>1, <1>7 DEF SmartAlert, SmartSetup, SmartRead, SmartSelfTest, SmartReturn, SmartKill, SmartClose,
               KillDone, SetupDone, Abort, CallRuns, Calls, Survives
  <2> QED BY <2>1, <2>2, <2>3 DEF Behaves
<1> QED BY <1>2, <1>3, <1>4, <1>5, <1>6, <1>7 DEF SmartNext

(* The daemon's own steps behave, but for its bits, and so does the world. *)
LEMMA RestBehaves ==
    ASSUME Attach \/ Weather \/ Daemon
    PROVE  LinkStep /\ Survives /\ (phase # "act" => KeepsDaemonBits)
<1>1. CASE Attach
  BY <1>1 DEF Attach, attach_driver, Abort, LinkStep, Survives, KeepsDaemonBits
<1>2. CASE Weather
  BY <1>2 DEF Weather, World, LinkStep, Survives, KeepsDaemonBits
<1>3. CASE Daemon
  <2>1. phase # "act" => KeepsDaemonBits
    BY <1>3 DEF Daemon, do_action, initiate_hibernate, Terminate, KeepsDaemonBits
  <2> QED BY <1>3, <2>1, DaemonSteps DEF LinkStep, Survives
<1> QED BY <1>1, <1>2, <1>3

LEMMA AllBehave ==
    ASSUME DriversInv, Next
    PROVE  /\ LinkStep
           /\ phase # "act" /\ driver # "test" => KeepsDaemonBits
           /\ Survives \/ (driver = "usb" /\ platform = "linux")
<1> USE DEF DriversInv
<1>1. Running
  BY DEF Next
<1>2. CASE Attach \/ Weather \/ Daemon
  BY <1>2, RestBehaves
<1>3. CASE Test
  BY <1>3, TestBehaves, TestCalls DEF Test, Call
<1>4. CASE Usb
  BY <1>1, <1>4, UsbBehaves, UsbCalls DEF Usb, Call
<1>5. CASE Dumb \/ Net \/ Pcnet \/ Snmp \/ Smart
  <2>1. Behaves
    BY <1>1, <1>5, DumbBehaves, NetBehaves, PcnetBehaves, SnmpBehaves, SmartBehaves
       DEF Dumb, Net, Pcnet, Snmp, Smart
  <2> QED BY <2>1 DEF Behaves
<1> QED BY <1>2, <1>3, <1>4, <1>5 DEF Next

(* What do_action() wrote into the status survives every call of every     *)
(* driver but the test driver, whatever the UPS or a master sends.         *)
THEOREM DaemonBitsAlwaysKept == Spec => DaemonBitsKept
<1>1. DriversInv /\ [Next]_vars => [phase # "act" /\ driver # "test"
          => Status' \cap DaemonBits = Status \cap DaemonBits]_vars
  BY AllBehave DEF KeepsDaemonBits
<1> QED BY <1>1, DriversAlways, PTL DEF Spec, DaemonBitsKept

(* No driver ends a daemon that monitors because its UPS is lost, except   *)
(* that of a USB device under Linux.                                       *)
THEOREM LossAlwaysSurvived == Spec => LossIsSurvived
<1>1. DriversInv /\ [Next]_vars => [phase' = "aborted" /\ phase \in {"fill", "check"}
          => driver = "usb" /\ platform = "linux"]_vars
  BY AllBehave DEF Survives
<1> QED BY <1>1, DriversAlways, PTL DEF Spec, LossIsSurvived

(* A PCNET status is never replaced by an older one, nor, with a password, *)
(* by that of another card.                                                *)
THEOREM StatusAlwaysNewer == Spec => StatusNeverOlder
<1>1. DriversInv /\ [Next]_vars =>
        [shown' # shown =>
          /\ shown' > shown
          /\ auth => \E p \in packets : p.stamp = shown' /\ p.ours]_<<upsVars, pcnetVars>>
  <2> SUFFICES ASSUME DriversInv, [Next]_vars, shown' # shown
               PROVE  /\ shown' > shown
                      /\ auth => \E p \in packets : p.stamp = shown' /\ p.ours
    OBVIOUS
  <2>1. CASE Pcnet
    BY <2>1, StatusFromNewer DEF DriversInv
  <2>2. CASE ~Pcnet
    BY <2>2, DaemonSteps DEF Next, Attach, Weather, Dumb, Test, Net, Snmp, Smart, Usb,
                             driverVars, pcnetVars, vars
  <2> QED BY <2>1, <2>2
<1> QED BY <1>1, DriversAlways, PTL DEF Spec, StatusNeverOlder

(* A failure that was announced has left its bit, whichever driver it is.  *)
ToldLost == told => "commlost" \in Status

LEMMA ToldLostStep ==
    ASSUME DriversInv, DriversInv', ToldLost, [Next]_vars
    PROVE  ToldLost'
<1> USE DEF ToldLost, DriversInv
<1>1. CASE UNCHANGED vars \/ Attach \/ Weather
  BY <1>1 DEF vars, upsVars, Attach, attach_driver, Abort, Weather, World, Silent
<1>2. CASE Daemon
  <2>1. told' = told /\ ("commlost" \in Status' <=> "commlost" \in Status)
    BY <1>2, DaemonSteps DEF Silent, DaemonBits
  <2> QED BY <2>1
<1>3. CASE Dumb \/ Test \/ Net
  BY <1>3, DumbCalls, TestCalls, NetCalls DEF Dumb, Test, Net, Call, DumbInv, TestInv, NetInv
<1>4. CASE Pcnet \/ Snmp
  BY <1>4, PcnetCalls, SnmpCalls DEF Pcnet, Snmp, Call, PcnetInv, SnmpInv
<1>5. CASE Smart \/ Usb
  BY <1>5, SmartCalls, UsbCalls DEF Smart, Usb, Call, SmartInv, UsbInv
<1> QED BY <1>1, <1>2, <1>3, <1>4, <1>5 DEF Next

LEMMA ToldLostAlways == Spec => []ToldLost
<1>1. Init => ToldLost
  BY Zenon DEF Init, UpsInit, ToldLost
<1> QED BY <1>1, DriversAlways, ToldLostStep, PTL DEF Spec

(* Every driver's communication events are those of LinkReport: a loss is  *)
(* announced at most once, and the bit of a loss that was announced is     *)
(* cleared with CMDCOMMOK only.                                            *)
LEMMA LinkStepImplements ==
    ASSUME told \in BOOLEAN, ToldLost, ToldLost', LinkStep
    PROVE  Report!Next
<1> DEFINE lost  == "commlost" \in Status
           lostp == "commlost" \in Status'
<1> USE DEF ToldLost, Report!Next, Report!Quiet, Report!Notice, Report!Fail, Report!Regain,
            Report!Ok
<1>1. lost \in BOOLEAN /\ lostp \in BOOLEAN
  OBVIOUS
<1> HIDE DEF Report!Next
<1>2. CASE Silent
  <2>1. told' = told /\ news' = "none"
    BY <1>2 DEF Silent
  <2> QED BY <2>1 DEF Report!Next
<1>3. CASE SayFailure /\ ~told
  BY <1>3 DEF SayFailure, Report!Next
<1>4. CASE SayOk /\ (told \/ lost)
  BY <1>4 DEF SayOk, Report!Next
<1> QED BY <1>2, <1>3, <1>4 DEF LinkStep

THEOREM LinkReportImplemented == Spec => ImplementsLinkReport
<1>1. ASSUME Init PROVE Report!Init
  <2>1. ("commlost" \in Status) = FALSE
    BY <1>1 DEF Init, UpsInit
  <2>2. told = FALSE /\ news = "none"
    BY <1>1, Zenon DEF Init, UpsInit
  <2> QED BY <2>1, <2>2, Zenon DEF Report!Init
<1>2. DriversInv /\ ToldLost /\ ToldLost' /\ [Next]_vars
        => [Report!Next]_<<"commlost" \in Status, told, news>>
  <2>1. CASE UNCHANGED vars
    BY <2>1 DEF vars, upsVars
  <2>2. ASSUME DriversInv, ToldLost, ToldLost', Next PROVE Report!Next
    BY <2>2, AllBehave, LinkStepImplements DEF DriversInv, UpsInv
  <2> QED BY <2>1, <2>2
<1> QED BY <1>1, <1>2, DriversAlways, ToldLostAlways, PTL
        DEF Spec, ImplementsLinkReport, Report!Spec
=============================================================================
