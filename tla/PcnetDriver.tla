----------------------------- MODULE PcnetDriver -----------------------------
(***************************************************************************)
(* The PCNET driver of src/drivers/pcnet/pcnet.c: the network card of the  *)
(* UPS broadcasts its state every 25 s in datagrams that may be lost,      *)
(* duplicated and reordered, and come from anyone unless a password is     *)
(* configured.                                                             *)
(***************************************************************************)
EXTENDS UpsDriver

CONSTANTS
    MaxStamp,           \* bound: broadcasts of the card
    COMMLOST_TIMEOUT    \* 55 s in the code; here in periods between broadcasts

ASSUME PcnetAssumption == MaxStamp \in Nat /\ COMMLOST_TIMEOUT \in Nat \ {0}

VARIABLES
    auth,               \* _auth: DEVICE gives address, user and password
    stamp,              \* the card's reboots and uptime, as one number
    packets,            \* the broadcasts, which the network delivers at will
    seen,               \* _reboots and _uptime
    idle,               \* time(NULL) - _datatime, up to COMMLOST_TIMEOUT
    shown               \* history: the stamp of the packet the status is from

pcnetVars == <<auth, stamp, packets, seen, idle, shown>>

(* A broadcast: its stamp, whether the password signs it, and its keys:    *)
(* the status, the shutdown order "SD", or none the driver knows.          *)
Packet(n, ours, t, keys) == [stamp |-> n, ours |-> ours, bits |-> ByteOf(t), keys |-> keys]
Keys == {{}, {"status", "SD=0"}, {"status", "SD=1"}}

PcnetInit ==
    /\ auth \in BOOLEAN
    /\ stamp = 0 /\ packets = {} /\ seen = 0 /\ idle = 0 /\ shown = 0

(* The card broadcasts its state; another card on the network, with stamps *)
(* of its own, broadcasts, too.                                            *)
PcnetBroadcast ==
    /\ driver = "pcnet" /\ phase \in {"setup", "check"}
    /\ link = "up" /\ stamp < MaxStamp
    /\ stamp' = stamp + 1
    /\ \E keys \in Keys : packets' = packets \cup {Packet(stamp + 1, TRUE, truth, keys)}
    /\ Silent
    /\ UNCHANGED <<driver, phase, Status, tries, options, truth, link, auth, seen, idle, shown>>

PcnetForeign ==
    /\ driver = "pcnet" /\ phase \in {"setup", "check"}
    /\ \A p \in packets : p.ours
    /\ \E n \in 1..MaxStamp, t \in Truths :
         packets' = packets \cup {Packet(n, FALSE, t, {"status", "SD=0"})}
    /\ Silent
    /\ UNCHANGED <<driver, phase, Status, tries, options, truth, link, auth, stamp, seen,
                   idle, shown>>

(* auth_and_map_packet(): signed by us, and newer than all before.         *)
Accepts_replay(p) == auth => p.ours            \* mutant: an old packet will do
Accepts(p) == (auth => p.ours) /\ p.stamp > seen

(* pcnet_process_data(), for the keys of an accepted packet.               *)
Processed(p) ==
    LET s == IF "status" \in p.keys THEN (Status \ ApcByte) \cup p.bits ELSE Status
    IN IF "SD=1" \in p.keys THEN s \cup {"shut_remote"}
       ELSE IF "SD=0" \in p.keys THEN s \ {"shut_remote"} ELSE s

(* wait_for_data(): one packet that is accepted and has a key we know, or  *)
(* nothing until the time is over.  Packets are looked at one after the    *)
(* other, so that one without a known key only moves _uptime on.           *)
WaitForData ==
    \/ \E p \in packets :
         /\ Accepts(p) /\ p.keys # {}
         /\ seen' = p.stamp /\ shown' = p.stamp
         /\ Status' = Processed(p)
         /\ idle' = 0
    \/ UNCHANGED <<seen, shown, Status, idle>>

PcnetSkips ==
    /\ driver = "pcnet" /\ phase \in {"setup", "check"}
    /\ \E p \in packets : Accepts(p) /\ p.keys = {} /\ seen' = p.stamp
    /\ Silent
    /\ UNCHANGED <<driver, phase, Status, tries, options, truth, link, auth, stamp,
                   packets, idle, shown>>

---------------------------------------------------------------------------
(* Open(): a malformed DEVICE or a port that is taken ends the program.    *)
PcnetOpen ==
    /\ driver = "pcnet" /\ phase = "open"
    /\ \/ Abort /\ UNCHANGED <<Status, tries, idle>>
       \/ OpenSucceeds(Status) /\ idle' = 0
    /\ UNCHANGED <<driver, options, truth, link, auth, stamp, packets, seen, shown>>

(* get_capabilities() waits for a first packet; it has failed without one  *)
(* that has a status.                                                      *)
PcnetSetup ==
    /\ driver = "pcnet" /\ phase = "setup"
    /\ WaitForData
    /\ SetupDone(shown' > 0)
    /\ UNCHANGED <<driver, tries, options, truth, link, auth, stamp, packets>>

(* read_volatile_data() looks at the clock only.                           *)
Overdue == idle >= COMMLOST_TIMEOUT
PcnetRead ==
    /\ driver = "pcnet" /\ phase = "fill"
    /\ Status' = SetTo(Status, "commlost", Overdue)
    /\ IF Overdue = ("commlost" \in Status) THEN Silent
       ELSE IF Overdue THEN SayFailure ELSE SayOk
    /\ phase' = "act"
    /\ UNCHANGED <<driver, tries, options, truth, link, pcnetVars>>

PcnetCheck ==
    /\ driver = "pcnet" /\ phase = "check"
    /\ WaitForData
    /\ phase' = "fill" /\ Silent
    /\ UNCHANGED <<driver, tries, options, truth, link, auth, stamp, packets>>

(* entry_point(DEVICE_CMD_GET_SELFTEST_MSG) gives the lock away and waits  *)
(* for data in the middle of do_action().                                  *)
PcnetSelfTestMsg ==
    /\ driver = "pcnet" /\ phase = "act"
    /\ WaitForData
    /\ Silent
    /\ UNCHANGED <<driver, phase, tries, options, truth, link, auth, stamp, packets>>

PcnetTime ==
    /\ driver = "pcnet" /\ phase \in {"setup", "fill", "check"}
    /\ idle < COMMLOST_TIMEOUT
    /\ idle' = idle + 1
    /\ Silent
    /\ UNCHANGED <<driver, phase, Status, tries, options, truth, link, auth, stamp,
                   packets, seen, shown>>

(* kill_power(): the page of the card with its challenge must be newer     *)
(* than the last broadcast that was taken; without a password the program  *)
(* ends.                                                                   *)
PcnetKill ==
    /\ driver = "pcnet" /\ phase = "kill"
    /\ \/ ~auth /\ Abort /\ UNCHANGED seen
       \/ auth /\ KillDone /\ seen' = IF link = "up" /\ stamp > seen THEN stamp ELSE seen
    /\ UNCHANGED <<driver, Status, tries, options, truth, link, auth, stamp, packets,
                   idle, shown>>

PcnetClose ==
    /\ driver = "pcnet" /\ phase = "close"
    /\ phase' = "closed" /\ Silent
    /\ UNCHANGED <<driver, Status, tries, options, truth, link, pcnetVars>>

PcnetNext ==
    \/ PcnetBroadcast \/ PcnetForeign \/ PcnetSkips \/ PcnetOpen \/ PcnetSetup \/ PcnetRead
    \/ PcnetCheck \/ PcnetSelfTestMsg \/ PcnetTime \/ PcnetKill \/ PcnetClose

---------------------------------------------------------------------------
(* However the network reorders and repeats the broadcasts, the status is  *)
(* never replaced by an older one, nor, when a password is configured, by  *)
(* another card's.                                                         *)
StatusNeverOlder ==
    [][shown' # shown =>
          /\ shown' > shown
          /\ auth => \E p \in packets : p.stamp = shown' /\ p.ours]_<<upsVars, pcnetVars>>
=============================================================================
