--------------------------------- MODULE Nis ---------------------------------
(***************************************************************************)
(* The network information server (apcnis.c, apcstatus.c, apcevents.c over *)
(* apclibnis.c) and its clients: the tray's StatMgr, which keeps its       *)
(* connection, and apcaccess and the CGI programs, which open one for each *)
(* question.  A thread per connection reads UPSINFO and the event file     *)
(* while the device thread changes both.  A line of an answer is one       *)
(* message; log_event() writes a line in one step.                         *)
(***************************************************************************)
EXTENDS Naturals, Sequences, FiniteSets

CONSTANTS
    Conns,          \* connections that can be open at the same time
    TrayClients,    \* clients that are a StatMgr
    WebClients,     \* apcaccess, or the CGI programs
    Readings,       \* sequence of what the driver reads: the flags and the last transfer
    NLE,            \* lines of events in an answer
    EventMax,       \* lines of the event file that make trim_eventfile() work
    OldEvents,      \* lines of the event file at the start, if it is not too long then
    MaxLog,         \* bound: lines logged
    MaxAsks,        \* bound: questions of a tray client (a web client asks one)
    Window          \* messages a connection holds before a sender blocks

ASSUME NisAssumption ==
    /\ NLE \in Nat \ {0} /\ Window \in Nat \ {0} /\ EventMax \in Nat \ {0} /\ OldEvents \in Nat /\ MaxLog \in Nat /\ MaxAsks \in Nat
    /\ Len(Readings) \in Nat \ {0}
    /\ Conns \cap {"free", "device", "none"} = {}

VARIABLES
    ups,            \* UPSINFO: its status (with lastxfer) and a measured value
    upslock,        \* who holds ups->mutex
    mutex,          \* who holds the mutex of apcnis.c
    largebuf,       \* the status lines of apcnis.c (stat_recs is their number)
    eventfile,      \* the lines of the event file
    logged,         \* lines logged so far
    trims,          \* history: times the event file was truncated
    busy,           \* bound: what the device thread does in this behaviour
    dev,            \* the device thread: where it is, and trim_eventfile()'s buffer
    thread,         \* handle_client_request() of every connection
    wire,           \* the connections
    client,         \* the clients
    asks,           \* questions asked so far by every client
    serving         \* the daemon runs

nisVars == <<ups, upslock, mutex, largebuf, eventfile, logged, trims, dev, busy, thread, wire, client, asks, serving>>
daemonVars == <<ups, upslock, mutex, largebuf, eventfile, logged, trims, dev, busy>>

Clients == TrayClients \cup WebClients
NoThread == [pc |-> "none", sent |-> 0, le |-> <<>>, i |-> 0, nrec |-> 0]
Unused == [up |-> <<>>, down |-> <<>>, client |-> FALSE, server |-> FALSE, late |-> FALSE]
Idle == [pc |-> "idle", call |-> "none", sock |-> "none", tries |-> 0, got |-> <<>>,
         ok |-> "none", since |-> 0, trims |-> 0]

EndMark == <<"zero length">>            \* net_send(fd, NULL, 0)

NisInit ==
    /\ ups = [status |-> Readings[1], linev |-> 1]
    /\ upslock = "free" /\ mutex = "free" /\ largebuf = <<>>
    /\ busy \in {"readings", "events", "trim"}
    /\ eventfile = [i \in 1..(IF busy = "trim" THEN EventMax + 1 ELSE OldEvents) |-> i]
    /\ logged = 0 /\ trims = 0
    /\ dev = [pc |-> "idle", buf |-> <<>>]
    /\ thread = [c \in Conns |-> NoThread]
    /\ wire = [c \in Conns |-> Unused]
    /\ client = [k \in Clients |-> Idle]
    /\ asks = [k \in Clients |-> 0] /\ serving = TRUE

---------------------------------------------------------------------------
(* The device thread.  A reading is stored field by field under the write  *)
(* lock (_write_lock() of newups.c).                                       *)
MayLock == upslock = "free"
write_lock(next) ==
    /\ serving /\ dev.pc = "idle" /\ MayLock
    /\ upslock' = "device"
    /\ dev' = [dev EXCEPT !.pc = next]
    /\ UNCHANGED <<ups, mutex, largebuf, eventfile, logged, trims>>

StoreStatus ==
    /\ serving /\ dev.pc = "status" /\ ups.linev < Len(Readings)
    /\ ups' = [ups EXCEPT !.status = Readings[ups.linev + 1]]
    /\ dev' = [dev EXCEPT !.pc = "linev"]
    /\ UNCHANGED <<upslock, mutex, largebuf, eventfile, logged, trims>>
StoreLinev ==
    /\ serving /\ dev.pc = "linev"
    /\ ups' = [ups EXCEPT !.linev = @ + 1]
    /\ upslock' = "free"
    /\ dev' = [dev EXCEPT !.pc = "idle"]
    /\ UNCHANGED <<mutex, largebuf, eventfile, logged, trims>>

Newest == EventMax + OldEvents          \* numbers new lines after the old ones

(* log_event(), by any thread, with or without a lock.                     *)
log_event ==
    /\ serving /\ busy # "readings" /\ logged < MaxLog
    /\ logged' = logged + 1
    /\ eventfile' = Append(eventfile, Newest + logged)
    /\ UNCHANGED <<ups, upslock, mutex, largebuf, trims, dev>>

(* trim_eventfile(): 80% of the maximum is read from the end, the first    *)
(* line of which is not whole, the file truncated, and the rest written    *)
(* (at the end: the file is open with O_APPEND).                           *)
TrimNeeded == Len(eventfile) > EventMax
Tail80 == SubSeq(eventfile, Len(eventfile) - (EventMax * 80) \div 100 + 1, Len(eventfile))
TrimRead ==
    /\ serving /\ dev.pc = "read"
    /\ dev' = [pc |-> "truncate", buf |-> Tail80]
    /\ UNCHANGED <<ups, upslock, mutex, largebuf, eventfile, logged, trims>>
TrimTruncate ==
    /\ serving /\ dev.pc = "truncate"
    /\ eventfile' = <<>> /\ trims' = trims + 1
    /\ dev' = [dev EXCEPT !.pc = "write"]
    /\ UNCHANGED <<ups, upslock, mutex, largebuf, logged>>
TrimWrite ==
    /\ serving /\ dev.pc = "write"
    /\ eventfile' = eventfile \o dev.buf
    /\ dev' = [pc |-> "idle", buf |-> <<>>]
    /\ upslock' = "free"
    /\ UNCHANGED <<ups, mutex, largebuf, logged, trims>>

DeviceStep ==
    /\ \/ busy = "readings" /\ ups.linev < Len(Readings) /\ write_lock("status")
       \/ busy = "trim" /\ TrimNeeded /\ write_lock("read")
       \/ StoreStatus \/ StoreLinev \/ log_event \/ TrimRead \/ TrimTruncate \/ TrimWrite
    /\ UNCHANGED <<busy, thread, wire, client, asks, serving>>

---------------------------------------------------------------------------
(* What output_status() writes.  The words of the STATUS line: COMMLOST    *)
(* and then SHUTTING DOWN replace the others.                              *)
Words == {"calibration", "trim", "boost", "online", "onbatt", "overload", "battlow", "replacebatt", "slave", "slavedown"}
StatusWords(s) ==
    CASE "shutdown" \in s.flags -> {"shutdown"}
      [] "shutdown" \notin s.flags /\ "commlost" \in s.flags -> {"commlost"}
      [] OTHER -> (s.flags \cap Words) \cup (IF "battpresent" \in s.flags THEN {} ELSE {"nobatt"})

(* Its groups of lines, in order: the name, the STATUS line and the values *)
(* the UPS has a capability for; the settings and LASTXFER with the raw    *)
(* STATFLAG; the nominal values ("END APC" follows the unlock).            *)
StatusLine == <<"STATUS", StatusWords(ups.status)>>
ReadingsLine == <<"LINEV", ups.linev>>
FlagsLine == <<"STATFLAG", ups.status>>
EndLine == <<"END APC">>

(* status_write(): lines that do not fit are dropped; 4096 bytes hold all  *)
(* of them.                                                                *)
status_write(lines) == largebuf' = largebuf \o lines

(* net_send() waits while the connection is full and fails when the other  *)
(* end is closed; everything a handler would still send fails too.         *)
Room(c) == Len(wire[c].down) < Window /\ wire[c].client
net_send(c, msg) ==
    /\ Room(c)
    /\ wire' = [wire EXCEPT ![c].down = Append(@, msg)]
At(c, pc) == serving /\ thread[c].pc = pc
Step(c, pc) == thread' = [thread EXCEPT ![c].pc = pc]

(* The thread ends: net_close(), detach_ups(); a mutex it holds is free.   *)
Closed(c) ==
    /\ thread' = [thread EXCEPT ![c] = NoThread]
    /\ wire' = [wire EXCEPT ![c].server = FALSE, ![c].up = <<>>]

(* The next command; none for 15 seconds, or the end of the connection,    *)
(* ends the thread.                                                        *)
handle_client_request(c) ==
    /\ At(c, "recv")
    /\ \/ /\ wire[c].up # <<>>
          /\ wire' = [wire EXCEPT ![c].up = Tail(@)]
          /\ Step(c, IF Head(wire[c].up) = "status" THEN "open" ELSE "events")
       \/ wire[c].up = <<>> /\ Closed(c)
    /\ UNCHANGED <<daemonVars, client, asks, serving>>

TakesMutex_not == TRUE                  \* mutant: P(mutex) is forgotten
TakesMutex == mutex = "free"
status_open(c) ==
    /\ At(c, "open") /\ TakesMutex
    /\ mutex' = c /\ largebuf' = <<>>
    /\ Step(c, "rlock")
    /\ UNCHANGED <<ups, upslock, eventfile, logged, trims, dev, busy, wire, client, asks, serving>>

read_lock(c) ==
    /\ At(c, "rlock") /\ MayLock
    /\ upslock' = c /\ Step(c, "words")
    /\ UNCHANGED <<ups, mutex, largebuf, eventfile, logged, trims, dev, busy, wire, client, asks, serving>>
output_status(c) ==
    /\ \/ At(c, "words") /\ status_write(<<StatusLine, ReadingsLine>>) /\ Step(c, "flags") /\ UNCHANGED upslock
       \/ At(c, "flags") /\ status_write(<<FlagsLine, EndLine>>) /\ Step(c, "head") /\ upslock' = "free"
    /\ UNCHANGED <<ups, mutex, eventfile, logged, trims, dev, busy, wire, client, asks, serving>>

(* status_close() sends with the mutex held: the header, the lines, the    *)
(* end mark.                                                               *)
status_close(c) ==
    /\ \/ /\ At(c, "head") /\ net_send(c, <<"APC", Len(largebuf)>>)
          /\ thread' = [thread EXCEPT ![c].pc = "lines", ![c].sent = 0]
          /\ UNCHANGED mutex
       \/ /\ At(c, "lines") /\ thread[c].sent < Len(largebuf)
          /\ net_send(c, largebuf[thread[c].sent + 1])
          /\ thread' = [thread EXCEPT ![c].sent = @ + 1]
          /\ UNCHANGED mutex
       \/ /\ At(c, "lines") /\ thread[c].sent >= Len(largebuf)
          /\ net_send(c, EndMark)
          /\ Step(c, "recv") /\ mutex' = "free"
       \/ /\ At(c, "head") \/ At(c, "lines")
          /\ ~wire[c].client
          /\ Closed(c) /\ mutex' = "free"
    /\ UNCHANGED <<ups, upslock, largebuf, eventfile, logged, trims, dev, busy, client, asks, serving>>

---------------------------------------------------------------------------
(* output_events(): the lines go round in a ring of NLE until the end of   *)
(* the file, and the ring is sent from the oldest on; or the file cannot   *)
(* be opened.                                                              *)
OpenEvents(c) ==
    /\ At(c, "events")
    /\ \/ thread' = [thread EXCEPT ![c] = [NoThread EXCEPT !.pc = "fgets", !.le = [j \in 1..NLE |-> 0]]]
       \/ Step(c, "notavail")
    /\ UNCHANGED <<daemonVars, wire, client, asks, serving>>

FirstOfRing_0(i) == 0                   \* mutant: always from the first slot
FirstOfRing(i) == i % NLE
FetchEvent(c) ==
    /\ At(c, "fgets")
    /\ LET t == thread[c]
       IN thread' = [thread EXCEPT ![c] =
            IF t.nrec < Len(eventfile)
            THEN [t EXCEPT !.le[t.i + 1] = eventfile[t.nrec + 1], !.nrec = @ + 1, !.i = (@ + 1) % NLE]
            ELSE [t EXCEPT !.pc = "last", !.sent = 0,
                           !.nrec = IF @ > NLE THEN NLE ELSE @,
                           !.i = IF t.nrec > NLE THEN FirstOfRing(@) ELSE 0]]
    /\ UNCHANGED <<daemonVars, wire, client, asks, serving>>

SendEvents(c) ==
    /\ \/ /\ At(c, "last") /\ thread[c].sent < thread[c].nrec
          /\ net_send(c, <<"event", thread[c].le[thread[c].i + 1]>>)
          /\ thread' = [thread EXCEPT ![c].sent = @ + 1, ![c].i = (@ + 1) % NLE]
       \/ /\ At(c, "last") /\ thread[c].sent = thread[c].nrec
          /\ net_send(c, EndMark)
          /\ thread' = [thread EXCEPT ![c] = [NoThread EXCEPT !.pc = "recv"]]
       \/ /\ At(c, "notavail")
          /\ net_send(c, <<"Not available">>)
          /\ thread' = [thread EXCEPT ![c].pc = "last", ![c].sent = 0, ![c].nrec = 0]
       \/ /\ At(c, "last") \/ At(c, "notavail")
          /\ ~wire[c].client /\ Closed(c)
    /\ UNCHANGED <<daemonVars, client, asks, serving>>

(* The daemon ends, at any point of an answer; what is left is its event   *)
(* file.                                                                   *)
StopServing ==
    /\ serving
    /\ serving' = FALSE
    /\ upslock' = "free" /\ mutex' = "free" /\ largebuf' = <<>> /\ dev' = [pc |-> "idle", buf |-> <<>>]
    /\ thread' = [c \in Conns |-> NoThread]
    /\ wire' = [c \in Conns |-> [wire[c] EXCEPT !.server = FALSE, !.up = <<>>]]
    /\ UNCHANGED <<ups, eventfile, logged, trims, busy, client, asks>>

---------------------------------------------------------------------------
(* The clients.  StatMgr tries twice to get a status; a web client and     *)
(* GetEvents() once.                                                       *)
Tray(k) == k \in TrayClients
Questions(k) ==                         \* bound
    CASE Tray(k) -> MaxAsks
      [] ~Tray(k) -> IF busy = "readings" THEN 1 ELSE 0
Fresh(k, call) ==
    [Idle EXCEPT !.call = call, !.sock = client[k].sock, !.pc = "open",
                 !.tries = IF Tray(k) /\ call = "status" THEN 2 ELSE 1]

(* The question goes to the server, or, when that has closed the           *)
(* connection, nowhere.  The lines of an earlier answer are forgotten.     *)
Sent_kept(k, r, c, w) ==                \* mutant: they are not
    /\ client' = [client EXCEPT ![k] =
         [r EXCEPT !.pc = "recv", !.sock = c, !.trims = trims,
                       !.since = IF r.call = "status" THEN ups.linev ELSE Len(eventfile)]]
    /\ wire' = IF w[c].server THEN [w EXCEPT ![c].up = Append(@, r.call)] ELSE w
Sent(k, r, c, w) ==
    /\ client' = [client EXCEPT ![k] =
         [r EXCEPT !.pc = "recv", !.sock = c, !.got = <<>>, !.trims = trims,
                       !.since = IF r.call = "status" THEN ups.linev ELSE Len(eventfile)]]
    /\ wire' = IF w[c].server THEN [w EXCEPT ![c].up = Append(@, r.call)] ELSE w

(* The call returns, or the next try begins with a new connection; "w" is  *)
(* the wire so far, "shut" whether the socket is closed.                   *)
Shut(k, w) == IF client[k].sock = "none" THEN w ELSE [w EXCEPT ![client[k].sock].client = FALSE, ![client[k].sock].down = <<>>]
Return(k, w, ok, shut) ==
    /\ client' = [client EXCEPT ![k].pc = "idle", ![k].ok = ok,
                                ![k].got = IF ok \in {"good", "cut"} THEN @ ELSE <<>>,
                                ![k].sock = IF shut THEN "none" ELSE @]
    /\ wire' = IF shut THEN Shut(k, w) ELSE w
Again(k, w) ==
    IF client[k].tries > 1
    THEN /\ client' = [client EXCEPT ![k].pc = "open", ![k].tries = @ - 1, ![k].sock = "none"]
         /\ wire' = Shut(k, w)
    ELSE Return(k, w, "failed", TRUE)

(* A question on the connection that is open.  When the server closed it,  *)
(* the send may fail: close, and try again.                                *)
Ask(k, call) ==
    /\ client[k].pc = "idle" /\ asks[k] < Questions(k)
    /\ asks' = [asks EXCEPT ![k] = @ + 1]
    /\ LET c == client[k].sock
           r == Fresh(k, call)
       IN \/ c = "none" /\ client' = [client EXCEPT ![k] = r] /\ UNCHANGED wire
          \/ c # "none" /\ Sent(k, r, c, wire)
          \/ /\ c # "none" /\ ~wire[c].server
             /\ client' = [client EXCEPT ![k] =
                    IF r.tries > 1 THEN [r EXCEPT !.tries = @ - 1, !.sock = "none"]
                    ELSE [r EXCEPT !.pc = "idle", !.ok = "failed", !.sock = "none"]]
             /\ wire' = Shut(k, wire)
    /\ UNCHANGED <<daemonVars, thread, serving>>

(* net_open() and do_server(): the connection is accepted and its thread   *)
(* started, or closed again by check_wrappers(); or nobody answers.  The   *)
(* question follows.                                                       *)
do_server(c, allowed) ==
    thread' = [thread EXCEPT ![c] = IF allowed THEN [NoThread EXCEPT !.pc = "recv"] ELSE NoThread]
net_open(k) ==
    /\ client[k].pc = "open"
    /\ \/ \E c \in Conns :
            /\ serving /\ ~wire[c].client /\ ~wire[c].server
            /\ \E allowed \in BOOLEAN :
                 /\ Sent(k, client[k], c,
                         [wire EXCEPT ![c] = [Unused EXCEPT !.client = TRUE, !.server = allowed]])
                 /\ do_server(c, allowed)
       \/ Return(k, wire, "failed", FALSE) /\ UNCHANGED thread
    /\ UNCHANGED <<daemonVars, asks, serving>>

(* What ends the loop of net_recv(): the end mark and the end of the       *)
(* connection are both 0, a timeout (no message for 15 seconds) is         *)
(* negative.  Update() wants a line and a 0; GetEvents() takes everything  *)
(* and closes the socket only for -1, which net_recv() never returns; the  *)
(* others always close it.                                                 *)
Update(k, w, negative, how) ==
    /\ Tray(k) /\ client[k].call = "status"
    /\ IF ~negative /\ client[k].got # <<>> THEN Return(k, w, how, FALSE) ELSE Again(k, w)
GetEvents(k, w, negative, how) ==
    /\ Tray(k) /\ client[k].call = "events"
    /\ Return(k, [w EXCEPT ![client[k].sock].late = @ \/ negative], how, FALSE)
fetch_data(k, w, negative, how) ==      \* and do_pthreads_status()
    /\ ~Tray(k) /\ client[k].call = "status"
    /\ Return(k, w, IF negative THEN "failed" ELSE how, TRUE)
fetch_events(k, w, negative, how) ==
    /\ ~Tray(k) /\ client[k].call = "events"
    /\ Return(k, w, IF negative THEN "failed" ELSE how, TRUE)
RecvEnds(k, w, negative, how) ==
    \/ Update(k, w, negative, how) \/ GetEvents(k, w, negative, how)
    \/ fetch_data(k, w, negative, how) \/ fetch_events(k, w, negative, how)

net_recv(k) ==
    LET c == client[k].sock
        read == [wire EXCEPT ![c].down = Tail(@)]
    IN /\ client[k].pc = "recv"
       /\ \/ /\ wire[c].down # <<>> /\ Head(wire[c].down) # EndMark
             /\ client' = [client EXCEPT ![k].got = Append(@, Head(wire[c].down))]
             /\ wire' = read
          \/ /\ wire[c].down # <<>> /\ Head(wire[c].down) = EndMark
             /\ RecvEnds(k, read, FALSE, IF wire[c].late THEN "late" ELSE "good")
          \/ /\ wire[c].down = <<>> /\ ~wire[c].server
             /\ RecvEnds(k, wire, FALSE, IF wire[c].late THEN "late" ELSE "cut")
          \/ wire[c].down = <<>> /\ RecvEnds(k, wire, TRUE, "late")
       /\ UNCHANGED <<daemonVars, thread, asks, serving>>

(* GetSummary(): the words of the tray, made from the first STATFLAG among *)
(* the lines of the answer.  On battery after a self test they are         *)
(* SELFTEST, whatever else is true.                                        *)
SelfTesting(s) == "onbatt" \in s.flags /\ s.lastxfer = "selftest"
FlagLines(got) == {j \in DOMAIN got : got[j][1] = "STATFLAG"}
GetSummary(got) ==
    IF FlagLines(got) = {} THEN {"ERROR"}
    ELSE LET s == got[CHOOSE j \in FlagLines(got) : \A i \in FlagLines(got) : j <= i][2]
             words == s.flags \cap (Words \ {"slave", "slavedown"})
         IN CASE SelfTesting(s) -> {"SELFTEST"}
              [] ~SelfTesting(s) /\ "shutdown" \in s.flags -> {"shutdown"}
              [] ~SelfTesting(s) /\ "shutdown" \notin s.flags /\ "commlost" \in s.flags -> {"commlost"}
              [] OTHER -> words \cup (IF "battpresent" \in s.flags THEN {} ELSE {"nobatt"})

(* ~StatMgr(): the window is closed between two questions.                 *)
CloseTray(k) ==
    /\ Tray(k) /\ client[k].pc = "idle" /\ client[k].sock # "none"
    /\ wire' = Shut(k, wire)
    /\ client' = [client EXCEPT ![k] = Idle]
    /\ UNCHANGED <<daemonVars, thread, asks, serving>>

NisNext ==
    \/ DeviceStep \/ StopServing
    \/ \E c \in Conns :
         \/ handle_client_request(c) \/ status_open(c) \/ read_lock(c) \/ output_status(c)
         \/ status_close(c) \/ OpenEvents(c) \/ FetchEvent(c) \/ SendEvents(c)
    \/ \E k \in Clients :
         \/ \E call \in {"status", "events"} : Ask(k, call)
         \/ net_open(k) \/ net_recv(k) \/ CloseTray(k)

NisSpec == NisInit /\ [][NisNext]_nisVars

---------------------------------------------------------------------------
(* One reading, not older than the question, with as many lines as the     *)
(* header says.                                                            *)
IsStatus(k) ==
    \E n \in client[k].since..Len(Readings) :
        client[k].got = <<<<"APC", 4>>, <<"STATUS", StatusWords(Readings[n])>>, <<"LINEV", n>>,
                          <<"STATFLAG", Readings[n]>>, EndLine>>

(* The last lines of a file that was not shorter than when it was asked.   *)
IsEvents(k) ==
    \/ client[k].got = <<<<"Not available">>>>
    \/ trims # client[k].trims
    \/ \E n \in client[k].since..Len(eventfile) :
         client[k].got = [j \in 1..(IF n > NLE THEN NLE ELSE n) |->
                            <<"event", eventfile[(IF n > NLE THEN n - NLE ELSE 0) + j]>>]

(* What a client takes for a complete answer is one, to its own question,  *)
(* however the threads of other connections, the device thread and the     *)
(* clients interleave, with connections that are closed when idle, retried *)
(* or refused.  Two ways round it that the clients have are left out: an   *)
(* answer cut by the end of the daemon, and one taken after a GetEvents()  *)
(* that timed out and left its connection open.                            *)
AnswersAreTrue ==
    \A k \in Clients :
        client[k].ok = "good" => IF client[k].call = "status" THEN IsStatus(k) ELSE IsEvents(k)

(* The tray shows no state the UPS was not in since it was asked, although *)
(* StatMgr takes an answer that the end of the daemon cut short for a      *)
(* whole one, and keeps lines in a table through failed tries: its words   *)
(* are ERROR, or those of the daemon's STATUS line for such a reading, but *)
(* for the words only a slave has and for SELFTEST, which replaces even    *)
(* COMMLOST and SHUTTING DOWN on battery after a self test.                *)
SummaryIsTrue ==
    \A k \in TrayClients :
        client[k].call = "status" /\ client[k].ok \in {"good", "cut"} =>
            \/ client[k].ok = "cut" /\ GetSummary(client[k].got) = {"ERROR"}
            \/ \E n \in client[k].since..Len(Readings) :
                 GetSummary(client[k].got) = IF SelfTesting(Readings[n]) THEN {"SELFTEST"}
                                             ELSE StatusWords(Readings[n]) \ {"slave", "slavedown"}
=============================================================================
