------------------------------- MODULE Startup -------------------------------
(***************************************************************************)
(* How a daemon starts and ends: main() of apcupsd.c with parse_options(), *)
(* check_for_config() and the lock file of apclock.c, for several          *)
(* processes at a time, each of which may be killed at any point.  A file  *)
(* is read, judged and removed in steps of their own.                      *)
(***************************************************************************)
EXTENDS Naturals, Sequences, FiniteSets

CONSTANTS
    Procs,          \* process ids
    Testers,        \* the processes that run apctest; the others run the daemon
    OptionSets,     \* command lines: sets of option letters
    Configs,        \* configuration files: sequences of lines [key, kind, value]
    Paths,          \* lock files: <<directory, name of the device>>
    OldPid          \* the id of a process of an earlier boot, gone for good

ASSUME StartupAssumption ==
    /\ OldPid \notin Procs /\ Testers \subseteq Procs
    /\ {"none", "empty"} \cap Procs = {}
    /\ \A c \in Configs : \A j \in DOMAIN c : DOMAIN c[j] = {"key", "kind", "value"}

VARIABLES
    proc,           \* the processes: see Process
    lockfile,       \* what the lock files hold: a process id, "empty", or "none"
    pidfile,        \* the process id in the pid file, or "none"
    stolen          \* history: lock files removed as stale after another process took them

startVars == <<proc, lockfile, pidfile, stolen>>

NoPath == <<>>
Ended == {"unborn", "dead"}
Alive(p) == p \in Procs /\ proc[p].pc \notin Ended

Process(pc) == [pc   |-> pc,
                opts |-> {},        \* the options that were set
                path |-> NoPath,    \* ups->lockpath
                then |-> "create",  \* who called check_stale_lockfile()
                read |-> "none",    \* what the lock file said
                live |-> FALSE,     \* history: a file judged stale named a process that ran
                pid  |-> FALSE]     \* pidcreated

(* A lock file may be left from an earlier boot, with the id of a process  *)
(* that is gone, or one that will be given to a process again.             *)
StartupInit ==
    /\ proc = [p \in Procs |-> Process("unborn")]
    /\ lockfile \in [Paths -> {"none", "empty", OldPid} \cup Procs]
    /\ pidfile = "none"
    /\ stolen = {}

Goto(p, pc) == proc' = [proc EXCEPT ![p].pc = pc, ![p].read = "none", ![p].live = FALSE]
Die(p) == proc' = [proc EXCEPT ![p] = Process("dead")]

---------------------------------------------------------------------------
(* parse_options(): an option that does one thing only ("V", "k", "o")     *)
(* goes with no other, except those that are not counted ("f", "P", "d");  *)
(* "h" stands for every letter that is not known.                          *)
OneShot(o) == o \cap {"V", "k", "o"} # {}
parse_options(o) ==
    /\ "h" \notin o
    /\ OneShot(o) => Cardinality(o \ {"f", "P", "d"}) <= 1

(* The beginning of main(), of the daemon and of apctest.  Before the      *)
(* configuration is read, the program just exits.                          *)
Start(p, o) ==
    /\ proc[p].pc = "unborn"
    /\ IF parse_options(o) /\ (p \in Testers \/ "V" \notin o)
       THEN proc' = [proc EXCEPT ![p].opts = o, ![p].pc = "config"]
       ELSE Die(p)
    /\ UNCHANGED <<lockfile, pidfile, stolen>>

---------------------------------------------------------------------------
(* The directives, by the handler that takes their value.                  *)
SimpleCables == {"simple", "940-0119A", "940-0127A", "940-0128A", "940-0020B", "940-0020C", "940-0023A",
                 "940-0095A", "940-0095B", "940-0095C", "MAM-04-02-2000"}
Cables == SimpleCables \cup {"smart", "ether", "940-0024B", "940-0024C", "940-1524C", "940-0024G", "940-0625A", "usb"}
Types == {"dumb", "apcsmart", "usb", "snmp", "net", "test", "pcnet", "modbus"}
Choices ==                              \* match_range, match_index, match_facility
    [UPSCABLE |-> Cables, UPSTYPE |-> Types,
     NOLOGON |-> {"always", "disable", "timeout", "percent", "minutes"},
     UPSCLASS |-> {"standalone", "shareslave", "sharemaster"}, UPSMODE |-> {"disable", "share"},
     NETSERVER |-> {"on", "off"}, LOGSTATS |-> {"on", "off"},
     FACILITY |-> {"daemon", "lpr", "mail", "news", "uucp", "user"} \cup
                  {"local0", "local1", "local2", "local3", "local4", "local5", "local6", "local7"}]
Numbers == {"POLLTIME", "ANNOY", "ANNOYDELAY", "ONBATTERYDELAY", "TIMEOUT", "BATTERYLEVEL", "MINUTES", "KILLDELAY",
            "NISPORT", "EVENTSFILEMAX", "STATTIME", "DATATIME", "HITRANSFER", "LOTRANSFER", "LOWBATT", "WAKEUP",
            "RETURNCHARGE", "OUTPUTVOLTS", "SLEEP", "NETTIME"}
Strings == {"UPSNAME", "DEVICE", "LOCKFILE", "SCRIPTDIR", "PWRFAILDIR", "NOLOGINDIR", "NISIP", "EVENTSFILE",
            "STATFILE", "SELFTEST", "BEEPSTATE", "BATTDATE", "SENSITIVITY"}
Obsolete == {"USERMAGIC", "SLAVE", "NETPORT", "NETSTATUS", "SERVERPORT"}    \* a warning; others, an error

match_range(l) == l.kind = "word" /\ l.value \in Choices[l.key]
match_int(l) == l.kind = "number"
match_str(l) == TRUE

(* ParseConfig(): an empty line and a comment have the key "".             *)
ParseConfig(l) ==
    \/ l.key \in {""} \cup Obsolete
    \/ l.key \in DOMAIN Choices /\ match_range(l)
    \/ l.key \in Numbers /\ match_int(l)
    \/ l.key \in Strings /\ match_str(l)

(* init_ups_struct() and the directives: the last one that is in order     *)
(* counts.                                                                 *)
Setting(c, key, default) ==
    LET at == {j \in DOMAIN c : c[j].key = key /\ ParseConfig(c[j])}
    IN IF at = {} THEN default ELSE c[CHOOSE j \in at : \A k \in at : k <= j].value
Mode(c) == Setting(c, "UPSTYPE", "none")
Cable(c) == Setting(c, "UPSCABLE", "none")
Device(c) == Setting(c, "DEVICE", <<"">>)
LockDir(c) == Setting(c, "LOCKFILE", "/var/lock")

(* check_for_config(): UPSTYPE decides about the cable, and must not       *)
(* contradict it where it cannot; a lock file, named after the last part   *)
(* of DEVICE, for every cable but "ether".                                 *)
CableOf(c) ==
    CASE Mode(c) = "usb"                        -> "usb"
      [] Mode(c) \in {"snmp", "pcnet", "net"}   -> "ether"
      [] Mode(c) = "apcsmart"                   -> "smart"
      [] OTHER                                  -> Cable(c)
CableFits(c) ==
    /\ Mode(c) = "modbus" => Cable(c) \notin SimpleCables \cup {"none"}
    /\ Mode(c) = "dumb" => Cable(c) \in SimpleCables \cup {"none"}
LockPath(c) == IF CableOf(c) = "ether" THEN NoPath ELSE <<LockDir(c), Device(c)[Len(Device(c))]>>

ASSUME PathsAssumption == \A c \in Configs : LockPath(c) \in Paths \cup {NoPath}

(* One bad line, and the program ends with the lock path cleared.          *)
check_for_config(p, c) ==
    /\ proc[p].pc = "config"
    /\ LET good == (\A j \in DOMAIN c : ParseConfig(c[j])) /\ CableFits(c)
       IN proc' = [proc EXCEPT
            ![p].path = IF good THEN LockPath(c) ELSE NoPath,
            ![p].opts = IF good /\ Mode(c) = "dumb" THEN @ \ {"p"} ELSE @,
            ![p].pc = IF good /\ Mode(c) # "none" THEN "attach" ELSE "cleanup"]
    /\ UNCHANGED <<lockfile, pidfile, stolen>>

(* attach_driver() may not know the driver.  Then the program becomes a    *)
(* daemon, whose parent is gone, and comes to create_lockfile(), which has *)
(* nothing to do when the UPS is to be turned off.                         *)
Attach(p) ==
    /\ proc[p].pc = "attach"
    /\ \/ Goto(p, "cleanup")
       \/ /\ OneShot(proc[p].opts) \/ proc[p].path = NoPath
          /\ Goto(p, "pid")
       \/ /\ ~OneShot(proc[p].opts) /\ proc[p].path # NoPath
          /\ proc' = [proc EXCEPT ![p].pc = "read", ![p].then = "create"]
    /\ UNCHANGED <<lockfile, pidfile, stolen>>

---------------------------------------------------------------------------
(* check_stale_lockfile(): the file is read ...                            *)
ReadLock(p) ==
    /\ proc[p].pc = "read"
    /\ proc' = [proc EXCEPT ![p].read = lockfile[proc[p].path], ![p].pc = "judge"]
    /\ UNCHANGED <<lockfile, pidfile, stolen>>

(* ... judged by what was read: nothing there, ours, stale, or in use (an  *)
(* empty file counts as in use), and the caller goes on ...                *)
IsStale_any(q) == TRUE                  \* mutant: kill() is not asked
IsStale(q) == ~Alive(q)
JudgeLock(p) ==
    /\ proc[p].pc = "judge"
    /\ LET r == proc[p].read
           create == proc[p].then = "create"
       IN \/ r = "none" /\ Goto(p, IF create THEN "create" ELSE "gone")
          \/ r = p /\ Goto(p, IF create THEN "pid" ELSE "delete")
          \/ r \notin {"none", "empty", p} /\ IsStale(r)
             /\ proc' = [proc EXCEPT ![p].pc = "unlink", ![p].live = Alive(r)]
          \/ /\ r = "empty" \/ (r \notin {"none", p} /\ ~IsStale(r))
             /\ Goto(p, IF create THEN "cleanup" ELSE "gone")
    /\ UNCHANGED <<lockfile, pidfile, stolen>>

(* ... and removed, whatever is in it by now.                              *)
Stolen(p) ==
    LET now == lockfile[proc[p].path]
    IN stolen' = IF (now = "empty" \/ Alive(now)) /\ ~proc[p].live THEN stolen \cup {proc[p].path} ELSE stolen
UnlinkStale(p) ==
    /\ proc[p].pc = "unlink"
    /\ IF lockfile[proc[p].path] = "none"
       THEN UNCHANGED <<lockfile, stolen>> /\ Goto(p, IF proc[p].then = "create" THEN "cleanup" ELSE "gone")
       ELSE /\ lockfile' = [lockfile EXCEPT ![proc[p].path] = "none"]
            /\ Stolen(p)
            /\ Goto(p, IF proc[p].then = "create" THEN "create" ELSE "gone")
    /\ UNCHANGED pidfile

(* create_lockfile(): O_CREAT | O_EXCL, then the process id is written; a  *)
(* disk that is full leaves an empty file.                                 *)
MayCreate_any(f) == TRUE                \* mutant: without O_EXCL
MayCreate(f) == f = "none"
CreateLock(p) ==
    /\ proc[p].pc = "create"
    /\ \/ /\ MayCreate(lockfile[proc[p].path])
          /\ lockfile' = [lockfile EXCEPT ![proc[p].path] = "empty"]
          /\ Goto(p, "write")
       \/ Goto(p, "cleanup") /\ UNCHANGED lockfile
    /\ UNCHANGED <<pidfile, stolen>>

(* The file that was created is the one that is written to, even when it   *)
(* has been removed meanwhile.                                             *)
WriteLock(p) ==
    /\ proc[p].pc = "write"
    /\ \/ /\ lockfile' = [lockfile EXCEPT ![proc[p].path] = IF @ = "empty" THEN p ELSE @]
          /\ Goto(p, "pid")
       \/ Goto(p, "cleanup") /\ UNCHANGED lockfile
    /\ UNCHANGED <<pidfile, stolen>>

---------------------------------------------------------------------------
(* make_pid_file(), and the program runs: do_device(), or once.  apctest   *)
(* makes no pid file, and ends if it is told to kill the power.            *)
MakePid(p) ==
    /\ proc[p].pc = "pid"
    /\ pidfile' = IF p \in Testers THEN pidfile ELSE p
    /\ proc' = [proc EXCEPT ![p].pid = p \notin Testers, ![p].pc = "run"]
    /\ UNCHANGED <<lockfile, stolen>>

(* apcupsd_terminate(), or Error_abort() and apcupsd_error_cleanup():      *)
(* delete_lockfile() if there is a lock path, ...                          *)
Cleanup(p) ==
    /\ proc[p].pc \in {"run", "cleanup"}
    /\ IF proc[p].path = NoPath THEN Goto(p, "gone")
       ELSE proc' = [proc EXCEPT ![p].pc = "read", ![p].then = "delete"]
    /\ UNCHANGED <<lockfile, pidfile, stolen>>

DeleteLock(p) ==
    /\ proc[p].pc = "delete"
    /\ lockfile' = [lockfile EXCEPT ![proc[p].path] = "none"]
    /\ Goto(p, "gone")
    /\ UNCHANGED <<pidfile, stolen>>

(* ... and the pid file, if it was made, whoever's it is by now.           *)
Exit(p) ==
    /\ proc[p].pc = "gone"
    /\ pidfile' = IF proc[p].pid THEN "none" ELSE pidfile
    /\ Die(p)
    /\ UNCHANGED <<lockfile, stolen>>

Crash(p) ==
    /\ Alive(p)
    /\ Die(p)
    /\ UNCHANGED <<lockfile, pidfile, stolen>>

StartupNext ==
    \E p \in Procs :
        \/ \E o \in OptionSets : Start(p, o)
        \/ \E c \in Configs : check_for_config(p, c)
        \/ Attach(p) \/ ReadLock(p) \/ JudgeLock(p) \/ UnlinkStale(p) \/ CreateLock(p)
        \/ WriteLock(p) \/ MakePid(p) \/ Cleanup(p) \/ DeleteLock(p) \/ Exit(p) \/ Crash(p)

StartupSpec == StartupInit /\ [][StartupNext]_startVars

---------------------------------------------------------------------------
Monitors(p) == proc[p].pc \in {"pid", "run"} /\ ~OneShot(proc[p].opts)

(* Two programs, daemons or apctest, never have the UPS on the same device *)
(* (apcconfig.c: "apcupsd _must_ have a lock file"), however their starts, *)
(* ends and crashes interleave - unless one of them removed as stale a     *)
(* lock file that another had made since it was read.                      *)
LockIsExclusive ==
    \A p, q \in Procs :
        p # q /\ Monitors(p) /\ Monitors(q) /\ proc[p].path = proc[q].path
            => proc[p].path \in stolen \cup {NoPath}
=============================================================================
