--------------------------- MODULE ProgramsProofs ---------------------------
(***************************************************************************)
(* Proofs about the start of the programs and about those beside the       *)
(* daemon: the lock file keeps one UPS to one program, what apctest tells  *)
(* its user is so, for every bound and whatever fails, and so is what the  *)
(* programming of a smart UPS reports.                                     *)
(***************************************************************************)
EXTENDS Startup, Eeprom, Apctest, SequenceTheorems, WellFoundedInduction, TLAPS

(***************************************************************************)
(* The lock file: for any number of daemons and of apctest, a file that    *)
(* names a process that runs, or that a process has made and not yet       *)
(* written to, changes only by the hand of that process, or is removed as  *)
(* stale by one that read it earlier, which stolen remembers.              *)
(***************************************************************************)
Counters == {"unborn", "config", "attach", "read", "judge", "unlink", "create", "write", "delete", "pid", "run",
             "cleanup", "gone", "dead"}
Contents == {"none", "empty", OldPid} \cup Procs
Program == [pc : Counters, opts : SUBSET UNION OptionSets, path : Paths \cup {NoPath}, then : {"create", "delete"},
            read : Contents, live : BOOLEAN, pid : BOOLEAN]

StartupTypeOK ==
    /\ proc \in [Procs -> Program]
    /\ lockfile \in [Paths -> Contents]
    /\ stolen \subseteq Paths

(* Who is at the lock file has one, and whoever called a process stale was *)
(* right then.                                                             *)
HasFile(p) == proc[p].pc \in {"read", "judge", "unlink", "create", "write", "delete"} => proc[p].path \in Paths
JudgesWell(p) == ~proc[p].live

(* The lock file is the process's: it has made it, it has written its id,  *)
(* or it has read it there; and unless it was removed, it is in the file.  *)
Making(p) == proc[p].pc = "write"
Holding(p) ==
    \/ proc[p].pc \in {"pid", "run"} /\ ~OneShot(proc[p].opts) /\ proc[p].path # NoPath
    \/ proc[p].pc = "judge" /\ proc[p].read = p
    \/ proc[p].pc = "delete"
MadeIsEmpty(p) == Making(p) => proc[p].path \in stolen \/ lockfile[proc[p].path] = "empty"
HeldIsNamed(p) == Holding(p) => proc[p].path \in stolen \/ lockfile[proc[p].path] = p
OneMaker ==
    \A p, q \in Procs : Making(p) /\ Making(q) /\ proc[p].path = proc[q].path => p = q \/ proc[p].path \in stolen

StartupInv ==
    /\ StartupTypeOK
    /\ \A p \in Procs : HasFile(p) /\ JudgesWell(p) /\ MadeIsEmpty(p) /\ HeldIsNamed(p)
    /\ OneMaker

USE StartupAssumption, PathsAssumption
---------------------------------------------------------------------------
LEMMA StartsRight == StartupInit => StartupInv
<1> SUFFICES ASSUME StartupInit PROVE StartupInv
  OBVIOUS
<1> Process("unborn") \in Program
  BY DEF Process, Program, Counters, Contents, NoPath
<1>1. StartupTypeOK
  BY DEF StartupInit, StartupTypeOK, Contents
<1>2. ASSUME NEW p \in Procs PROVE proc[p] = Process("unborn")
  BY DEF StartupInit
<1> QED
  BY <1>1, <1>2 DEF StartupInv, HasFile, JudgesWell, MadeIsEmpty, HeldIsNamed, OneMaker, Making, Holding, Process

(* LockIsExclusive follows: two that hold the same file are named by it.   *)
LEMMA ExclusiveFollows == StartupInv => LockIsExclusive
<1> SUFFICES ASSUME StartupInv, NEW p \in Procs, NEW q \in Procs, p # q, Monitors(p), Monitors(q),
                    proc[p].path = proc[q].path, proc[p].path # NoPath
             PROVE  proc[p].path \in stolen
  BY DEF LockIsExclusive
<1>1. Holding(p) /\ Holding(q)
  BY DEF Monitors, Holding
<1> QED
  BY <1>1 DEF StartupInv, HeldIsNamed

---------------------------------------------------------------------------
(* A step of p keeps the invariant if it leaves the claims of the others   *)
(* alone, or records the theft, and p's own record claims no more than is  *)
(* so.                                                                     *)
LEMMA OneSteps ==
    ASSUME StartupInv, NEW p \in Procs, NEW r \in Program, proc' = [proc EXCEPT ![p] = r],
           lockfile' \in [Paths -> Contents], stolen \subseteq stolen', stolen' \subseteq Paths,
           \A q \in Procs \ {p} : Making(q) \/ Holding(q) =>
               proc[q].path \in stolen' \/ lockfile'[proc[q].path] = lockfile[proc[q].path],
           HasFile(p)', JudgesWell(p)', MadeIsEmpty(p)', HeldIsNamed(p)',
           r.pc = "write" => \A q \in Procs \ {p} : ~(Making(q) /\ proc[q].path = r.path) \/ r.path \in stolen'
    PROVE  StartupInv'
<1>1. StartupTypeOK'
  BY DEF StartupInv, StartupTypeOK
<1>2. \A q \in Procs : proc'[q] = IF q = p THEN r ELSE proc[q]
  BY DEF StartupInv, StartupTypeOK
<1>3. ASSUME NEW q \in Procs, q # p
      PROVE  HasFile(q)' /\ JudgesWell(q)' /\ MadeIsEmpty(q)' /\ HeldIsNamed(q)'
  <2>1. proc'[q] = proc[q] /\ HasFile(q) /\ JudgesWell(q) /\ MadeIsEmpty(q) /\ HeldIsNamed(q)
    BY <1>2, <1>3 DEF StartupInv
  <2>2. HasFile(q)' /\ JudgesWell(q)'
    BY <2>1 DEF HasFile, JudgesWell
  <2>3. MadeIsEmpty(q)'
    BY <2>1, <1>3 DEF MadeIsEmpty, Making
  <2>4. HeldIsNamed(q)'
    BY <2>1, <1>3 DEF HeldIsNamed, Holding
  <2> QED
    BY <2>2, <2>3, <2>4
<1>4. OneMaker'
  <2> SUFFICES ASSUME NEW a \in Procs, NEW b \in Procs, a # b, proc'[a].pc = "write", proc'[b].pc = "write",
                      proc'[a].path = proc'[b].path
               PROVE  proc'[a].path \in stolen'
    BY DEF OneMaker, Making
  <2>1. CASE a # p /\ b # p
    BY <2>1, <1>2 DEF StartupInv, OneMaker, Making
  <2>2. CASE a = p
    BY <2>2, <1>2 DEF Making
  <2>3. CASE b = p
    BY <2>3, <1>2 DEF Making
  <2> QED
    BY <2>1, <2>2, <2>3
<1> QED
  BY <1>1, <1>3, <1>4 DEF StartupInv

(* A step of p that leaves the lock files alone.                           *)
LEMMA OneMoves ==
    ASSUME StartupInv, NEW p \in Procs, NEW r \in Program, proc' = [proc EXCEPT ![p] = r],
           UNCHANGED <<lockfile, stolen>>, r.pc # "write",
           HasFile(p)', JudgesWell(p)', HeldIsNamed(p)'
    PROVE  StartupInv'
<1>1. proc'[p] = r /\ MadeIsEmpty(p)'
  BY DEF StartupInv, StartupTypeOK, MadeIsEmpty, Making
<1> QED
  BY <1>1, OneSteps DEF StartupInv, StartupTypeOK

(* Goto(p, pc) and Die(p), as a step of that kind.                         *)
LEMMA GoesTo ==
    ASSUME StartupInv, NEW p \in Procs, NEW pc \in Counters, Goto(p, pc)
    PROVE  \E r \in Program : /\ proc' = [proc EXCEPT ![p] = r] /\ proc'[p] = r
                              /\ r.pc = pc /\ r.path = proc[p].path /\ r.opts = proc[p].opts
                              /\ r.read = "none" /\ ~r.live
<1> DEFINE r == [proc[p] EXCEPT !.pc = pc, !.read = "none", !.live = FALSE]
<1>1. proc[p] \in Program /\ proc \in [Procs -> Program]
  BY DEF StartupInv, StartupTypeOK
<1>2. r \in Program /\ r.pc = pc /\ r.path = proc[p].path /\ r.opts = proc[p].opts /\ r.read = "none" /\ ~r.live
  BY <1>1 DEF Program, Contents
<1>3. proc' = [proc EXCEPT ![p] = r]
  BY <1>1 DEF Goto, Program
<1>4. proc'[p] = r
  BY <1>3, <1>1
<1> HIDE DEF r
<1> QED
  BY <1>2, <1>3, <1>4

LEMMA DiesAs ==
    ASSUME StartupInv, NEW p \in Procs, Die(p)
    PROVE  /\ Process("dead") \in Program /\ proc' = [proc EXCEPT ![p] = Process("dead")]
           /\ proc'[p] = Process("dead")
BY DEF Die, Process, Program, Counters, Contents, NoPath, StartupInv, StartupTypeOK

LEMMA DeathKeeps ==
    ASSUME StartupInv, NEW p \in Procs, Die(p), UNCHANGED <<lockfile, stolen>>
    PROVE  StartupInv'
<1>1. HasFile(p)' /\ JudgesWell(p)' /\ HeldIsNamed(p)' /\ Process("dead").pc # "write"
  BY DiesAs DEF HasFile, JudgesWell, HeldIsNamed, Holding, Process
<1> QED
  BY <1>1, DiesAs, OneMoves

(* Goto() keeps the invariant when the lock files stay and the process is  *)
(* named by the one it goes on to hold.                                    *)
LEMMA GotoKeeps ==
    ASSUME StartupInv, NEW p \in Procs, NEW pc \in Counters \ {"write", "read", "judge", "run"}, Goto(p, pc),
           UNCHANGED <<lockfile, stolen>>,
           pc \in {"unlink", "create", "delete"} => proc[p].path \in Paths,
           pc = "delete" \/ (pc = "pid" /\ ~OneShot(proc[p].opts) /\ proc[p].path # NoPath) =>
               proc[p].path \in stolen \/ lockfile[proc[p].path] = p
    PROVE  StartupInv'
<1>1. PICK r \in Program : /\ proc' = [proc EXCEPT ![p] = r] /\ proc'[p] = r
                           /\ r.pc = pc /\ r.path = proc[p].path /\ r.opts = proc[p].opts
                           /\ r.read = "none" /\ ~r.live
  BY GoesTo
<1>2. HasFile(p)' /\ JudgesWell(p)'
  BY <1>1 DEF HasFile, JudgesWell
<1>3. HeldIsNamed(p)'
  BY <1>1 DEF HeldIsNamed, Holding
<1> QED
  BY <1>1, <1>2, <1>3, OneMoves

---------------------------------------------------------------------------
(* The actions, in the order of the code.                                  *)
LEMMA StartKeeps == ASSUME StartupInv, NEW p \in Procs, NEW o \in OptionSets, Start(p, o) PROVE StartupInv'
<1>1. CASE Die(p)
  BY <1>1, DeathKeeps DEF Start
<1>2. CASE proc' = [proc EXCEPT ![p].opts = o, ![p].pc = "config"]
  <2> DEFINE r == [proc[p] EXCEPT !.opts = o, !.pc = "config"]
  <2>1. proc[p] \in Program /\ proc \in [Procs -> Program]
    BY DEF StartupInv, StartupTypeOK
  <2>2. r \in Program /\ r.pc = "config" /\ r.live = proc[p].live
    BY <2>1 DEF Program, Counters
  <2>3. proc' = [proc EXCEPT ![p] = r] /\ proc'[p] = r
    BY <2>1, <1>2 DEF Program
  <2> HIDE DEF r
  <2>4. HasFile(p)' /\ JudgesWell(p)' /\ HeldIsNamed(p)'
    BY <2>2, <2>3 DEF HasFile, JudgesWell, HeldIsNamed, Holding, StartupInv
  <2> QED
    BY <2>2, <2>3, <2>4, OneMoves DEF Start
<1> QED
  BY <1>1, <1>2 DEF Start

LEMMA ConfigKeeps ==
    ASSUME StartupInv, NEW p \in Procs, NEW c \in Configs, check_for_config(p, c) PROVE StartupInv'
<1> DEFINE good == (\A j \in DOMAIN c : ParseConfig(c[j])) /\ CableFits(c)
           path == IF good THEN LockPath(c) ELSE NoPath
           opts == IF good /\ Mode(c) = "dumb" THEN proc[p].opts \ {"p"} ELSE proc[p].opts
           pc == IF good /\ Mode(c) # "none" THEN "attach" ELSE "cleanup"
           r == [proc[p] EXCEPT !.path = path, !.opts = opts, !.pc = pc]
<1>1. proc[p] \in Program /\ proc \in [Procs -> Program]
  BY DEF StartupInv, StartupTypeOK
<1>2. path \in Paths \cup {NoPath} /\ pc \in {"attach", "cleanup"} /\ pc \in Counters
  BY DEF Counters
<1>3. opts \in SUBSET UNION OptionSets
  BY <1>1 DEF Program
<1>4. proc' = [proc EXCEPT ![p].path = path, ![p].opts = opts, ![p].pc = pc] /\ UNCHANGED <<lockfile, stolen>>
  BY DEF check_for_config
<1> HIDE DEF path, opts, pc
<1>5. r \in Program /\ r.pc = pc /\ r.live = proc[p].live
  BY <1>1, <1>2, <1>3 DEF Program
<1>6. proc' = [proc EXCEPT ![p] = r] /\ proc'[p] = r
  BY <1>1, <1>4 DEF Program
<1> HIDE DEF r
<1>7. HasFile(p)' /\ JudgesWell(p)' /\ HeldIsNamed(p)'
  BY <1>2, <1>5, <1>6 DEF HasFile, JudgesWell, HeldIsNamed, Holding, StartupInv
<1> QED
  BY <1>2, <1>4, <1>5, <1>6, <1>7, OneMoves

(* To the lock file, to make it or to remove it.                           *)
LEMMA ReadingKeeps ==
    ASSUME StartupInv, NEW p \in Procs, NEW then \in {"create", "delete"}, proc[p].path # NoPath,
           proc' = [proc EXCEPT ![p].pc = "read", ![p].then = then], UNCHANGED <<lockfile, stolen>>
    PROVE  StartupInv'
<1> DEFINE r == [proc[p] EXCEPT !.pc = "read", !.then = then]
<1>1. proc[p] \in Program /\ proc \in [Procs -> Program]
  BY DEF StartupInv, StartupTypeOK
<1>2. r \in Program /\ r.pc = "read" /\ r.live = proc[p].live /\ r.path \in Paths
  BY <1>1 DEF Program, Counters
<1>3. proc' = [proc EXCEPT ![p] = r] /\ proc'[p] = r
  BY <1>1 DEF Program
<1> HIDE DEF r
<1>4. HasFile(p)' /\ JudgesWell(p)' /\ HeldIsNamed(p)'
  BY <1>2, <1>3 DEF HasFile, JudgesWell, HeldIsNamed, Holding, StartupInv
<1> QED
  BY <1>2, <1>3, <1>4, OneMoves

LEMMA AttachKeeps == ASSUME StartupInv, NEW p \in Procs, Attach(p) PROVE StartupInv'
<1>1. CASE Goto(p, "cleanup")
  BY <1>1, GotoKeeps DEF Attach, Counters
<1>2. CASE (OneShot(proc[p].opts) \/ proc[p].path = NoPath) /\ Goto(p, "pid")
  BY <1>2, GotoKeeps DEF Attach, Counters
<1>3. CASE proc[p].path # NoPath /\ proc' = [proc EXCEPT ![p].pc = "read", ![p].then = "create"]
  BY <1>3, ReadingKeeps DEF Attach
<1> QED
  BY <1>1, <1>2, <1>3 DEF Attach

LEMMA ReadLockKeeps == ASSUME StartupInv, NEW p \in Procs, ReadLock(p) PROVE StartupInv'
<1> DEFINE r == [proc[p] EXCEPT !.read = lockfile[proc[p].path], !.pc = "judge"]
<1>1. proc[p] \in Program /\ proc \in [Procs -> Program] /\ proc[p].path \in Paths
  BY DEF StartupInv, StartupTypeOK, ReadLock, HasFile
<1>2. lockfile[proc[p].path] \in Contents
  BY <1>1 DEF StartupInv, StartupTypeOK
<1>3. r \in Program /\ r.pc = "judge" /\ r.live = proc[p].live /\ r.path = proc[p].path
                    /\ r.read = lockfile[proc[p].path]
  BY <1>1, <1>2 DEF Program, Counters
<1>4. proc' = [proc EXCEPT ![p] = r] /\ proc'[p] = r
  BY <1>1 DEF Program, ReadLock
<1> HIDE DEF r
<1>5. HasFile(p)' /\ JudgesWell(p)' /\ HeldIsNamed(p)'
  BY <1>1, <1>3, <1>4 DEF HasFile, JudgesWell, HeldIsNamed, Holding, StartupInv, ReadLock
<1> QED
  BY <1>3, <1>4, <1>5, OneMoves DEF ReadLock

LEMMA JudgeLockKeeps == ASSUME StartupInv, NEW p \in Procs, JudgeLock(p) PROVE StartupInv'
<1> DEFINE r == proc[p].read
           create == proc[p].then = "create"
<1>1. HasFile(p) /\ JudgesWell(p) /\ HeldIsNamed(p) /\ proc[p].path \in Paths
  BY DEF StartupInv, JudgeLock, HasFile
<1>2. UNCHANGED <<lockfile, stolen>>
  BY DEF JudgeLock
<1>3. CASE r = "none" /\ Goto(p, IF create THEN "create" ELSE "gone")
  BY <1>1, <1>2, <1>3, GotoKeeps DEF Counters
<1>4. CASE r = p /\ Goto(p, IF create THEN "pid" ELSE "delete")
  <2>1. proc[p].path \in stolen \/ lockfile[proc[p].path] = p
    BY <1>1, <1>4 DEF HeldIsNamed, Holding, JudgeLock
  <2> QED
    BY <2>1, <1>1, <1>2, <1>4, GotoKeeps DEF Counters
<1>5. CASE IsStale(r) /\ proc' = [proc EXCEPT ![p].pc = "unlink", ![p].live = Alive(r)]
  <2> DEFINE s == [proc[p] EXCEPT !.pc = "unlink", !.live = Alive(r)]
  <2>1. proc[p] \in Program /\ proc \in [Procs -> Program]
    BY DEF StartupInv, StartupTypeOK
  <2>2. Alive(r) = FALSE
    BY <1>5 DEF IsStale, Alive
  <2>3. s \in Program /\ s.pc = "unlink" /\ s.live = FALSE /\ s.path = proc[p].path
    BY <2>1, <2>2 DEF Program, Counters
  <2>4. proc' = [proc EXCEPT ![p] = s] /\ proc'[p] = s
    BY <2>1, <1>5 DEF Program
  <2> HIDE DEF s
  <2>5. HasFile(p)' /\ JudgesWell(p)' /\ HeldIsNamed(p)'
    BY <1>1, <2>3, <2>4 DEF HasFile, JudgesWell, HeldIsNamed, Holding
  <2> QED
    BY <1>2, <2>3, <2>4, <2>5, OneMoves
<1>6. CASE Goto(p, IF create THEN "cleanup" ELSE "gone")
  BY <1>2, <1>6, GotoKeeps DEF Counters
<1> QED
  BY <1>3, <1>4, <1>5, <1>6 DEF JudgeLock

(* The file goes.  If it was a live process's, or one just made, it is     *)
(* stolen: nobody that judged it was wrong about whom it named.            *)
LEMMA UnlinkStaleKeeps == ASSUME StartupInv, NEW p \in Procs, UnlinkStale(p) PROVE StartupInv'
<1> DEFINE f == proc[p].path
           pc == IF proc[p].then = "create" THEN "create" ELSE "gone"
<1>1. HasFile(p) /\ JudgesWell(p) /\ f \in Paths /\ StartupTypeOK
  BY DEF StartupInv, UnlinkStale, HasFile
<1>2. CASE lockfile[f] = "none"
  BY <1>1, <1>2, GotoKeeps DEF Counters, UnlinkStale
<1>3. CASE lockfile[f] # "none"
  <2>1. lockfile' = [lockfile EXCEPT ![f] = "none"] /\ Stolen(p) /\ Goto(p, pc) /\ pc \in Counters
    BY <1>3 DEF UnlinkStale, Counters
  <2>2. lockfile' \in [Paths -> Contents] /\ stolen \subseteq stolen' /\ stolen' \subseteq Paths
    BY <1>1, <2>1 DEF Stolen, StartupTypeOK, Contents
  <2>3. PICK r \in Program : /\ proc' = [proc EXCEPT ![p] = r] /\ proc'[p] = r
                             /\ r.pc = pc /\ r.path = f /\ r.opts = proc[p].opts /\ r.read = "none" /\ ~r.live
    BY <2>1, GoesTo
  <2>4. ASSUME NEW q \in Procs \ {p}, Making(q) \/ Holding(q)
        PROVE  proc[q].path \in stolen' \/ lockfile'[proc[q].path] = lockfile[proc[q].path]
    <3>1. CASE proc[q].path = f
      <4>1. f \in stolen \/ lockfile[f] = "empty" \/ lockfile[f] = q
        BY <2>4, <3>1 DEF StartupInv, MadeIsEmpty, HeldIsNamed
      <4>2. Alive(q)
        BY <2>4 DEF Alive, Making, Holding, Ended
      <4> QED
        BY <4>1, <4>2, <3>1, <2>1, <1>1 DEF Stolen, JudgesWell
    <3>2. CASE proc[q].path # f
      <4>1. proc[q].path \in Paths
        BY <2>4, <3>2, <1>1 DEF StartupInv, HasFile, Making, Holding, StartupTypeOK, Program
      <4> QED
        BY <4>1, <3>2, <2>1, <1>1 DEF StartupTypeOK
    <3> QED
      BY <3>1, <3>2
  <2>5. HasFile(p)' /\ JudgesWell(p)' /\ MadeIsEmpty(p)' /\ HeldIsNamed(p)'
    BY <2>3, <1>1 DEF HasFile, JudgesWell, MadeIsEmpty, HeldIsNamed, Making, Holding
  <2> QED
    BY <2>2, <2>3, <2>4, <2>5, OneSteps
<1> QED
  BY <1>2, <1>3

(* O_EXCL: a file that is made was not there, so nobody held it.           *)
LEMMA CreateLockKeeps == ASSUME StartupInv, NEW p \in Procs, CreateLock(p) PROVE StartupInv'
<1> DEFINE f == proc[p].path
<1>1. HasFile(p) /\ JudgesWell(p) /\ f \in Paths /\ StartupTypeOK
  BY DEF StartupInv, CreateLock, HasFile
<1>2. CASE Goto(p, "cleanup") /\ UNCHANGED lockfile
  BY <1>2, GotoKeeps DEF Counters, CreateLock
<1>3. CASE lockfile[f] = "none" /\ lockfile' = [lockfile EXCEPT ![f] = "empty"] /\ Goto(p, "write")
  <2>1. lockfile' \in [Paths -> Contents] /\ stolen' = stolen /\ stolen \subseteq Paths
    BY <1>1, <1>3 DEF CreateLock, StartupTypeOK, Contents
  <2>2. PICK r \in Program : /\ proc' = [proc EXCEPT ![p] = r] /\ proc'[p] = r
                             /\ r.pc = "write" /\ r.path = f /\ r.opts = proc[p].opts /\ r.read = "none" /\ ~r.live
    BY <1>3, GoesTo DEF Counters
  <2>3. ASSUME NEW q \in Procs \ {p}, Making(q) \/ Holding(q)
        PROVE  /\ proc[q].path \in stolen' \/ lockfile'[proc[q].path] = lockfile[proc[q].path]
               /\ proc[q].path = f => f \in stolen
    <3>1. q # "none" /\ proc[q].path \in Paths
      BY <2>3 DEF StartupInv, HasFile, Making, Holding, StartupTypeOK, Program
    <3>2. proc[q].path = f => f \in stolen
      BY <3>1, <2>3, <1>3 DEF StartupInv, MadeIsEmpty, HeldIsNamed
    <3> QED
      BY <3>1, <3>2, <2>1, <1>1, <1>3 DEF StartupTypeOK
  <2>4. HasFile(p)' /\ JudgesWell(p)' /\ MadeIsEmpty(p)' /\ HeldIsNamed(p)'
    BY <2>2, <1>1, <1>3 DEF HasFile, JudgesWell, MadeIsEmpty, HeldIsNamed, Making, Holding, StartupTypeOK
  <2> QED
    BY <2>1, <2>2, <2>3, <2>4, OneSteps
<1> QED
  BY <1>2, <1>3 DEF CreateLock, MayCreate

LEMMA WriteLockKeeps == ASSUME StartupInv, NEW p \in Procs, WriteLock(p) PROVE StartupInv'
<1> DEFINE f == proc[p].path
<1>1. HasFile(p) /\ JudgesWell(p) /\ MadeIsEmpty(p) /\ Making(p) /\ f \in Paths /\ StartupTypeOK
  BY DEF StartupInv, WriteLock, HasFile, Making
<1>2. CASE Goto(p, "cleanup") /\ UNCHANGED lockfile
  BY <1>2, GotoKeeps DEF Counters, WriteLock
<1>3. CASE lockfile' = [lockfile EXCEPT ![f] = IF @ = "empty" THEN p ELSE @] /\ Goto(p, "pid")
  <2>1. lockfile' \in [Paths -> Contents] /\ stolen' = stolen /\ stolen \subseteq Paths
    BY <1>1, <1>3 DEF WriteLock, StartupTypeOK, Contents
  <2>2. PICK r \in Program : /\ proc' = [proc EXCEPT ![p] = r] /\ proc'[p] = r
                             /\ r.pc = "pid" /\ r.path = f /\ r.opts = proc[p].opts /\ r.read = "none" /\ ~r.live
    BY <1>3, GoesTo DEF Counters
  <2>3. ASSUME NEW q \in Procs \ {p}, Making(q) \/ Holding(q)
        PROVE  proc[q].path \in stolen' \/ lockfile'[proc[q].path] = lockfile[proc[q].path]
    <3>1. q # "empty" /\ proc[q].path \in Paths
      BY <2>3 DEF StartupInv, HasFile, Making, Holding, StartupTypeOK, Program
    <3>2. proc[q].path = f /\ Making(q) => f \in stolen
      BY <1>1, <2>3 DEF StartupInv, OneMaker
    <3>3. proc[q].path = f /\ Holding(q) => f \in stolen
      BY <1>1, <3>1, <2>3 DEF StartupInv, MadeIsEmpty, HeldIsNamed
    <3> QED
      BY <3>1, <3>2, <3>3, <2>3, <2>1, <1>1, <1>3 DEF StartupTypeOK
  <2>4. f \in stolen \/ lockfile'[f] = p
    BY <1>1, <1>3 DEF MadeIsEmpty, StartupTypeOK
  <2>5. HasFile(p)' /\ JudgesWell(p)' /\ MadeIsEmpty(p)' /\ HeldIsNamed(p)'
    BY <2>1, <2>2, <2>4, <1>1 DEF HasFile, JudgesWell, MadeIsEmpty, HeldIsNamed, Making, Holding
  <2> QED
    BY <2>1, <2>2, <2>3, <2>5, OneSteps
<1> QED
  BY <1>2, <1>3 DEF WriteLock

LEMMA MakePidKeeps == ASSUME StartupInv, NEW p \in Procs, MakePid(p) PROVE StartupInv'
<1> DEFINE made == p \notin Testers
           r == [proc[p] EXCEPT !.pid = made, !.pc = "run"]
<1>1. proc[p] \in Program /\ proc \in [Procs -> Program] /\ HeldIsNamed(p) /\ JudgesWell(p)
  BY DEF StartupInv, StartupTypeOK
<1>2. made \in BOOLEAN /\ proc' = [proc EXCEPT ![p].pid = made, ![p].pc = "run"]
  BY DEF MakePid
<1> HIDE DEF made
<1>3. r \in Program /\ r.pc = "run" /\ r.live = proc[p].live /\ r.path = proc[p].path /\ r.opts = proc[p].opts
  BY <1>1, <1>2 DEF Program, Counters
<1>4. proc' = [proc EXCEPT ![p] = r] /\ proc'[p] = r
  BY <1>1, <1>2 DEF Program
<1> HIDE DEF r
<1>5. HasFile(p)' /\ JudgesWell(p)' /\ HeldIsNamed(p)'
  BY <1>1, <1>3, <1>4 DEF HasFile, JudgesWell, HeldIsNamed, Holding, MakePid
<1> QED
  BY <1>3, <1>4, <1>5, OneMoves DEF MakePid

LEMMA CleanupKeeps == ASSUME StartupInv, NEW p \in Procs, Cleanup(p) PROVE StartupInv'
<1>1. CASE Goto(p, "gone")
  BY <1>1, GotoKeeps DEF Cleanup, Counters
<1>2. CASE proc[p].path # NoPath /\ proc' = [proc EXCEPT ![p].pc = "read", ![p].then = "delete"]
  BY <1>2, ReadingKeeps DEF Cleanup
<1> QED
  BY <1>1, <1>2 DEF Cleanup

(* The file is its own: another that claims it has seen it stolen.         *)
LEMMA DeleteLockKeeps == ASSUME StartupInv, NEW p \in Procs, DeleteLock(p) PROVE StartupInv'
<1> DEFINE f == proc[p].path
<1>1. HasFile(p) /\ JudgesWell(p) /\ HeldIsNamed(p) /\ Holding(p) /\ f \in Paths /\ StartupTypeOK
  BY DEF StartupInv, DeleteLock, HasFile, Holding
<1>2. lockfile' \in [Paths -> Contents] /\ stolen' = stolen /\ stolen \subseteq Paths
  BY <1>1 DEF DeleteLock, StartupTypeOK, Contents
<1>3. PICK r \in Program : /\ proc' = [proc EXCEPT ![p] = r] /\ proc'[p] = r
                           /\ r.pc = "gone" /\ r.path = f /\ r.opts = proc[p].opts /\ r.read = "none" /\ ~r.live
  BY GoesTo DEF Counters, DeleteLock
<1>4. ASSUME NEW q \in Procs \ {p}, Making(q) \/ Holding(q)
      PROVE  proc[q].path \in stolen' \/ lockfile'[proc[q].path] = lockfile[proc[q].path]
  <2>1. p # "empty" /\ p # q /\ proc[q].path \in Paths
    BY <1>4 DEF StartupInv, HasFile, Making, Holding, StartupTypeOK, Program
  <2>2. proc[q].path = f => f \in stolen
    BY <1>1, <2>1, <1>4 DEF StartupInv, MadeIsEmpty, HeldIsNamed
  <2> QED
    BY <2>1, <2>2, <1>1, <1>2 DEF StartupTypeOK, DeleteLock
<1>5. HasFile(p)' /\ JudgesWell(p)' /\ MadeIsEmpty(p)' /\ HeldIsNamed(p)'
  BY <1>3 DEF HasFile, JudgesWell, MadeIsEmpty, HeldIsNamed, Making, Holding
<1> QED
  BY <1>2, <1>3, <1>4, <1>5, OneSteps

---------------------------------------------------------------------------
LEMMA StartupStep == StartupInv /\ [StartupNext]_startVars => StartupInv'
<1> SUFFICES ASSUME StartupInv, [StartupNext]_startVars PROVE StartupInv'
  OBVIOUS
<1>1. CASE UNCHANGED startVars
  BY <1>1 DEF startVars, StartupInv, StartupTypeOK, HasFile, JudgesWell, MadeIsEmpty, HeldIsNamed, OneMaker,
              Making, Holding
<1>2. CASE StartupNext
  <2>1. PICK p \in Procs :
          \/ \E o \in OptionSets : Start(p, o)
          \/ \E c \in Configs : check_for_config(p, c)
          \/ Attach(p) \/ ReadLock(p) \/ JudgeLock(p) \/ UnlinkStale(p) \/ CreateLock(p)
          \/ WriteLock(p) \/ MakePid(p) \/ Cleanup(p) \/ DeleteLock(p) \/ Exit(p) \/ Crash(p)
    BY <1>2 DEF StartupNext
  <2>2. CASE Exit(p) \/ Crash(p)
    BY <2>2, DeathKeeps DEF Exit, Crash
  <2> QED
    BY <2>1, <2>2, StartKeeps, ConfigKeeps, AttachKeeps, ReadLockKeeps, JudgeLockKeeps, UnlinkStaleKeeps,
       CreateLockKeeps, WriteLockKeeps, MakePidKeeps, CleanupKeeps, DeleteLockKeeps
<1> QED
  BY <1>1, <1>2

(* However many daemons and apctests start, end and are killed, on however *)
(* many devices and whatever their lock files held, two of them have the   *)
(* UPS on the same device only when a lock file was removed as stale after *)
(* another had made it: create_lockfile() and delete_lockfile() of         *)
(* apclock.c have no other hole.                                           *)
THEOREM LockAlwaysExclusive == StartupSpec => []LockIsExclusive
<1>1. StartupInit => StartupInv
  BY StartsRight
<1>2. StartupInv /\ [StartupNext]_startVars => StartupInv'
  BY StartupStep
<1>3. StartupInv => LockIsExclusive
  BY ExclusiveFollows
<1> QED
  BY <1>1, <1>2, <1>3, PTL DEF StartupSpec

(***************************************************************************)
(* apctest.                                                                *)
(***************************************************************************)
Registers == {"NONE", "PASSED", "FAILED", "REFUSED", "ABORTED", "PENDING", "IN PROGRESS"}
Functions == {"menu", "none", "test", "calibration", "kill", "sens", "alarm", "interval",
              "xferv", "date"}
Places == {"menu", "dead", "abort old", "clear", "cleared", "start", "wait", "result", "D",
           "link", "monitor", "write", "read", "ask", "kill"}
Reports == {"nothing", "not started", "FAILED", "COMPLETED",
            "DID NOT COMPLETE", "ERROR", "user", "error", "ABORTED", "terminated",
            "response to abort request", "unexpected response", "terminated by UPS"}
Results == Registers \cup {"nothing", "unreadable"}

UnitType == [run : {"none", "test", "calibration"}, reg : Registers, clear : BOOLEAN,
             alert : BOOLEAN, setting : Accepted, coming : SUBSET Accepted,
             cable : CableNames \cup {"none"}]
ToolType == [mode : TestModes, fn : Functions, pc : Places, n : Nat, stop : BOOLEAN,
             monitor : BOOLEAN, want : Nat, said : Reports, result : Results, told : Nat,
             pwrfail : BOOLEAN, glitches : Nat]

TestTypeOK == unit \in UnitType /\ tool \in ToolType

LEMMA SumIs ==
    ASSUME NEW m \in Nat, NEW n \in Nat
    PROVE  m + n \in Nat
  OBVIOUS

(* The records that the program and the UPS go on with.                    *)
LEMMA ToolSteps ==
    ASSUME NEW t \in ToolType
    PROVE  /\ WithGlitch(t) \in ToolType
           /\ WithGlitch(t).fn = t.fn /\ WithGlitch(t).pc = t.pc /\ WithGlitch(t).mode = t.mode
           /\ WithGlitch(t).said = t.said /\ WithGlitch(t).told = t.told
           /\ WithGlitch(t).want = t.want /\ WithGlitch(t).pwrfail = t.pwrfail
           /\ WithGlitch(t).stop = t.stop /\ WithGlitch(t).result = t.result
  BY DEF WithGlitch, ToolType

LEMMA GoesIs ==
    ASSUME TestTypeOK, NEW pc \in Places, NEW n \in Nat
    PROVE  /\ Goes(pc, n) \in ToolType
           /\ Goes(pc, n).pc = pc /\ Goes(pc, n).fn = tool.fn /\ Goes(pc, n).mode = tool.mode
           /\ Goes(pc, n).said = tool.said /\ Goes(pc, n).told = tool.told
           /\ Goes(pc, n).want = tool.want /\ Goes(pc, n).pwrfail = tool.pwrfail
           /\ Goes(pc, n).stop = tool.stop /\ Goes(pc, n).result = tool.result
  BY DEF Goes, ToolType, TestTypeOK

LEMMA SaysIs ==
    ASSUME TestTypeOK, NEW said \in Reports
    PROVE  /\ Says(said) \in ToolType
           /\ Says(said).pc = "menu" /\ Says(said).fn = "menu" /\ Says(said).mode = tool.mode
           /\ Says(said).said = said /\ Says(said).told = tool.told
           /\ Says(said).want = tool.want /\ Says(said).pwrfail = tool.pwrfail
           /\ Says(said).stop = tool.stop
           /\ said = "COMPLETED" => Says(said).result = tool.result
<1> DEFINE r == Goes("menu", 0)
           shown == IF said = "COMPLETED" THEN tool.result ELSE "nothing"
<1>0. "menu" \in Places /\ "menu" \in Functions
  BY DEF Places, Functions
<1>1. r \in ToolType
  BY <1>0, GoesIs
<1>2. Says(said) = [r EXCEPT !.fn = "menu", !.said = said, !.result = shown]
  BY DEF Says, Goes
<1>3. /\ r.pc = "menu" /\ r.mode = tool.mode /\ r.told = tool.told
      /\ r.want = tool.want /\ r.pwrfail = tool.pwrfail /\ r.stop = tool.stop
  BY <1>0, GoesIs
<1>4. shown \in Results /\ (said = "COMPLETED" => shown = tool.result)
  BY DEF TestTypeOK, ToolType, Results
<1> HIDE DEF r, shown
<1> QED
  BY <1>0, <1>1, <1>2, <1>3, <1>4 DEF ToolType

LEMMA CompletedIs ==
    ASSUME TestTypeOK, NEW shown \in Results
    PROVE  LET t == Completed(shown)
           IN  /\ t \in ToolType /\ t.pc = "menu" /\ t.fn = "menu" /\ t.mode = tool.mode
               /\ t.said = "COMPLETED" /\ t.result = shown /\ t.told = tool.told
               /\ t.pwrfail = tool.pwrfail
<1> DEFINE r == Says("COMPLETED")
<1>1. "COMPLETED" \in Reports
  BY DEF Reports
<1>2. /\ r \in ToolType /\ r.pc = "menu" /\ r.fn = "menu" /\ r.mode = tool.mode
      /\ r.said = "COMPLETED" /\ r.told = tool.told /\ r.pwrfail = tool.pwrfail
  BY <1>1, SaysIs
<1>3. Completed(shown) = [r EXCEPT !.result = shown]
  BY DEF Completed
<1> HIDE DEF r
<1> QED
  BY <1>2, <1>3 DEF ToolType

LEMMA DiesIs ==
    ASSUME TestTypeOK
    PROVE  /\ Dies \in ToolType
           /\ Dies.pc = "dead" /\ Dies.fn = "none" /\ Dies.mode = tool.mode
           /\ Dies.said = tool.said /\ Dies.told = tool.told
           /\ Dies.want = tool.want /\ Dies.pwrfail = tool.pwrfail
           /\ Dies.stop = tool.stop
<1>1. tool \in ToolType
  BY DEF TestTypeOK
<1>2. "dead" \in Places /\ "none" \in Functions
  BY DEF Places, Functions
<1> QED
  BY <1>1, <1>2 DEF Dies, ToolType

(* A command is obeyed or not; what is coming stays, and an abort that is  *)
(* acknowledged leaves nothing running.                                    *)
LEMMA CommandsIs ==
    ASSUME TestTypeOK, NEW cmd \in {"abort", "clear", "test", "calibration"},
           NEW o \in Commanded(cmd)
    PROVE  /\ o.unit \in UnitType /\ o.cost \in Nat /\ o.ok \in BOOLEAN
           /\ o.unit.setting = unit.setting /\ o.unit.coming = unit.coming
           /\ o.unit.cable = unit.cable /\ o.unit.alert = unit.alert
           /\ \/ o.unit.run = unit.run /\ o.unit.reg = unit.reg
              \/ o.unit.run = "none"
              \/ o.unit.run # "none" /\ o.unit.reg = Waiting /\ cmd \notin {"abort", "clear"}
           /\ o.ok /\ cmd = "abort" => o.unit.run = "none"
<1>1. \A u \in Obeyed(cmd) :
        /\ u \in UnitType
        /\ u.setting = unit.setting /\ u.coming = unit.coming
        /\ u.cable = unit.cable /\ u.alert = unit.alert
        /\ \/ u.run = unit.run /\ u.reg = unit.reg
           \/ u.run = "none"
           \/ u.run # "none" /\ u.reg = Waiting /\ cmd \notin {"abort", "clear"}
        /\ cmd = "abort" => u.run = "none"
  <2>0. Waiting \in Registers /\ {"ABORTED", "REFUSED"} \subseteq Registers
    BY DEF Waiting, Registers
  <2>1. CASE cmd = "abort"
    BY <2>0, <2>1 DEF Obeyed, UnitType, TestTypeOK
  <2>2. CASE cmd = "clear"
    BY <2>2 DEF Obeyed, UnitType, TestTypeOK
  <2>3. CASE cmd \in {"test", "calibration"}
    BY <2>0, <2>3, ZenonT(30) DEF Obeyed, UnitType, TestTypeOK
  <2> QED
    BY <2>1, <2>2, <2>3
<1>2. /\ o.ok \in BOOLEAN /\ o.cost \in {0, 1}
      /\ o.unit \in Obeyed(cmd) \/ (o.unit = unit /\ ~o.ok)
  BY DEF Commanded
<1> QED
  BY <1>1, <1>2 DEF TestTypeOK

(* Where the program is, by the function it is in.                         *)
SettingFns == Listed \cup {"xferv", "date"}
PlaceInv ==
    /\ tool.fn = "menu" <=> tool.pc = "menu"
    /\ tool.pc \in {"abort old", "clear", "cleared", "start", "wait", "result"} =>
          tool.fn \in {"test", "calibration"} /\ tool.mode \in {"usb", "modbus"}
    /\ tool.pc \in {"D", "link", "monitor"} => tool.fn = "calibration" /\ tool.mode = "apcsmart"
    /\ tool.pc \in {"write", "read", "ask"} => tool.fn \in SettingFns
    /\ tool.pc = "kill" => tool.fn = "kill"

(* What the register of a UPS that runs a test says, and where a '$' can   *)
(* be on the way: these tell the program that a test is over.              *)
RunInv ==
    /\ tool.said \in Over /\ ~CompletedAlone /\ tool.fn \notin {"test", "calibration", "none"} =>
          unit.run = "none"
    /\ tool.pc = "result" /\ tool.mode = "modbus" => unit.run = "none"
    /\ tool.mode = "modbus" /\ unit.run # "none" => unit.reg \in {"PENDING", "IN PROGRESS"}
    /\ tool.mode = "usb" /\ unit.run # "none" => unit.reg \in {"NONE", "IN PROGRESS"}
    /\ unit.alert => unit.run = "none" /\ tool.mode = "apcsmart"

(* A setting that was told is in effect, or about to be: nothing else is   *)
(* coming.                                                                 *)
SettingInv ==
    /\ tool.told # 0 => /\ unit.setting = tool.told /\ unit.coming \subseteq {tool.told}
                        /\ tool.pc \notin {"write", "read", "ask"}
    /\ tool.pc = "read" /\ tool.fn = "date" => unit.coming \subseteq {Nearest(tool.want)}

KillFileInv == tool.pwrfail => tool.pc = "kill"

TestInv == TestTypeOK /\ PlaceInv /\ RunInv /\ SettingInv /\ KillFileInv

(* A set of natural numbers has a least element.                           *)
Less == {p \in Nat \X Nat : p[1] < p[2]}
LEMMA LeastNumber ==
    ASSUME NEW S, S \subseteq Nat, S # {}
    PROVE  \E x \in S : \A y \in S : x <= y
<1>1. IsWellFoundedOn(Less, Nat)
  BY NatLessThanWellFounded DEF OpToRel, Less
<1>2. PICK x \in S : \A y \in S : ~ (<<y, x>> \in Less)
  BY <1>1, WFMin
<1>3. ASSUME NEW y \in S PROVE x <= y
  <2>1. ~ (y < x)
    BY <1>2 DEF Less
  <2> QED
    BY <2>1
<1> QED
  BY <1>3

(* A value the UPS takes is the nearest to itself, and every value has a   *)
(* nearest one.                                                            *)
LEMMA NearestIs ==
    ASSUME NEW v \in Nat
    PROVE  Nearest(v) \in Accepted /\ (v \in Accepted => Nearest(v) = v)
<1> DEFINE Far(r) == IF r < v THEN v - r ELSE r - v
           Nearer(r) == \A q \in Accepted : Far(r) <= Far(q)
<1>1. Accepted \subseteq Nat /\ Accepted # {}
  BY ApctestAssumption
<1>2. \A r \in Accepted : Far(r) \in Nat
  BY <1>1
<1>3. Nearest(v) = CHOOSE r \in Accepted : Nearer(r)
  BY DEF Nearest
<1>4. \E r \in Accepted : Nearer(r)
  <2> DEFINE S == {Far(r) : r \in Accepted}
  <2>1. S \subseteq Nat /\ S # {}
    BY <1>1, <1>2
  <2> HIDE DEF S
  <2>2. PICK x \in S : \A y \in S : x <= y
    BY <2>1, LeastNumber
  <2> HIDE DEF Far
  <2> QED
    BY <2>2 DEF S
<1>5. Nearest(v) \in Accepted /\ Nearer(Nearest(v))
  <2> HIDE DEF Nearer
  <2> QED
    BY <1>3, <1>4
<1>6. ASSUME v \in Accepted PROVE Nearest(v) = v
  <2> DEFINE r == Nearest(v)
  <2>1. r \in Nat /\ v \in Nat /\ Far(r) <= Far(v)
    BY <1>1, <1>5, <1>6
  <2> HIDE DEF r
  <2>2. r = v
    BY <2>1
  <2> QED
    BY <2>2 DEF r
<1> QED
  BY <1>5, <1>6

(* The steps of the program that leave the settings alone, and in which    *)
(* the UPS at most stops or, when it is told to, starts.                   *)
LEMMA Carries ==
    ASSUME TestInv, tool' \in ToolType, unit' \in UnitType,
           tool'.mode = tool.mode, PlaceInv',
           UNCHANGED <<unit.setting, unit.coming>>,
           unit'.alert => unit.alert,
           \/ UNCHANGED <<unit.run, unit.reg>>
           \/ unit'.run = "none"
           \/ unit'.reg = Waiting /\ tool.mode \in {"usb", "modbus"}
           \/ ~unit'.alert /\ tool.mode = "apcsmart",
           tool'.said \in Over /\ ~CompletedAlone' /\ tool'.fn \notin {"test", "calibration", "none"} =>
              unit'.run = "none",
           tool'.pc = "result" /\ tool.mode = "modbus" => unit'.run = "none",
           tool'.told # 0 => tool'.told = tool.told,
           tool'.pc \notin {"write", "read", "ask"},
           ~tool'.pwrfail
    PROVE  TestInv'
<1>1. TestTypeOK'
  BY DEF TestTypeOK
<1>2. RunInv'
  BY DEF TestInv, RunInv, Waiting
<1>3. SettingInv'
  BY DEF TestInv, SettingInv
<1>4. KillFileInv'
  BY DEF KillFileInv
<1> QED
  BY <1>1, <1>2, <1>3, <1>4 DEF TestInv

(* The UPS.                                                                *)
LEMMA UnitSteps ==
    ASSUME TestInv, UnitStep
    PROVE  TestInv'
<1> DEFINE u == unit
<1>0. u \in UnitType /\ tool \in ToolType /\ UNCHANGED tool
  BY DEF TestInv, TestTypeOK, UnitStep
<1>b. u.clear \in BOOLEAN /\ u.alert \in BOOLEAN /\ u.setting \in Accepted /\ u.coming \in SUBSET Accepted
      /\ {"NONE", "PASSED", "FAILED", "IN PROGRESS"} \subseteq Registers
  BY <1>0 DEF UnitType, Registers
<1>1. ASSUME u.run = "none", unit' = [unit EXCEPT !.clear = FALSE, !.reg = "NONE"]
      PROVE  TestInv'
  <2>1. /\ unit' \in UnitType /\ unit'.run = "none" /\ unit'.alert = u.alert
        /\ unit'.setting = u.setting /\ unit'.coming = u.coming
    BY <1>0, <1>b, <1>1 DEF UnitType
  <2> QED
    BY <1>0, <2>1 DEF TestInv, TestTypeOK, PlaceInv, RunInv, CompletedAlone, SettingInv, KillFileInv
<1>2. ASSUME u.run # "none", tool.mode # "apcsmart",
             unit' = [unit EXCEPT !.reg = "IN PROGRESS", !.clear = FALSE]
      PROVE  TestInv'
  <2>1. /\ unit' \in UnitType /\ unit'.run = u.run /\ unit'.alert = u.alert
        /\ unit'.setting = u.setting /\ unit'.coming = u.coming /\ unit'.reg = "IN PROGRESS"
    BY <1>0, <1>b, <1>2 DEF UnitType
  <2> QED
    BY <1>0, <2>1 DEF TestInv, TestTypeOK, PlaceInv, RunInv, CompletedAlone, SettingInv, KillFileInv
<1>3. ASSUME NEW r \in {"PASSED", "FAILED"}, u.run # "none",
             unit' = [unit EXCEPT !.run = "none", !.reg = r, !.alert = tool.mode = "apcsmart"]
      PROVE  TestInv'
  <2>1. /\ unit' \in UnitType /\ unit'.run = "none" /\ (unit'.alert <=> tool.mode = "apcsmart")
        /\ unit'.setting = u.setting /\ unit'.coming = u.coming
    BY <1>0, <1>b, <1>3 DEF UnitType
  <2> QED
    BY <1>0, <2>1 DEF TestInv, TestTypeOK, PlaceInv, RunInv, CompletedAlone, SettingInv, KillFileInv
<1>4. ASSUME NEW v \in u.coming, unit' = [unit EXCEPT !.setting = v, !.coming = {}]
      PROVE  TestInv'
  <2>1. /\ unit' \in UnitType /\ unit'.run = u.run /\ unit'.alert = u.alert /\ unit'.reg = u.reg
        /\ unit'.setting = v /\ unit'.coming = {}
    BY <1>0, <1>b, <1>4 DEF UnitType
  <2> QED
    BY <1>0, <2>1 DEF TestInv, TestTypeOK, PlaceInv, RunInv, CompletedAlone, SettingInv, KillFileInv
<1> QED
  BY <1>1, <1>2, <1>3, <1>4 DEF UnitStep

(* A command was sent, and the program goes on with t.                     *)
LEMMA CommandSteps ==
    ASSUME TestInv, NEW cmd \in {"abort", "clear", "test", "calibration"},
           NEW o \in Commanded(cmd), NEW t \in ToolType, After(o, t),
           tool.mode \in {"usb", "modbus"}, t.mode = tool.mode,
           t.fn = "menu" <=> t.pc = "menu",
           t.pc \in {"menu", "abort old", "clear", "cleared", "start", "wait"},
           t.pc # "menu" => t.fn \in {"test", "calibration"},
           t.said \in Over => t.fn # "menu" \/ o.unit.run = "none",
           t.told = tool.told, ~t.pwrfail
    PROVE  TestInv'
<1>1. unit' = o.unit /\ tool' = [t EXCEPT !.glitches = @ + o.cost]
  BY DEF After
<1>2. /\ o.unit \in UnitType /\ o.cost \in Nat
      /\ o.unit.setting = unit.setting /\ o.unit.coming = unit.coming
      /\ o.unit.alert = unit.alert
      /\ \/ o.unit.run = unit.run /\ o.unit.reg = unit.reg
         \/ o.unit.run = "none"
         \/ o.unit.reg = Waiting
  BY CommandsIs DEF TestInv
<1>3. /\ tool' \in ToolType /\ tool'.mode = t.mode /\ tool'.fn = t.fn /\ tool'.pc = t.pc
      /\ tool'.said = t.said /\ tool'.told = t.told /\ tool'.pwrfail = t.pwrfail
  <2> DEFINE g == t.glitches
             k == o.cost
  <2>0. g \in Nat
    BY DEF ToolType
  <2>1. k \in Nat
    BY <1>2
  <2>2. tool' = [t EXCEPT !.glitches = g + k]
    BY <1>1
  <2> HIDE DEF g, k
  <2>3. g + k \in Nat
    BY <2>0, <2>1, SumIs
  <2>4. t.stop \in BOOLEAN /\ t.monitor \in BOOLEAN /\ t.pwrfail \in BOOLEAN
    BY DEF ToolType
  <2> QED
    BY <2>2, <2>3, <2>4 DEF ToolType
<1>4. PlaceInv'
  BY <1>3 DEF PlaceInv
<1> QED
  BY <1>1, <1>2, <1>3, <1>4, Carries

(* What is known of the program while it tests a USB or MODBUS UPS.        *)
LEMMA Testing ==
    ASSUME TestInv, tool.pc \in {"abort old", "clear", "cleared", "start", "wait", "result"}
    PROVE  /\ tool.mode \in {"usb", "modbus"} /\ tool.fn \in {"test", "calibration"}
           /\ tool.fn # "menu" /\ ~tool.pwrfail
  BY DEF TestInv, PlaceInv, KillFileInv

LEMMA WordsAre ==
    /\ {"menu", "abort old", "clear", "cleared", "start", "wait", "result", "D", "link",
        "monitor", "write", "read", "ask", "kill"} \subseteq Places
    /\ Over \subseteq Reports
    /\ {"nothing", "not started", "FAILED", "DID NOT COMPLETE", "ERROR", "user",
        "error", "response to abort request", "unexpected response"} \subseteq Reports \ Over
    /\ {"menu", "test", "calibration", "kill"} \cup SettingFns \subseteq Functions
  BY DEF Places, Reports, Functions, Over, SettingFns, Listed

LEMMA ClearSteps ==
    ASSUME TestInv, AbortOld \/ ClearResult \/ ClearPoll \/ StartTest
    PROVE  TestInv'
<1>t. TestTypeOK /\ 0 \in Nat
  BY DEF TestInv
<1>g. ASSUME NEW p \in {"clear", "cleared", "start", "wait"}, NEW n \in Nat
      PROVE  /\ Goes(p, n) \in ToolType /\ Goes(p, n).pc = p /\ Goes(p, n).fn = tool.fn
             /\ Goes(p, n).mode = tool.mode /\ Goes(p, n).told = tool.told
             /\ Goes(p, n).pwrfail = tool.pwrfail
  <2>1. p \in Places
    BY WordsAre
  <2> QED
    BY <1>t, <2>1, GoesIs
<1>s. /\ Says("FAILED") \in ToolType /\ Says("FAILED").pc = "menu" /\ Says("FAILED").fn = "menu"
      /\ Says("FAILED").mode = tool.mode /\ Says("FAILED").told = tool.told
      /\ Says("FAILED").pwrfail = tool.pwrfail /\ Says("FAILED").said \notin Over
  BY <1>t, WordsAre, SaysIs
<1>1. CASE AbortOld
  <2>1. PICK o \in Commanded("abort") : After(o, Goes("clear", 0))
    BY <1>1 DEF AbortOld
  <2>2. tool.pc = "abort old"
    BY <1>1 DEF AbortOld
  <2> DEFINE t == Goes("clear", 0)
  <2>3. t \in ToolType /\ t.pc = "clear" /\ t.fn = tool.fn /\ t.mode = tool.mode
        /\ t.told = tool.told /\ t.pwrfail = tool.pwrfail /\ After(o, t)
    BY <1>g, <1>t, <2>1
  <2> HIDE DEF t
  <2> QED
    BY <2>1, <2>2, <2>3, Testing, CommandSteps
<1>2. CASE ClearResult
  <2>1. PICK o \in Commanded("clear") : After(o, IF o.ok THEN Goes("cleared", 0) ELSE Says("FAILED"))
    BY <1>2 DEF ClearResult
  <2>2. tool.pc = "clear"
    BY <1>2 DEF ClearResult
  <2>3. CASE o.ok
    <3>1. After(o, Goes("cleared", 0))
      BY <2>1, <2>3
    <3> DEFINE t == Goes("cleared", 0)
    <3>2. t \in ToolType /\ t.pc = "cleared" /\ t.fn = tool.fn /\ t.mode = tool.mode
          /\ t.told = tool.told /\ t.pwrfail = tool.pwrfail /\ After(o, t)
      BY <1>g, <1>t, <3>1
    <3> HIDE DEF t
    <3> QED
      BY <3>2, <3>1, <2>2, Testing, CommandSteps
  <2>4. CASE ~o.ok
    <3>1. After(o, Says("FAILED"))
      BY <2>1, <2>4
    <3> QED
      BY <1>s, <3>1, <2>2, Testing, CommandSteps
  <2> QED
    BY <2>3, <2>4
<1>3. CASE ClearPoll
  <2>1. tool.pc = "cleared" /\ UNCHANGED unit /\ tool.n \in Nat /\ tool.n + 1 \in Nat
    BY <1>3, <1>t DEF ClearPoll, TestTypeOK, ToolType
  <2>2. \/ tool' = Goes("start", 0) \/ tool' = Says("FAILED") \/ tool' = Goes("cleared", tool.n + 1)
        \/ tool' = WithGlitch(Says("FAILED"))
    BY <1>3 DEF ClearPoll
  <2>3. /\ tool' \in ToolType /\ tool'.mode = tool.mode /\ tool'.told = tool.told
        /\ tool'.pwrfail = tool.pwrfail
        /\ \/ tool'.fn = tool.fn /\ tool'.pc \in {"start", "cleared"}
           \/ tool'.fn = "menu" /\ tool'.pc = "menu" /\ tool'.said \notin Over
    BY <1>g, <1>s, <2>1, <2>2, ToolSteps
  <2>4. PlaceInv'
    BY <2>1, <2>3, Testing DEF PlaceInv
  <2>5. unit' \in UnitType /\ UNCHANGED <<unit.setting, unit.coming, unit.run, unit.reg, unit.alert>>
    BY <1>t, <2>1 DEF TestTypeOK
  <2> QED
    BY <2>1, <2>3, <2>4, <2>5, Testing, Carries
<1>4. CASE StartTest
  <2>1. tool.pc = "start"
    BY <1>4 DEF StartTest
  <2>2. PICK o \in Commanded(tool.fn) : After(o, IF o.ok THEN Goes("wait", 0) ELSE Says("FAILED"))
    BY <1>4 DEF StartTest
  <2>3. tool.fn \in {"abort", "clear", "test", "calibration"}
    BY <2>1, Testing
  <2>4. CASE o.ok
    <3>1. After(o, Goes("wait", 0))
      BY <2>2, <2>4
    <3> DEFINE t == Goes("wait", 0)
    <3>2. t \in ToolType /\ t.pc = "wait" /\ t.fn = tool.fn /\ t.mode = tool.mode
          /\ t.told = tool.told /\ t.pwrfail = tool.pwrfail /\ After(o, t)
      BY <1>g, <1>t, <3>1
    <3> HIDE DEF t
    <3> QED
      BY <3>2, <3>1, <2>1, <2>3, Testing, CommandSteps
  <2>5. CASE ~o.ok
    <3>1. After(o, Says("FAILED"))
      BY <2>2, <2>5
    <3> QED
      BY <1>s, <3>1, <2>1, <2>3, Testing, CommandSteps
  <2> QED
    BY <2>4, <2>5
<1> QED
  BY <1>1, <1>2, <1>3, <1>4

(* AbortTest() acknowledged: nothing runs.                                 *)
LEMMA AbortSteps ==
    ASSUME TestInv, NEW t \in ToolType, NEW word \in Reports, AbortTest(t, word),
           t.fn = "menu", t.pc = "menu", t.mode = tool.mode, tool.mode \in {"usb", "modbus"},
           t.told = tool.told, ~t.pwrfail
    PROVE  TestInv'
<1>1. PICK o \in Commanded("abort") :
         /\ unit' = o.unit
         /\ tool' = [t EXCEPT !.said = IF o.ok THEN word ELSE "FAILED", !.glitches = @ + o.cost]
  BY DEF AbortTest, AbortCode
<1>2. /\ o.unit \in UnitType /\ o.cost \in Nat /\ o.ok \in BOOLEAN
      /\ o.unit.setting = unit.setting /\ o.unit.coming = unit.coming
      /\ o.unit.alert = unit.alert
      /\ \/ o.unit.run = unit.run /\ o.unit.reg = unit.reg
         \/ o.unit.run = "none"
         \/ o.unit.reg = Waiting
      /\ o.ok => o.unit.run = "none"
  BY CommandsIs DEF TestInv
<1> DEFINE g == t.glitches
           k == o.cost
           said == IF o.ok THEN word ELSE "FAILED"
<1>3. g \in Nat /\ k \in Nat /\ t.stop \in BOOLEAN /\ t.monitor \in BOOLEAN /\ t.pwrfail \in BOOLEAN
  BY <1>2 DEF ToolType
<1>4. g + k \in Nat
  <2> HIDE DEF g, k
  <2> QED
    BY <1>3
<1>5. said \in Reports /\ (said \in Over => o.ok)
  BY WordsAre
<1>6. tool' = [t EXCEPT !.said = said, !.glitches = g + k]
  BY <1>1
<1> HIDE DEF g, k, said
<1>7. /\ tool' \in ToolType /\ tool'.mode = t.mode /\ tool'.fn = t.fn /\ tool'.pc = t.pc
      /\ tool'.said = said /\ tool'.told = t.told /\ tool'.pwrfail = t.pwrfail
  BY <1>3, <1>4, <1>5, <1>6 DEF ToolType
<1>8. PlaceInv'
  BY <1>7 DEF PlaceInv
<1> QED
  BY <1>1, <1>2, <1>5, <1>7, <1>8, Carries

LEMMA TestPollSteps ==
    ASSUME TestInv, SelfTestPoll \/ CalibrationPoll \/ GetResult
    PROVE  TestInv'
<1>t. TestTypeOK
  BY DEF TestInv
<1>s. ASSUME NEW said \in Reports
      PROVE  /\ Says(said) \in ToolType /\ Says(said).pc = "menu" /\ Says(said).fn = "menu"
             /\ Says(said).mode = tool.mode /\ Says(said).told = tool.told
             /\ Says(said).pwrfail = tool.pwrfail /\ Says(said).said = said
             /\ WithGlitch(Says(said)) \in ToolType /\ WithGlitch(Says(said)).pc = "menu"
             /\ WithGlitch(Says(said)).fn = "menu"
             /\ WithGlitch(Says(said)).mode = tool.mode /\ WithGlitch(Says(said)).told = tool.told
             /\ WithGlitch(Says(said)).pwrfail = tool.pwrfail /\ WithGlitch(Says(said)).said = said
  BY <1>t, SaysIs, ToolSteps
<1>w. /\ tool.pc \in {"wait", "result"} /\ tool.mode \in {"usb", "modbus"} /\ ~tool.pwrfail
      /\ tool.fn \in {"test", "calibration"}
  BY Testing DEF SelfTestPoll, CalibrationPoll, GetResult, In
(* A report without a command: what is told to be over is.                 *)
<1>r. ASSUME UNCHANGED unit, NEW said \in Reports, said \in Over => unit.run = "none",
             tool' = Says(said) \/ tool' = WithGlitch(Says(said))
      PROVE  TestInv'
  <2>1. /\ tool' \in ToolType /\ tool'.pc = "menu" /\ tool'.fn = "menu"
        /\ tool'.mode = tool.mode /\ tool'.told = tool.told
        /\ tool'.pwrfail = tool.pwrfail /\ tool'.said = said
    BY <1>r, <1>s
  <2>2. PlaceInv'
    BY <2>1 DEF PlaceInv
  <2>3. unit' \in UnitType /\ UNCHANGED <<unit.setting, unit.coming, unit.run, unit.reg, unit.alert>>
    BY <1>t, <1>r DEF TestTypeOK
  <2> QED
    BY <1>r, <1>w, <2>1, <2>2, <2>3, Carries
(* The register is to be read once more.                                   *)
<1>q. ASSUME UNCHANGED unit, tool' = Goes("result", 0), tool.mode = "modbus" => unit.run = "none"
      PROVE  TestInv'
  <2>1. "result" \in Places /\ 0 \in Nat
    BY WordsAre
  <2>2. /\ tool' \in ToolType /\ tool'.pc = "result" /\ tool'.fn = tool.fn
        /\ tool'.mode = tool.mode /\ tool'.told = tool.told /\ tool'.pwrfail = tool.pwrfail
    BY <1>t, <1>q, <2>1, GoesIs
  <2>3. PlaceInv'
    BY <1>w, <2>2 DEF PlaceInv
  <2>4. unit' \in UnitType /\ UNCHANGED <<unit.setting, unit.coming, unit.run, unit.reg, unit.alert>>
    BY <1>t, <1>q DEF TestTypeOK
  <2> QED
    BY <1>q, <1>w, <2>2, <2>3, <2>4, Carries
(* "COMPLETED", and a result that is not final or nothing that runs.       *)
<1>c. ASSUME UNCHANGED unit, NEW shown \in Results,
             tool' = Completed(shown) \/ tool' = WithGlitch(Completed(shown)),
             unit.run = "none" \/ (tool.mode = "usb" /\ shown \in NoResult)
      PROVE  TestInv'
  <2> DEFINE t == Completed(shown)
  <2>1. /\ t \in ToolType /\ t.pc = "menu" /\ t.fn = "menu" /\ t.mode = tool.mode
        /\ t.said = "COMPLETED" /\ t.result = shown /\ t.told = tool.told
        /\ t.pwrfail = tool.pwrfail
    BY <1>t, CompletedIs
  <2>2. tool' = t \/ tool' = WithGlitch(t)
    BY <1>c
  <2> HIDE DEF t
  <2>3. /\ tool' \in ToolType /\ tool'.pc = "menu" /\ tool'.fn = "menu"
        /\ tool'.mode = tool.mode /\ tool'.told = tool.told /\ tool'.pwrfail = tool.pwrfail
        /\ tool'.said = "COMPLETED" /\ tool'.result = shown
    BY <2>1, <2>2, ToolSteps
  <2>4. PlaceInv'
    BY <2>3 DEF PlaceInv
  <2>5. unit' \in UnitType /\ UNCHANGED <<unit.setting, unit.coming, unit.run, unit.reg, unit.alert>>
    BY <1>t, <1>c DEF TestTypeOK
  <2>6. unit'.run = "none" \/ CompletedAlone'
    BY <1>c, <2>3 DEF CompletedAlone
  <2> QED
    BY <1>w, <2>3, <2>4, <2>5, <2>6, Carries
<1>1. CASE SelfTestPoll
  <2>1. ASSUME SelfTestOver, UNCHANGED unit, tool' = Goes("result", 0)
        PROVE  TestInv'
    <3>1. tool.mode = "modbus" => unit.run = "none"
      BY <2>1 DEF SelfTestOver, TestInv, RunInv
    <3> QED
      BY <1>q, <2>1, <3>1
  <2>2. ASSUME UNCHANGED unit, tool' = Goes("wait", tool.n + 1)
        PROVE  TestInv'
    <3> DEFINE n == tool.n
    <3>1. n \in Nat
      BY <1>t DEF TestTypeOK, ToolType
    <3>2. n + 1 \in Nat
      BY <3>1
    <3>a. "wait" \in Places
      BY WordsAre
    <3>b. tool' = Goes("wait", n + 1)
      BY <2>2
    <3> HIDE DEF n
    <3>3. /\ tool' \in ToolType /\ tool'.pc = "wait" /\ tool'.fn = tool.fn
          /\ tool'.mode = tool.mode /\ tool'.told = tool.told /\ tool'.pwrfail = tool.pwrfail
      BY <1>t, <3>2, <3>a, <3>b, GoesIs
    <3>4. PlaceInv'
      BY <1>w, <3>3 DEF TestInv, PlaceInv
    <3>5. unit' \in UnitType /\ UNCHANGED <<unit.setting, unit.coming, unit.run, unit.reg, unit.alert>>
      BY <1>t, <2>2 DEF TestTypeOK
    <3> QED
      BY <1>w, <3>3, <3>4, <3>5, Testing, Carries
  <2>3. ASSUME NEW said \in {"DID NOT COMPLETE", "ERROR"},
               NEW t \in {Says(said), WithGlitch(Says(said))},
               IF tool.mode = "usb" THEN AbortTest(t, t.said) ELSE tool' = t /\ UNCHANGED unit
        PROVE  TestInv'
    <3>1. said \in Reports /\ said \notin Over
      BY WordsAre
    <3>2. /\ t \in ToolType /\ t.fn = "menu" /\ t.pc = "menu" /\ t.mode = tool.mode
          /\ t.told = tool.told /\ ~t.pwrfail /\ t.said = said
      <4>1. CASE t = Says(said)
        BY <1>s, <1>w, <3>1, <4>1
      <4>2. CASE t = WithGlitch(Says(said))
        BY <1>s, <1>w, <3>1, <4>2
      <4> QED
        BY <4>1, <4>2
    <3>3. CASE tool.mode = "usb"
      BY <1>w, <2>3, <3>1, <3>2, <3>3, AbortSteps
    <3>4. CASE tool.mode # "usb"
      BY <1>r, <2>3, <3>1, <3>4
    <3> QED
      BY <3>3, <3>4
  <2> QED
    BY <1>1, <2>1, <2>2, <2>3 DEF SelfTestPoll
<1>2. CASE CalibrationPoll
  <2>0. {"COMPLETED", "ABORTED", "user", "error"} \subseteq Reports
    BY DEF Reports
  <2>1. ASSUME CalibrationOver, UNCHANGED unit,
               tool' = IF tool.mode = "usb" THEN Goes("result", 0) ELSE Completed(unit.reg)
        PROVE  TestInv'
    <3>1. CASE tool.mode = "usb"
      BY <1>q, <2>1, <3>1
    <3>2. CASE tool.mode = "modbus"
      <4>1. unit.run = "none"
        BY <2>1, <3>2 DEF CalibrationOver, TestInv, RunInv
      <4>2. unit.reg \in Results
        BY <1>t DEF TestTypeOK, UnitType, Results
      <4> QED
        BY <1>c, <2>1, <3>2, <4>1, <4>2
    <3> QED
      BY <1>w, <3>1, <3>2
  <2>2. ASSUME NEW t \in {Says("user"), WithGlitch(Says("error"))}, AbortTest(t, "ABORTED")
        PROVE  TestInv'
    <3>1. /\ t \in ToolType /\ t.fn = "menu" /\ t.pc = "menu" /\ t.mode = tool.mode
          /\ t.told = tool.told /\ ~t.pwrfail
      BY <1>s, <1>w, <2>0
    <3> QED
      BY <1>w, <2>0, <2>2, <3>1, AbortSteps
  <2> QED
    BY <1>2, <2>1, <2>2 DEF CalibrationPoll
<1>3. CASE GetResult
  <2>1. UNCHANGED unit /\ tool.pc = "result"
    BY <1>3 DEF GetResult
  <2>2. unit.reg \in Results /\ "unreadable" \in Results /\ unit.reg \in Registers
    BY <1>t DEF TestTypeOK, UnitType, Results
  <2>3. CASE tool.mode = "modbus"
    <3>1. unit.run = "none"
      BY <2>1, <2>3 DEF TestInv, RunInv
    <3> QED
      BY <1>3, <1>c, <2>1, <2>2, <3>1 DEF GetResult
  <2>4. CASE tool.mode = "usb"
    <3>1. unit.run = "none" \/ unit.reg \in NoResult
      BY <2>4 DEF TestInv, RunInv, NoResult
    <3>2. "unreadable" \in NoResult
      BY DEF NoResult
    <3> QED
      BY <1>3, <1>c, <2>1, <2>2, <2>4, <3>1, <3>2 DEF GetResult
  <2> QED
    BY <1>w, <2>3, <2>4
<1> QED
  BY <1>1, <1>2, <1>3

(* The smart UPS: no answer but "NO" is taken for the end of a             *)
(* calibration, and the UPS says that only when it ends one.               *)
LEMMA SendDIs ==
    ASSUME TestTypeOK, NEW stop \in BOOLEAN
    PROVE  /\ SendD(stop) \in ToolType
           /\ SendD(stop).pc = "D" /\ SendD(stop).fn = "calibration"
           /\ SendD(stop).mode = tool.mode /\ SendD(stop).said = tool.said
           /\ SendD(stop).told = tool.told /\ SendD(stop).pwrfail = tool.pwrfail
<1> DEFINE r == Goes("D", SmartRetries)
<1>0. "D" \in Places /\ "calibration" \in Functions /\ SmartRetries \in Nat
  BY DEF Places, Functions, SmartRetries
<1>1. /\ r \in ToolType /\ r.pc = "D" /\ r.mode = tool.mode /\ r.said = tool.said
      /\ r.told = tool.told /\ r.pwrfail = tool.pwrfail
  BY <1>0, GoesIs
<1>2. SendD(stop) = [r EXCEPT !.fn = "calibration", !.stop = stop]
  BY DEF SendD
<1> HIDE DEF r
<1> QED
  BY <1>0, <1>1, <1>2 DEF ToolType

LEMMA SmartUnit ==
    ASSUME TestTypeOK, unit' \in {unit, [unit EXCEPT !.alert = FALSE], Toggled}
    PROVE  /\ unit' \in UnitType /\ UNCHANGED <<unit.setting, unit.coming>>
           /\ unit'.alert => unit.alert
           /\ UNCHANGED <<unit.run, unit.reg>> \/ ~unit'.alert
           /\ unit' = Toggled /\ unit.run # "none" => unit'.run = "none"
           /\ unit' # Toggled => unit'.run = unit.run
<1>1. unit \in UnitType
  BY DEF TestTypeOK
<1>2. CASE unit' = unit
  BY <1>1, <1>2 DEF Toggled, UnitType
<1>3. CASE unit' = [unit EXCEPT !.alert = FALSE]
  BY <1>1, <1>3 DEF Toggled, UnitType
<1>4. CASE unit' = Toggled
  BY <1>1, <1>4 DEF Toggled, UnitType
<1> QED
  BY <1>2, <1>3, <1>4

(* The program goes on with t.                                             *)
LEMMA SmartGoesOn ==
    ASSUME TestInv, tool.mode = "apcsmart", ~tool.pwrfail,
           unit' \in {unit, [unit EXCEPT !.alert = FALSE], Toggled},
           NEW t \in ToolType, tool' = t \/ tool' = WithGlitch(t),
           t.mode = tool.mode, t.told = tool.told, t.pwrfail = tool.pwrfail,
           \/ t.fn = "menu" /\ t.pc = "menu"
           \/ t.fn = "calibration" /\ t.pc \in {"D", "link", "monitor"}
           \/ t.fn = "none" /\ t.pc = "dead",
           t.fn = "menu" /\ t.said \in Over => unit'.run = "none"
    PROVE  TestInv'
<1>1. /\ tool' \in ToolType /\ tool'.mode = t.mode /\ tool'.told = t.told
      /\ tool'.pwrfail = t.pwrfail /\ tool'.fn = t.fn /\ tool'.pc = t.pc /\ tool'.said = t.said
  BY ToolSteps
<1>2. PlaceInv'
  BY <1>1 DEF PlaceInv
<1>3. TestTypeOK
  BY DEF TestInv
<1>4. /\ unit' \in UnitType /\ UNCHANGED <<unit.setting, unit.coming>>
      /\ unit'.alert => unit.alert
      /\ UNCHANGED <<unit.run, unit.reg>> \/ ~unit'.alert
  BY <1>3, SmartUnit
<1>5. /\ tool'.said \in Over /\ tool'.fn \notin {"test", "calibration", "none"} => unit'.run = "none"
      /\ tool'.pc \notin {"write", "read", "ask"} /\ ~tool'.pwrfail
  BY <1>1
<1> QED
  BY <1>1, <1>2, <1>4, <1>5, Carries

(* The words of the smart functions.                                       *)
LEMMA SmartSays ==
    ASSUME TestInv, tool.mode = "apcsmart", ~tool.pwrfail, NEW said \in Reports,
           unit' \in {unit, [unit EXCEPT !.alert = FALSE], Toggled},
           said \in Over => unit'.run = "none",
           tool' = Says(said)
    PROVE  TestInv'
<1>1. TestTypeOK
  BY DEF TestInv
<1>2. /\ Says(said) \in ToolType /\ Says(said).pc = "menu" /\ Says(said).fn = "menu"
      /\ Says(said).mode = tool.mode /\ Says(said).said = said /\ Says(said).told = tool.told
      /\ Says(said).pwrfail = tool.pwrfail
  BY <1>1, SaysIs
<1> QED
  BY <1>2, SmartGoesOn

LEMMA SmartDies ==
    ASSUME TestInv, tool.mode = "apcsmart", ~tool.pwrfail,
           unit' \in {unit, [unit EXCEPT !.alert = FALSE], Toggled},
           tool' = WithGlitch(Dies)
    PROVE  TestInv'
<1>1. TestTypeOK
  BY DEF TestInv
<1>2. /\ Dies \in ToolType /\ Dies.pc = "dead" /\ Dies.fn = "none"
      /\ Dies.mode = tool.mode /\ Dies.told = tool.told /\ Dies.pwrfail = tool.pwrfail
  BY <1>1, DiesIs
<1> QED
  BY <1>2, SmartGoesOn

LEMMA SmartSends ==
    ASSUME TestInv, tool.mode = "apcsmart", ~tool.pwrfail,
           unit' \in {unit, [unit EXCEPT !.alert = FALSE], Toggled},
           NEW stop \in BOOLEAN, NEW m \in BOOLEAN,
           tool' = SendD(stop) \/ tool' = [SendD(stop) EXCEPT !.monitor = m]
    PROVE  TestInv'
<1>1. TestTypeOK
  BY DEF TestInv
<1> DEFINE d == SendD(stop)
           e == [d EXCEPT !.monitor = m]
<1>2. /\ d \in ToolType /\ d.pc = "D" /\ d.fn = "calibration" /\ d.mode = tool.mode
      /\ d.told = tool.told /\ d.pwrfail = tool.pwrfail
  BY <1>1, SendDIs
<1> HIDE DEF d
<1>3. /\ e \in ToolType /\ e.pc = "D" /\ e.fn = "calibration" /\ e.mode = tool.mode
      /\ e.told = tool.told /\ e.pwrfail = tool.pwrfail
  BY <1>2 DEF ToolType
<1>4. tool' = d \/ tool' = e
  BY DEF d
<1> HIDE DEF e
<1> QED
  BY <1>2, <1>3, <1>4, SmartGoesOn

(* A smart calibration goes on at another place.                           *)
LEMMA SmartStays ==
    ASSUME TestInv, tool.mode = "apcsmart", ~tool.pwrfail, tool.fn = "calibration",
           unit' \in {unit, [unit EXCEPT !.alert = FALSE], Toggled},
           NEW pc \in {"D", "link", "monitor"}, NEW n \in Nat,
           tool' = Goes(pc, n) \/ tool' = WithGlitch(Goes(pc, n))
    PROVE  TestInv'
<1>1. TestTypeOK /\ pc \in Places
  BY WordsAre DEF TestInv
<1>2. /\ Goes(pc, n) \in ToolType /\ Goes(pc, n).pc = pc /\ Goes(pc, n).fn = tool.fn
      /\ Goes(pc, n).mode = tool.mode /\ Goes(pc, n).told = tool.told
      /\ Goes(pc, n).pwrfail = tool.pwrfail
  BY <1>1, GoesIs
<1> QED
  BY <1>2, SmartGoesOn

LEMMA SmartPolled ==
    ASSUME TestInv, tool.mode = "apcsmart", ~tool.pwrfail, tool.fn = "calibration",
           unit' \in {unit, [unit EXCEPT !.alert = FALSE], Toggled},
           NEW answer \in {"OK", "NO", ""}, answer = "NO" => unit'.run = "none",
           tool' = Polled(answer)
    PROVE  TestInv'
<1>1. {"terminated", "response to abort request", "unexpected response"} \subseteq Reports
  BY DEF Reports
<1>2. CASE tool.stop /\ answer = "NO"
  <2>1. tool' = Says("terminated")
    BY <1>2 DEF Polled, Ends
  <2> QED
    BY <1>1, <1>2, <2>1, SmartSays
<1>3. CASE tool.stop /\ answer # "NO"
  <2>1. tool' = Says("response to abort request")
    BY <1>3 DEF Polled, Ends
  <2>2. "response to abort request" \notin Over
    BY DEF Over
  <2> QED
    BY <1>1, <2>1, <2>2, SmartSays
<1>4. CASE ~tool.stop /\ answer = "OK"
  <2>1. tool' = Goes("monitor", 0)
    BY <1>4 DEF Polled
  <2> QED
    BY <2>1, SmartStays
<1>5. CASE ~tool.stop /\ answer # "OK"
  <2>1. tool' = Says("unexpected response")
    BY <1>5 DEF Polled
  <2>2. "unexpected response" \notin Over
    BY DEF Over
  <2> QED
    BY <1>1, <2>1, <2>2, SmartSays
<1> QED
  BY <1>2, <1>3, <1>4, <1>5

LEMMA SmartSteps ==
    ASSUME TestInv, do_smart_testing \/ PollD \/ LinkCheck \/ Monitor
    PROVE  TestInv'
<1> DEFINE quiet == [unit EXCEPT !.alert = FALSE]
<1>t. TestTypeOK
  BY DEF TestInv
<1>w. /\ tool.mode = "apcsmart" /\ ~tool.pwrfail
      /\ PollD \/ LinkCheck \/ Monitor => tool.fn = "calibration"
  BY DEF do_smart_testing, Menu, PollD, LinkCheck, Monitor, TestInv, PlaceInv, KillFileInv
<1>n. tool.n \in Nat
  BY <1>t DEF TestTypeOK, ToolType
<1>b. TRUE \in BOOLEAN /\ FALSE \in BOOLEAN /\ 0 \in Nat
  OBVIOUS
<1>1. CASE do_smart_testing
  <2>1. CASE smart_calibration
    <3>1. unit' = quiet
      BY <2>1 DEF smart_calibration
    <3>2. ASSUME NEW m \in BOOLEAN, tool' = [SendD(FALSE) EXCEPT !.monitor = m] PROVE TestInv'
      BY <1>w, <1>b, <3>1, <3>2, SmartSends
    <3>3. ASSUME tool' = Says("not started") PROVE TestInv'
      <4>1. "not started" \in Reports /\ "not started" \notin Over
        BY DEF Reports, Over
      <4> QED
        BY <1>w, <3>1, <3>3, <4>1, SmartSays
    <3>4. ASSUME tool' = WithGlitch(Dies) PROVE TestInv'
      BY <1>w, <3>1, <3>4, SmartDies
    <3> QED
      BY <2>1, <3>2, <3>3, <3>4 DEF smart_calibration
  <2>2. CASE terminate_calibration
    <3>1. unit' = unit /\ tool' = SendD(TRUE)
      BY <2>2 DEF terminate_calibration
    <3> QED
      BY <1>w, <1>b, <3>1, SmartSends
  <2>3. CASE MonitorOnly
    <3> DEFINE r == Goes("monitor", 0)
               t == [r EXCEPT !.fn = "calibration", !.monitor = FALSE]
    <3>1. "monitor" \in Places /\ "calibration" \in Functions
      BY WordsAre
    <3>2. /\ r \in ToolType /\ r.pc = "monitor" /\ r.mode = tool.mode
          /\ r.told = tool.told /\ r.pwrfail = tool.pwrfail
      BY <1>t, <1>b, <3>1, GoesIs
    <3>3. tool' = t /\ unit' = unit
      BY <2>3 DEF MonitorOnly
    <3> HIDE DEF r
    <3>4. /\ t \in ToolType /\ t.pc = "monitor" /\ t.fn = "calibration" /\ t.mode = tool.mode
          /\ t.told = tool.told /\ t.pwrfail = tool.pwrfail
      BY <3>1, <3>2 DEF ToolType
    <3> HIDE DEF t
    <3> QED
      BY <1>w, <3>3, <3>4, SmartGoesOn
  <2> QED
    BY <1>1, <2>1, <2>2, <2>3 DEF do_smart_testing
<1>2. CASE PollD
  <2>1. ASSUME unit' = Toggled, tool' = Polled(IF unit.run = "none" THEN "OK" ELSE "NO")
        PROVE  TestInv'
    <3>1. unit.run # "none" => unit'.run = "none"
      BY <1>t, <2>1, SmartUnit
    <3>2. CASE unit.run = "none"
      BY <1>w, <1>2, <2>1, <3>2, SmartPolled
    <3>3. CASE unit.run # "none"
      BY <1>w, <1>2, <2>1, <3>1, <3>3, SmartPolled
    <3> QED
      BY <3>2, <3>3
  <2>2. ASSUME unit' \in {quiet, Toggled}, tool' = WithGlitch(Goes("link", tool.n))
        PROVE  TestInv'
    BY <1>w, <1>n, <1>2, <2>2, SmartStays
  <2> QED
    BY <1>2, <2>1, <2>2 DEF PollD
<1>3. CASE LinkCheck
  <2>0. unit' = quiet
    BY <1>3 DEF LinkCheck
  <2>1. ASSUME tool.n = 0, tool' = Polled("") PROVE TestInv'
    BY <1>w, <1>3, <2>0, <2>1, SmartPolled
  <2>2. ASSUME tool.n # 0, tool' = Goes("D", tool.n - 1) PROVE TestInv'
    <3> DEFINE n == tool.n
    <3>1. n \in Nat /\ n # 0
      BY <1>n, <2>2
    <3>2. n - 1 \in Nat
      BY <3>1
    <3>3. tool' = Goes("D", n - 1)
      BY <2>2
    <3> HIDE DEF n
    <3> QED
      BY <1>w, <1>3, <2>0, <3>2, <3>3, SmartStays
  <2>3. ASSUME tool' = WithGlitch(Dies) PROVE TestInv'
    BY <1>w, <2>0, <2>3, SmartDies
  <2> QED
    BY <1>3, <2>1, <2>2, <2>3 DEF LinkCheck
<1>4. CASE Monitor
  <2>1. ASSUME tool' = SendD(TRUE), unit' = unit \/ unit' = quiet PROVE TestInv'
    BY <1>w, <1>b, <2>1, SmartSends
  <2>2. ASSUME unit.alert, unit' = quiet, tool' = Says("terminated by UPS") PROVE TestInv'
    <3>1. unit.run = "none"
      BY <2>2 DEF TestInv, RunInv
    <3>2. unit'.run = "none"
      BY <1>t, <2>2, <3>1 DEF TestTypeOK, UnitType
    <3>3. "terminated by UPS" \in Reports
      BY DEF Reports
    <3> QED
      BY <1>w, <2>2, <3>2, <3>3, SmartSays
  <2>3. ASSUME unit' = quiet, UNCHANGED tool PROVE TestInv'
    <3>1. /\ tool \in ToolType /\ tool.fn = "calibration" /\ tool.pc = "monitor"
      BY <1>t, <1>w, <1>4 DEF TestTypeOK, Monitor
    <3>2. tool' = tool
      BY <2>3
    <3> QED
      BY <1>w, <2>3, <3>1, <3>2, SmartGoesOn
  <2>4. ASSUME unit' = quiet, tool' = WithGlitch(Dies) PROVE TestInv'
    BY <1>w, <2>4, SmartDies
  <2> QED
    BY <1>4, <2>1, <2>2, <2>3, <2>4 DEF Monitor
<1> QED
  BY <1>1, <1>2, <1>3, <1>4

(* From the menu into a function, and the kill power test.                 *)
LEMMA RunTestSteps ==
    ASSUME TestInv, tool.fn = "menu", tool.mode \in {"usb", "modbus"},
           NEW fn \in {"test", "calibration"}, NEW first \in {"abort old", "start"},
           RunTest(fn, first)
    PROVE  TestInv'
<1> DEFINE r == Goes(first, 0)
           t == [r EXCEPT !.fn = fn]
           s == Says("not started")
<1>t. TestTypeOK /\ 0 \in Nat
  BY DEF TestInv
<1>u. unit' \in UnitType /\ UNCHANGED <<unit.setting, unit.coming, unit.run, unit.reg, unit.alert>>
  BY <1>t DEF TestTypeOK, RunTest
<1>p. ~tool.pwrfail
  BY DEF TestInv, PlaceInv, KillFileInv
<1>0. /\ first \in Places /\ fn \in Functions
      /\ "not started" \in Reports /\ "not started" \notin Over
  BY DEF Places, Functions, Reports, Over
<1>1. /\ r \in ToolType /\ r.pc = first /\ r.mode = tool.mode /\ r.told = tool.told
      /\ r.pwrfail = tool.pwrfail /\ r.said = tool.said
  BY <1>t, <1>0, GoesIs, ZenonT(30)
<1>2. /\ s \in ToolType /\ s.pc = "menu" /\ s.fn = "menu" /\ s.mode = tool.mode
      /\ s.told = tool.told /\ s.pwrfail = tool.pwrfail /\ s.said \notin Over
  BY <1>t, <1>0, SaysIs
<1>3. tool' = t \/ tool' = s
  BY DEF RunTest
<1> HIDE DEF r, s
<1>4. /\ t \in ToolType /\ t.pc = first /\ t.fn = fn /\ t.mode = tool.mode
      /\ t.told = tool.told /\ t.pwrfail = tool.pwrfail
  BY <1>0, <1>1 DEF ToolType
<1> HIDE DEF t
<1>5. /\ tool' \in ToolType /\ tool'.mode = tool.mode /\ tool'.told = tool.told /\ ~tool'.pwrfail
      /\ \/ tool'.pc = first /\ tool'.fn = fn
         \/ tool'.pc = "menu" /\ tool'.fn = "menu" /\ tool'.said \notin Over
  BY <1>p, <1>2, <1>3, <1>4
<1>6. PlaceInv'
  BY <1>5 DEF PlaceInv
<1> QED
  BY <1>u, <1>5, <1>6, Carries

LEMMA KillSteps ==
    ASSUME TestInv, (KillPowerTest /\ tool.fn = "menu") \/ Killed
    PROVE  TestInv'
<1>t. TestTypeOK /\ 0 \in Nat
  BY DEF TestInv
<1>1. CASE KillPowerTest /\ tool.fn = "menu"
  <2> DEFINE r == Goes("kill", 0)
  <2>1. PICK made \in BOOLEAN : tool' = [r EXCEPT !.fn = "kill", !.pwrfail = made]
    BY <1>1 DEF KillPowerTest
  <2>2. "kill" \in Places /\ "kill" \in Functions
    BY WordsAre
  <2>3. /\ r \in ToolType /\ r.pc = "kill" /\ r.mode = tool.mode /\ r.told = tool.told
        /\ r.said = tool.said /\ r.result = tool.result
    BY <1>t, <2>2, GoesIs
  <2> HIDE DEF r
  <2>4. /\ tool' \in ToolType /\ tool'.pc = "kill" /\ tool'.fn = "kill" /\ tool'.mode = tool.mode
        /\ tool'.told = tool.told /\ tool'.said = tool.said /\ tool'.result = tool.result
    BY <2>1, <2>2, <2>3 DEF ToolType
  <2>5. UNCHANGED unit
    BY <1>1 DEF KillPowerTest
  <2> QED
    BY <1>1, <2>4, <2>5 DEF TestInv, TestTypeOK, PlaceInv, RunInv, CompletedAlone, SettingInv, KillFileInv
<1>2. CASE Killed
  <2>0. tool.pc = "kill" /\ tool.fn = "kill" /\ UNCHANGED unit /\ tool.said \in Reports
    BY <1>2, <1>t DEF Killed, TestInv, PlaceInv, TestTypeOK, ToolType
  <2>1. CASE tool.pwrfail \/ tool.mode = "dumb"
    <3> DEFINE r == Says(tool.said)
    <3>1. tool' = [r EXCEPT !.pwrfail = FALSE]
      BY <1>2, <2>1 DEF Killed
    <3>2. /\ r \in ToolType /\ r.pc = "menu" /\ r.fn = "menu" /\ r.mode = tool.mode
          /\ r.told = tool.told /\ r.said = tool.said
          /\ r.said = "COMPLETED" => r.result = tool.result
      BY <1>t, <2>0, SaysIs
    <3> HIDE DEF r
    <3>3. /\ tool' \in ToolType /\ tool'.pc = "menu" /\ tool'.fn = "menu"
          /\ tool'.mode = tool.mode /\ tool'.told = tool.told /\ tool'.said = tool.said
          /\ ~tool'.pwrfail /\ (tool'.said = "COMPLETED" => tool'.result = tool.result)
      BY <3>1, <3>2 DEF ToolType
    <3> QED
      BY <2>0, <3>3 DEF TestInv, TestTypeOK, PlaceInv, RunInv, CompletedAlone, SettingInv, KillFileInv
  <2>2. CASE ~(tool.pwrfail \/ tool.mode = "dumb")
    <3>1. tool' = Dies
      BY <1>2, <2>2 DEF Killed
    <3>2. /\ tool' \in ToolType /\ tool'.pc = "dead" /\ tool'.fn = "none"
          /\ tool'.mode = tool.mode /\ tool'.told = tool.told /\ tool'.said = tool.said
          /\ tool'.pwrfail = tool.pwrfail
      BY <1>t, <3>1, DiesIs
    <3> QED
      BY <2>0, <2>2, <3>2 DEF TestInv, TestTypeOK, PlaceInv, RunInv, CompletedAlone, SettingInv, KillFileInv
  <2> QED
    BY <2>1, <2>2
<1> QED
  BY <1>1, <1>2

(* The settings.                                                           *)
LEMMA SettingGoesOn ==
    ASSUME TestInv, tool.fn \in {"menu"} \cup SettingFns,
           tool' \in ToolType, tool'.mode = tool.mode,
           \/ tool'.said = tool.said /\ (tool'.said = "COMPLETED" => tool'.result = tool.result)
           \/ tool'.said \notin Over,
           tool'.pwrfail = tool.pwrfail,
           \/ tool'.fn = "menu" /\ tool'.pc = "menu"
           \/ tool'.fn \in SettingFns /\ tool'.pc \in {"write", "read", "ask"},
           unit' \in UnitType, UNCHANGED <<unit.run, unit.reg, unit.alert>>,
           SettingInv'
    PROVE  TestInv'
<1>0. tool.fn \notin {"test", "calibration", "none", "kill"}
  BY DEF SettingFns, Listed
<1>1. PlaceInv'
  BY DEF PlaceInv, SettingFns, Listed
<1>2. RunInv'
  BY <1>0 DEF TestInv, RunInv, CompletedAlone
<1>3. KillFileInv'
  BY <1>0 DEF TestInv, PlaceInv, KillFileInv
<1> QED
  BY <1>1, <1>2, <1>3 DEF TestInv, TestTypeOK

(* A program that goes on with t, which may count a glitch.                *)
SameWord(t) == t.said = tool.said /\ (t.said = "COMPLETED" => t.result = tool.result)
LEMMA SettingNext ==
    ASSUME TestInv, tool.fn \in {"menu"} \cup SettingFns,
           NEW t \in ToolType, tool' = t \/ tool' = WithGlitch(t), t.mode = tool.mode,
           SameWord(t) \/ t.said \notin Over,
           t.pwrfail = tool.pwrfail,
           \/ t.fn = "menu" /\ t.pc = "menu"
           \/ t.fn \in SettingFns /\ t.pc \in {"write", "read", "ask"},
           unit' \in UnitType, UNCHANGED <<unit.run, unit.reg, unit.alert>>,
           t.told # 0 => /\ unit'.setting = t.told /\ unit'.coming \subseteq {t.told}
                         /\ t.pc = "menu",
           t.pc = "read" /\ t.fn = "date" => unit'.coming \subseteq {Nearest(t.want)}
    PROVE  TestInv'
<1>1. /\ tool' \in ToolType /\ tool'.mode = t.mode /\ tool'.told = t.told /\ tool'.want = t.want
      /\ tool'.pwrfail = t.pwrfail /\ tool'.fn = t.fn /\ tool'.pc = t.pc /\ tool'.said = t.said
      /\ tool'.result = t.result
  BY ToolSteps
<1>2. SettingInv'
  <2>1. tool'.told # 0 => /\ unit'.setting = tool'.told /\ unit'.coming \subseteq {tool'.told}
                          /\ tool'.pc \notin {"write", "read", "ask"}
    BY <1>1
  <2>2. tool'.pc = "read" /\ tool'.fn = "date" => unit'.coming \subseteq {Nearest(tool'.want)}
    BY <1>1
  <2> QED
    BY <2>1, <2>2 DEF SettingInv, Nearest
<1> QED
  BY <1>1, <1>2, SettingGoesOn DEF SameWord

LEMMA EnterSteps ==
    ASSUME TestInv, tool.fn = "menu", NEW fn \in SettingFns, EnterSetting(fn)
    PROVE  TestInv'
<1> DEFINE r == Goes("write", 0)
<1>t. TestTypeOK /\ 0 \in Nat
  BY DEF TestInv
<1>1. PICK v \in Values : tool' = [r EXCEPT !.fn = fn, !.want = v, !.told = 0]
  BY DEF EnterSetting
<1>2. v \in Nat
  BY ApctestAssumption
<1>3. "write" \in Places /\ fn \in Functions
  BY WordsAre
<1>4. /\ r \in ToolType /\ r.pc = "write" /\ r.mode = tool.mode /\ SameWord(r)
      /\ r.pwrfail = tool.pwrfail
  BY <1>t, <1>3, GoesIs DEF SameWord
<1> HIDE DEF r
<1> DEFINE t == [r EXCEPT !.fn = fn, !.want = v, !.told = 0]
<1>5. /\ t \in ToolType /\ t.pc = "write" /\ t.fn = fn /\ t.mode = tool.mode
      /\ SameWord(t) /\ t.pwrfail = tool.pwrfail /\ t.told = 0
  BY <1>2, <1>3, <1>4 DEF ToolType, SameWord
<1>6. unit' \in UnitType /\ UNCHANGED unit
  BY <1>t DEF EnterSetting, TestTypeOK
<1>7. tool' = t
  BY <1>1
<1> HIDE DEF t
<1> QED
  BY <1>5, <1>6, <1>7, SettingNext

LEMMA AskSteps ==
    ASSUME TestInv, AskAgainXferv
    PROVE  TestInv'
<1>t. TestTypeOK /\ 0 \in Nat
  BY DEF TestInv
<1>0. tool.pc = "ask" /\ tool.fn \in SettingFns
  BY DEF AskAgainXferv, TestInv, PlaceInv
<1>6. unit' \in UnitType /\ UNCHANGED unit
  BY <1>t DEF AskAgainXferv, TestTypeOK
<1>7. tool.told = 0 /\ tool.said \in Reports
  BY <1>t, <1>0 DEF TestInv, SettingInv, TestTypeOK, ToolType
<1>1. ASSUME NEW v \in Values, tool' = [Goes("write", 0) EXCEPT !.want = v]
      PROVE  TestInv'
  <2> DEFINE r == Goes("write", 0)
             t == [r EXCEPT !.want = v]
  <2>2. v \in Nat
    BY ApctestAssumption
  <2>3. "write" \in Places
    BY WordsAre
  <2>4. /\ r \in ToolType /\ r.pc = "write" /\ r.mode = tool.mode /\ SameWord(r)
        /\ r.pwrfail = tool.pwrfail /\ r.fn = tool.fn /\ r.told = tool.told
    BY <1>t, <2>3, GoesIs DEF SameWord
  <2>7. tool' = t
    BY <1>1
  <2> HIDE DEF r
  <2>5. /\ t \in ToolType /\ t.pc = "write" /\ t.fn = tool.fn /\ t.mode = tool.mode
        /\ SameWord(t) /\ t.pwrfail = tool.pwrfail /\ t.told = tool.told
    BY <2>2, <2>4 DEF ToolType, SameWord
  <2> HIDE DEF t
  <2> QED
    BY <1>0, <1>6, <1>7, <2>5, <2>7, SettingNext
<1>2. ASSUME tool' = Says(tool.said) PROVE TestInv'
  <2> DEFINE t == Says(tool.said)
  <2>1. /\ t \in ToolType /\ t.pc = "menu" /\ t.fn = "menu" /\ t.mode = tool.mode
        /\ SameWord(t) /\ t.pwrfail = tool.pwrfail /\ t.told = tool.told
    BY <1>t, <1>7, SaysIs DEF SameWord
  <2>2. tool' = t
    BY <1>2
  <2> HIDE DEF t
  <2> QED
    BY <1>0, <1>6, <1>7, <2>1, <2>2, SettingNext
<1> QED
  BY <1>1, <1>2 DEF AskAgainXferv

LEMMA WriteSteps ==
    ASSUME TestInv, WriteSetting
    PROVE  TestInv'
<1> DEFINE near == Nearest(tool.want)
           sent == [unit EXCEPT !.coming = {near}]
<1>t. TestTypeOK /\ 0 \in Nat
  BY DEF TestInv
<1>0. tool.pc = "write" /\ tool.fn \in SettingFns
  BY DEF WriteSetting, TestInv, PlaceInv
<1>1. tool.told = 0 /\ tool.want \in Nat
  BY <1>t, <1>0 DEF TestInv, SettingInv, TestTypeOK, ToolType
<1>2. near \in Accepted
  BY <1>1, NearestIs
<1>3. /\ sent \in UnitType /\ sent.run = unit.run /\ sent.reg = unit.reg
      /\ sent.alert = unit.alert /\ sent.coming = {Nearest(tool.want)}
  <2> HIDE DEF near
  <2>1. /\ sent \in UnitType /\ sent.run = unit.run /\ sent.reg = unit.reg
        /\ sent.alert = unit.alert /\ sent.coming = {near}
    BY <1>t, <1>2 DEF TestTypeOK, UnitType
  <2> QED
    BY <2>1 DEF near
<1>4. unit' \in {unit, sent}
  BY DEF WriteSetting
<1> HIDE DEF sent
<1>5. unit' \in UnitType /\ UNCHANGED <<unit.run, unit.reg, unit.alert>>
  BY <1>t, <1>3, <1>4 DEF TestTypeOK
<1>6. ASSUME tool' = Goes("read", 0) \/ tool' = WithGlitch(Goes("read", 0)),
             unit' = sent \/ tool.fn # "date"
      PROVE  TestInv'
  <2> DEFINE t == Goes("read", 0)
  <2>1. "read" \in Places
    BY WordsAre
  <2>2. /\ t \in ToolType /\ t.pc = "read" /\ t.fn = tool.fn /\ t.mode = tool.mode
        /\ SameWord(t) /\ t.pwrfail = tool.pwrfail /\ t.told = tool.told /\ t.want = tool.want
    BY <1>t, <2>1, GoesIs DEF SameWord
  <2>3. tool' = t \/ tool' = WithGlitch(t)
    BY <1>6
  <2> HIDE DEF t
  <2>4. t.pc = "read" /\ t.fn = "date" => unit'.coming \subseteq {Nearest(t.want)}
    BY <1>3, <1>6, <2>2
  <2> QED
    BY <1>0, <1>1, <1>5, <2>2, <2>3, <2>4, SettingNext
<1>7. ASSUME tool' = WithGlitch(Says("FAILED")) PROVE TestInv'
  <2> DEFINE t == Says("FAILED")
  <2>1. "FAILED" \in Reports /\ "FAILED" \notin Over
    BY DEF Reports, Over
  <2>2. /\ t \in ToolType /\ t.pc = "menu" /\ t.fn = "menu" /\ t.mode = tool.mode
        /\ t.said \notin Over /\ t.pwrfail = tool.pwrfail /\ t.told = tool.told
    BY <1>t, <2>1, SaysIs
  <2>3. tool' = t \/ tool' = WithGlitch(t)
    BY <1>7
  <2> HIDE DEF t
  <2> QED
    BY <1>0, <1>1, <1>5, <2>2, <2>3, SettingNext
<1> QED
  BY <1>6, <1>7 DEF WriteSetting, sent, near

(* What is told is what was read: nothing is coming then, or, for a date,  *)
(* nothing but the date itself.                                            *)
LEMMA ReadSteps ==
    ASSUME TestInv, ReadSetting
    PROVE  TestInv'
<1> DEFINE v == unit.setting
<1>t. TestTypeOK /\ 0 \in Nat
  BY DEF TestInv
<1>0. /\ tool.pc = "read" /\ tool.fn \in SettingFns /\ UNCHANGED unit
      /\ tool.fn # "date" => unit.coming = {}
  BY DEF ReadSetting, TestInv, PlaceInv
<1>1. /\ tool.told = 0 /\ tool.want \in Nat /\ tool.said \in Reports
      /\ tool.fn = "date" => unit.coming \subseteq {Nearest(tool.want)}
  BY <1>t, <1>0 DEF TestInv, SettingInv, TestTypeOK, ToolType
<1>2. v \in Accepted /\ v \in Nat
  BY <1>t, ApctestAssumption DEF TestTypeOK, UnitType
<1>5. unit' \in UnitType /\ UNCHANGED <<unit.run, unit.reg, unit.alert>>
  BY <1>t, <1>0 DEF TestTypeOK
<1>s. LET t == Says(tool.said)
      IN  /\ t \in ToolType /\ t.pc = "menu" /\ t.fn = "menu" /\ t.mode = tool.mode
          /\ SameWord(t) /\ t.pwrfail = tool.pwrfail /\ t.told = tool.told
  BY <1>t, <1>1, SaysIs DEF SameWord
<1>3. ASSUME NEW told \in Nat, told = v, unit.coming \subseteq {v},
             tool' = [Says(tool.said) EXCEPT !.told = told]
      PROVE  TestInv'
  <2> DEFINE r == Says(tool.said)
             t == [r EXCEPT !.told = told]
  <2>1. /\ r \in ToolType /\ r.pc = "menu" /\ r.fn = "menu" /\ r.mode = tool.mode
        /\ SameWord(r) /\ r.pwrfail = tool.pwrfail
    BY <1>s DEF SameWord
  <2>2. tool' = t
    BY <1>3
  <2> HIDE DEF r
  <2>3. /\ t \in ToolType /\ t.pc = "menu" /\ t.fn = "menu" /\ t.mode = tool.mode
        /\ SameWord(t) /\ t.pwrfail = tool.pwrfail /\ t.told = told
    BY <2>1 DEF ToolType, SameWord
  <2> HIDE DEF t
  <2>4. unit'.setting = t.told /\ unit'.coming \subseteq {t.told}
    BY <1>0, <1>3, <2>3
  <2> QED
    BY <1>0, <1>5, <2>2, <2>3, <2>4, SettingNext
<1>4. ASSUME tool' = Says(tool.said) \/ tool' = WithGlitch(Says(tool.said)) PROVE TestInv'
  <2> DEFINE t == Says(tool.said)
  <2>1. tool' = t \/ tool' = WithGlitch(t)
    BY <1>4
  <2>2. /\ t \in ToolType /\ t.pc = "menu" /\ t.fn = "menu" /\ t.mode = tool.mode
        /\ SameWord(t) /\ t.pwrfail = tool.pwrfail /\ t.told = tool.told
    BY <1>s DEF SameWord
  <2> HIDE DEF t
  <2> QED
    BY <1>0, <1>1, <1>5, <2>1, <2>2, SettingNext
<1>6. ASSUME NEW pc \in {"ask", "read"}, NEW n \in Nat,
             tool' = Goes(pc, n) \/ tool' = WithGlitch(Goes(pc, n))
      PROVE  TestInv'
  <2> DEFINE t == Goes(pc, n)
  <2>1. pc \in Places
    BY WordsAre
  <2>2. /\ t \in ToolType /\ t.pc = pc /\ t.fn = tool.fn /\ t.mode = tool.mode
        /\ SameWord(t) /\ t.pwrfail = tool.pwrfail /\ t.told = tool.told /\ t.want = tool.want
    BY <1>t, <2>1, GoesIs DEF SameWord
  <2>3. tool' = t \/ tool' = WithGlitch(t)
    BY <1>6
  <2> HIDE DEF t
  <2>4. t.pc = "read" /\ t.fn = "date" => unit'.coming \subseteq {Nearest(t.want)}
    BY <1>0, <1>1, <2>2
  <2> QED
    BY <1>0, <1>1, <1>5, <2>2, <2>3, <2>4, SettingNext
<1> HIDE DEF v
<1>d. v = unit.setting
  BY DEF v
<1>7. ASSUME tool.fn \in Listed, tool' = [Says(tool.said) EXCEPT !.told = v] PROVE TestInv'
  <2>1. tool.fn # "date"
    BY <1>7 DEF Listed
  <2> QED
    BY <1>0, <1>2, <1>3, <1>7, <2>1
<1>8. ASSUME tool.fn \notin Listed, v = tool.want,
             tool' = [Says(tool.said) EXCEPT !.told = tool.want]
      PROVE  TestInv'
  <2>1. unit.coming \subseteq {v}
    BY <1>0, <1>1, <1>2, <1>8, NearestIs
  <2> QED
    BY <1>1, <1>3, <1>8, <2>1
<1>9. ASSUME tool' = Goes("read", tool.n + 1) PROVE TestInv'
  <2> DEFINE n == tool.n
  <2>1. n \in Nat
    BY <1>t DEF TestTypeOK, ToolType
  <2>2. n + 1 \in Nat
    BY <2>1
  <2>3. tool' = Goes("read", n + 1)
    BY <1>9
  <2> HIDE DEF n
  <2> QED
    BY <1>6, <2>2, <2>3
<1>a. ASSUME tool' = Goes("ask", 0) \/ tool' = WithGlitch(Goes("ask", 0)) PROVE TestInv'
  BY <1>t, <1>6, <1>a
<1> QED
  <2>1. CASE tool.fn \in Listed
    <3>1. tool.fn # "xferv" /\ tool.fn # "date"
      BY <2>1 DEF Listed
    <3>2. \/ tool' = [Says(tool.said) EXCEPT !.told = v] \/ tool' = WithGlitch(Says(tool.said))
      BY <2>1, <3>1, <1>d DEF ReadSetting
    <3> QED
      BY <2>1, <3>2, <1>4, <1>7
  <2>2. CASE tool.fn = "xferv"
    <3>1. tool.fn \notin Listed
      BY <2>2 DEF Listed
    <3>2. \/ v = tool.want /\ tool' = [Says(tool.said) EXCEPT !.told = tool.want]
          \/ tool' = Goes("ask", 0) \/ tool' = WithGlitch(Goes("ask", 0))
      BY <2>2, <3>1, <1>d DEF ReadSetting, ReadBack
    <3> QED
      BY <3>1, <3>2, <1>8, <1>a
  <2>3. CASE tool.fn = "date"
    <3>1. tool.fn \notin Listed
      BY <2>3 DEF Listed
    <3>2. \/ v = tool.want /\ tool' = [Says(tool.said) EXCEPT !.told = tool.want]
          \/ tool' = Says(tool.said) \/ tool' = Goes("read", tool.n + 1)
          \/ tool' = WithGlitch(Says(tool.said))
      BY <2>3, <3>1, <1>d DEF ReadSetting, ReadBack
    <3> QED
      BY <3>1, <3>2, <1>4, <1>8, <1>9
  <2> QED
    BY <1>0, <2>1, <2>2, <2>3 DEF SettingFns

(* No step changes the cable or the kind of UPS.                           *)
LEMMA SameUps ==
    ASSUME TestInv, ApctestNext
    PROVE  unit'.cable = unit.cable /\ tool'.mode = tool.mode
<1>t. unit \in UnitType /\ tool \in ToolType
  BY DEF TestInv, TestTypeOK
<1>c. ASSUME NEW cmd, NEW o \in Commanded(cmd),
             cmd \in {"abort", "clear", "test", "calibration"}
      PROVE  o.unit.cable = unit.cable
  BY <1>c, CommandsIs DEF TestInv
<1>1. CASE UnitStep
  BY <1>t, <1>1 DEF UnitStep, UnitType
<1>2. CASE do_usb_testing
  BY <1>t, <1>2 DEF do_usb_testing, usb_run_self_test, usb_calibration, RunTest, KillPowerTest,
     set_battery_date, usb_set_sens, usb_set_alarm, usb_set_self_test_interval, usb_set_xferv,
     EnterSetting, Goes, Says, ToolType
<1>3. CASE do_modbus_testing
  BY <1>t, <1>3 DEF do_modbus_testing, modbus_run_self_test, modbus_calibration, RunTest,
     KillPowerTest, set_battery_date, EnterSetting, Goes, Says, ToolType
<1>4. CASE do_smart_testing
  BY <1>t, <1>4 DEF do_smart_testing, smart_calibration, terminate_calibration, MonitorOnly,
     SendD, Goes, Says, Dies, WithGlitch, ToolType, UnitType
<1>5. CASE do_dumb_testing
  BY <1>t, <1>5 DEF do_dumb_testing, KillPowerTest, test1, test3, test4, Guess,
     Goes, ToolType
<1>6. CASE AbortOld
  <2>1. PICK o \in Commanded("abort") : After(o, Goes("clear", 0))
    BY <1>6 DEF AbortOld
  <2> QED
    BY <1>t, <1>c, <2>1 DEF After, Goes, ToolType
<1>7. CASE ClearResult
  <2>1. PICK o \in Commanded("clear") : After(o, IF o.ok THEN Goes("cleared", 0) ELSE Says("FAILED"))
    BY <1>7 DEF ClearResult
  <2> QED
    BY <1>t, <1>c, <2>1 DEF After, Goes, Says, ToolType
<1>8. CASE ClearPoll
  BY <1>t, <1>8 DEF ClearPoll, Goes, Says, WithGlitch, ToolType
<1>9. CASE StartTest
  <2>1. PICK o \in Commanded(tool.fn) : After(o, IF o.ok THEN Goes("wait", 0) ELSE Says("FAILED"))
    BY <1>9 DEF StartTest
  <2>2. tool.fn \in {"test", "calibration"}
    BY <1>9 DEF StartTest, TestInv, PlaceInv
  <2> QED
    BY <1>t, <1>c, <2>1, <2>2 DEF After, Goes, Says, ToolType
<1>a. ASSUME NEW said, NEW t \in {Says(said), WithGlitch(Says(said))}, NEW word, AbortTest(t, word)
      PROVE  unit'.cable = unit.cable /\ tool'.mode = tool.mode
  <2>1. PICK o \in Commanded("abort") :
           /\ unit' = o.unit
           /\ tool' = [t EXCEPT !.said = IF o.ok THEN word ELSE "FAILED", !.glitches = @ + o.cost]
    BY <1>a DEF AbortTest, AbortCode
  <2> QED
    BY <1>t, <1>c, <2>1 DEF Says, WithGlitch, ToolType
<1>17. CASE SelfTestPoll
  <2>1. ASSUME NEW said, NEW t \in {Says(said), WithGlitch(Says(said))},
               IF tool.mode = "usb" THEN AbortTest(t, t.said) ELSE tool' = t /\ UNCHANGED unit
        PROVE  unit'.cable = unit.cable /\ tool'.mode = tool.mode
    <3>1. CASE tool.mode = "usb"
      BY <1>a, <2>1, <3>1
    <3>2. CASE tool.mode # "usb"
      <4>1. tool' = t /\ UNCHANGED unit
        BY <2>1, <3>2
      <4>2. CASE t = Says(said)
        BY <1>t, <4>1, <4>2 DEF Says, ToolType
      <4>3. CASE t = WithGlitch(Says(said))
        BY <1>t, <4>1, <4>3 DEF Says, WithGlitch, ToolType
      <4> QED
        BY <4>1, <4>2, <4>3
    <3> QED
      BY <3>1, <3>2
  <2>2. ASSUME UNCHANGED unit, tool' = Goes("result", 0) \/ tool' = Goes("wait", tool.n + 1)
        PROVE  unit'.cable = unit.cable /\ tool'.mode = tool.mode
    BY <1>t, <2>2 DEF Goes, ToolType
  <2> QED
    BY <1>17, <2>1, <2>2 DEF SelfTestPoll
<1>18. CASE CalibrationPoll
  <2>1. ASSUME UNCHANGED unit, tool' = Goes("result", 0) \/ tool' = Completed(unit.reg)
        PROVE  unit'.cable = unit.cable /\ tool'.mode = tool.mode
    BY <1>t, <2>1 DEF Goes, Says, Completed, ToolType
  <2> QED
    BY <1>18, <1>a, <2>1 DEF CalibrationPoll
<1>19. CASE GetResult
  BY <1>t, <1>19 DEF GetResult, Says, Completed, WithGlitch, ToolType
<1>10. CASE PollD
  <2>1. unit' \in {[unit EXCEPT !.alert = FALSE], Toggled}
    BY <1>10 DEF PollD
  <2>2. unit'.cable = unit.cable
    BY <1>t, <2>1 DEF Toggled, UnitType
  <2>3. \A said, pc, n : Says(said).mode = tool.mode /\ Goes(pc, n).mode = tool.mode
    BY <1>t DEF Says, Goes, ToolType
  <2>4. CASE tool' \in {Polled("OK"), Polled("NO")}
    BY <2>2, <2>3, <2>4 DEF Polled
  <2>5. CASE tool' = WithGlitch(Goes("link", tool.n))
    BY <1>t, <2>2, <2>5 DEF WithGlitch, Goes, ToolType
  <2> QED
    BY <1>10, <2>4, <2>5 DEF PollD
<1>11. CASE LinkCheck
  <2>1. unit'.cable = unit.cable
    BY <1>t, <1>11 DEF LinkCheck, UnitType
  <2>2. /\ \A said, pc, n : Says(said).mode = tool.mode /\ Goes(pc, n).mode = tool.mode
        /\ WithGlitch(Dies).mode = tool.mode
    BY <1>t DEF Says, Goes, Dies, WithGlitch, ToolType
  <2> QED
    BY <1>11, <2>1, <2>2 DEF LinkCheck, Polled
<1>12. CASE Monitor
  BY <1>t, <1>12 DEF Monitor, SendD, Goes, Says, Dies, WithGlitch, ToolType, UnitType
<1>13. CASE WriteSetting
  BY <1>t, <1>13 DEF WriteSetting, Goes, Says, WithGlitch, ToolType, UnitType
<1>14. CASE ReadSetting
  <2>1. tool.fn \in Listed \cup {"xferv", "date"}
    BY <1>14 DEF ReadSetting, TestInv, PlaceInv, SettingFns
  <2>2. UNCHANGED unit
    BY <1>14 DEF ReadSetting
  <2>3. CASE tool.fn \in Listed
    BY <1>t, <1>14, <2>2, <2>3 DEF ReadSetting, Listed, Goes, Says, WithGlitch, ToolType
  <2>4. CASE tool.fn = "xferv"
    BY <1>t, <1>14, <2>2, <2>4 DEF ReadSetting, Listed, Goes, Says, WithGlitch, ToolType
  <2>5. CASE tool.fn = "date"
    BY <1>t, <1>14, <2>2, <2>5 DEF ReadSetting, Listed, Goes, Says, WithGlitch, ToolType
  <2> QED
    BY <2>1, <2>3, <2>4, <2>5
<1>15. CASE AskAgainXferv
  BY <1>t, <1>15 DEF AskAgainXferv, Goes, Says, ToolType
<1>16. CASE Killed
  BY <1>t, <1>16 DEF Killed, Goes, Says, Dies, ToolType
<1> QED
  BY <1>1, <1>2, <1>3, <1>4, <1>5, <1>6, <1>7, <1>8, <1>9,
     <1>10, <1>11, <1>12, <1>13, <1>14, <1>15, <1>16, <1>17, <1>18, <1>19 DEF ApctestNext

(* The simple cables: what the tests have seen are the lines of the cable  *)
(* that is connected, or none.                                             *)
LineNames == {"CD", "CTS", "RNG", "SR"}
BitsType == [normal : SUBSET LineNames, no_power : SUBSET LineNames, low_batt : SUBSET LineNames,
             done : SUBSET {1, 3}, named : SUBSET CableNames, failed : BOOLEAN]
BitsInv ==
    /\ bits \in BitsType
    /\ bits.failed \/ bits.named \subseteq {unit.cable}
    /\ tool.mode = "dumb" =>
         LET L(batt, low) == Lines(unit.cable, batt, low)
         IN  /\ unit.cable \in CableNames
             /\ bits.failed \/ 1 \notin bits.done \/ bits.normal = L(FALSE, FALSE)
             /\ bits.no_power \in {{}, L(TRUE, FALSE)}
             /\ bits.low_batt \in {{}, L(TRUE, FALSE), L(TRUE, TRUE), L(FALSE, FALSE)}

LEMMA LinesAre ==
    /\ \A c \in CableNames, batt \in BOOLEAN, low \in BOOLEAN : Lines(c, batt, low) \subseteq LineNames
    /\ Lines("CUSTOM_SIMPLE", FALSE, FALSE) = {"CTS"}
    /\ Lines("CUSTOM_SIMPLE", TRUE, FALSE) = {"CD", "CTS"}
    /\ Lines("CUSTOM_SIMPLE", TRUE, TRUE) = {"CD"}
    /\ Lines("0020A", FALSE, FALSE) = {}
    /\ Lines("0020A", TRUE, FALSE) = {"CTS"}
    /\ Lines("0020A", TRUE, TRUE) = {"CD", "CTS"}
    /\ Lines("0023A", FALSE, FALSE) = {}
    /\ Lines("0023A", TRUE, FALSE) = {"CD"}
    /\ Lines("0023A", TRUE, TRUE) = {"CD"}
    /\ Lines("0095A", FALSE, FALSE) = {}
    /\ Lines("0095A", TRUE, FALSE) = {"RNG"}
    /\ Lines("0095A", TRUE, TRUE) = {"CD", "RNG"}
    /\ Lines("MAM", FALSE, FALSE) = {"CD", "CTS"}
    /\ Lines("MAM", TRUE, FALSE) = {"CD"}
    /\ Lines("MAM", TRUE, TRUE) = {}
<1>1. ASSUME NEW c \in CableNames, NEW batt \in BOOLEAN, NEW low \in BOOLEAN
      PROVE  Lines(c, batt, low) \subseteq LineNames
  BY DEF Lines, LineNames, CableNames
<1>2. /\ Lines("CUSTOM_SIMPLE", FALSE, FALSE) = {"CTS"}
      /\ Lines("CUSTOM_SIMPLE", TRUE, FALSE) = {"CD", "CTS"}
      /\ Lines("CUSTOM_SIMPLE", TRUE, TRUE) = {"CD"}
  BY DEF Lines
<1>3. /\ Lines("0020A", FALSE, FALSE) = {}
      /\ Lines("0020A", TRUE, FALSE) = {"CTS"}
      /\ Lines("0020A", TRUE, TRUE) = {"CD", "CTS"}
  BY DEF Lines
<1>4. /\ Lines("0023A", FALSE, FALSE) = {}
      /\ Lines("0023A", TRUE, FALSE) = {"CD"}
      /\ Lines("0023A", TRUE, TRUE) = {"CD"}
  BY DEF Lines
<1>5. /\ Lines("0095A", FALSE, FALSE) = {}
      /\ Lines("0095A", TRUE, FALSE) = {"RNG"}
      /\ Lines("0095A", TRUE, TRUE) = {"CD", "RNG"}
  BY DEF Lines
<1>6. /\ Lines("MAM", FALSE, FALSE) = {"CD", "CTS"}
      /\ Lines("MAM", TRUE, FALSE) = {"CD"}
      /\ Lines("MAM", TRUE, TRUE) = {}
  BY DEF Lines
<1> QED
  BY <1>1, <1>2, <1>3, <1>4, <1>5, <1>6

(* guess() names at most the cable that is connected.                      *)
LEMMA GuessIsRight ==
    ASSUME BitsInv, tool.mode = "dumb", ~bits.failed, {1, 3} \subseteq bits.done
    PROVE  /\ unit.cable # "CUSTOM_SIMPLE" => ~LooksLike({"CD", "CTS"}, "CD", "CTS")
           /\ unit.cable # "0020A" => ~LooksLike({"CD", "CTS"}, "CTS", "CD")
           /\ unit.cable # "0023A" => ~LooksLike({"CD", "SR"}, "CD", "SR")
           /\ unit.cable # "0095A" => ~LooksLike({"RNG", "CD"}, "RNG", "CD")
<1> DEFINE c == unit.cable
<1>1. /\ bits.normal = Lines(c, FALSE, FALSE)
      /\ bits.no_power = {} \/ bits.no_power = Lines(c, TRUE, FALSE)
      /\ \/ bits.low_batt = {} \/ bits.low_batt = Lines(c, TRUE, FALSE)
         \/ bits.low_batt = Lines(c, TRUE, TRUE) \/ bits.low_batt = Lines(c, FALSE, FALSE)
      /\ c \in CableNames
  BY DEF BitsInv
<1> HIDE DEF c
<1>s. unit.cable = c
  BY DEF c
<1>2. CASE c = "CUSTOM_SIMPLE"
  <2>1. /\ Lines(c, FALSE, FALSE) = {"CTS"}
        /\ Lines(c, TRUE, FALSE) = {"CD", "CTS"}
        /\ Lines(c, TRUE, TRUE) = {"CD"}
    BY <1>2, LinesAre
  <2>2. /\ bits.normal = {"CTS"}
        /\ bits.no_power = {} \/ bits.no_power = {"CD", "CTS"}
        /\ \/ bits.low_batt = {} \/ bits.low_batt = {"CD", "CTS"}
           \/ bits.low_batt = {"CD"} \/ bits.low_batt = {"CTS"}
    BY <1>1, <2>1
  <2> QED
    BY <1>2, <1>s, <2>2 DEF LooksLike
<1>3. CASE c = "0020A"
  <2>1. /\ Lines(c, FALSE, FALSE) = {}
        /\ Lines(c, TRUE, FALSE) = {"CTS"}
        /\ Lines(c, TRUE, TRUE) = {"CD", "CTS"}
    BY <1>3, LinesAre
  <2>2. /\ bits.normal = {}
        /\ bits.no_power = {} \/ bits.no_power = {"CTS"}
        /\ \/ bits.low_batt = {} \/ bits.low_batt = {"CTS"}
           \/ bits.low_batt = {"CD", "CTS"} \/ bits.low_batt = {}
    BY <1>1, <2>1
  <2> QED
    BY <1>3, <1>s, <2>2 DEF LooksLike
<1>4. CASE c = "0023A"
  <2>1. /\ Lines(c, FALSE, FALSE) = {}
        /\ Lines(c, TRUE, FALSE) = {"CD"}
        /\ Lines(c, TRUE, TRUE) = {"CD"}
    BY <1>4, LinesAre
  <2>2. /\ bits.normal = {}
        /\ bits.no_power = {} \/ bits.no_power = {"CD"}
        /\ \/ bits.low_batt = {} \/ bits.low_batt = {"CD"}
           \/ bits.low_batt = {"CD"} \/ bits.low_batt = {}
    BY <1>1, <2>1
  <2> QED
    BY <1>4, <1>s, <2>2 DEF LooksLike
<1>5. CASE c = "0095A"
  <2>1. /\ Lines(c, FALSE, FALSE) = {}
        /\ Lines(c, TRUE, FALSE) = {"RNG"}
        /\ Lines(c, TRUE, TRUE) = {"CD", "RNG"}
    BY <1>5, LinesAre
  <2>2. /\ bits.normal = {}
        /\ bits.no_power = {} \/ bits.no_power = {"RNG"}
        /\ \/ bits.low_batt = {} \/ bits.low_batt = {"RNG"}
           \/ bits.low_batt = {"CD", "RNG"} \/ bits.low_batt = {}
    BY <1>1, <2>1
  <2> QED
    BY <1>5, <1>s, <2>2 DEF LooksLike
<1>6. CASE c = "MAM"
  <2>1. /\ Lines(c, FALSE, FALSE) = {"CD", "CTS"}
        /\ Lines(c, TRUE, FALSE) = {"CD"}
        /\ Lines(c, TRUE, TRUE) = {}
    BY <1>6, LinesAre
  <2>2. /\ bits.normal = {"CD", "CTS"}
        /\ bits.no_power = {} \/ bits.no_power = {"CD"}
        /\ \/ bits.low_batt = {} \/ bits.low_batt = {"CD"}
           \/ bits.low_batt = {} \/ bits.low_batt = {"CD", "CTS"}
    BY <1>1, <2>1
  <2> QED
    BY <1>6, <1>s, <2>2 DEF LooksLike
<1> QED
  BY <1>1, <1>2, <1>3, <1>4, <1>5, <1>6 DEF CableNames

(* A test changes some of what has been seen.                              *)
LEMMA NamedIs ==
    ASSUME NEW b \in BitsType, NEW names \in SUBSET CableNames
    PROVE  LET r == [b EXCEPT !.named = names]
           IN  /\ r \in BitsType /\ r.failed = b.failed /\ r.named = names /\ r.done = b.done
               /\ r.normal = b.normal /\ r.no_power = b.no_power /\ r.low_batt = b.low_batt
  BY DEF BitsType

SeenNone(b, done) == [b EXCEPT !.normal = {}, !.done = done, !.failed = TRUE, !.named = {}]
LEMMA SeenNoneIs ==
    ASSUME NEW b \in BitsType, NEW done \in SUBSET {1, 3}
    PROVE  LET r == SeenNone(b, done)
           IN  /\ r \in BitsType /\ r.failed /\ r.named = {}
               /\ r.no_power = b.no_power /\ r.low_batt = b.low_batt
  BY DEF BitsType, SeenNone

Seen1(b, lines, done) == [b EXCEPT !.normal = lines, !.done = done, !.failed = FALSE, !.named = {}]

Seen3(b, lines, done) == [b EXCEPT !.no_power = lines, !.done = done]
LEMMA Test3Is ==
    ASSUME NEW b \in BitsType, NEW lines \in SUBSET LineNames, NEW done \in SUBSET {1, 3}
    PROVE  LET r == Seen3(b, lines, done)
           IN  /\ r \in BitsType /\ r.failed = b.failed /\ r.named = b.named /\ r.done = done
               /\ r.normal = b.normal /\ r.no_power = lines /\ r.low_batt = b.low_batt
  BY DEF BitsType, Seen3

LEMMA Test4Is ==
    ASSUME NEW b \in BitsType, NEW lines \in SUBSET LineNames
    PROVE  LET r == [b EXCEPT !.low_batt = lines]
           IN  /\ r \in BitsType /\ r.failed = b.failed /\ r.named = b.named /\ r.done = b.done
               /\ r.normal = b.normal /\ r.no_power = b.no_power /\ r.low_batt = lines
  BY DEF BitsType

LEMMA BitsKnown ==
    ASSUME BitsInv, tool.mode = "dumb"
    PROVE  LET L(batt, low) == Lines(unit.cable, batt, low)
           IN  /\ unit.cable \in CableNames /\ bits \in BitsType
               /\ bits.failed \in BOOLEAN /\ bits.done \in SUBSET {1, 3}
               /\ bits.failed \/ bits.named \subseteq {unit.cable}
               /\ L(FALSE, FALSE) \in SUBSET LineNames /\ L(TRUE, FALSE) \in SUBSET LineNames
               /\ L(TRUE, TRUE) \in SUBSET LineNames /\ {} \in SUBSET LineNames
               /\ bits.failed \/ 1 \notin bits.done \/ bits.normal = L(FALSE, FALSE)
               /\ bits.no_power \in {{}, L(TRUE, FALSE)}
               /\ bits.low_batt \in {{}, L(TRUE, FALSE), L(TRUE, TRUE), L(FALSE, FALSE)}
  BY LinesAre DEF BitsInv, BitsType

(* What has been seen is b now.                                            *)
LEMMA BitsNext ==
    ASSUME BitsInv, tool'.mode = tool.mode, tool.mode = "dumb", unit' = unit,
           NEW b \in BitsType, bits' = b,
           b.failed \/ b.named \subseteq {unit.cable},
           b.failed \/ 1 \notin b.done \/ b.normal = Lines(unit.cable, FALSE, FALSE),
           b.no_power \in {{}, Lines(unit.cable, TRUE, FALSE)},
           b.low_batt \in {{}, Lines(unit.cable, TRUE, FALSE), Lines(unit.cable, TRUE, TRUE),
                           Lines(unit.cable, FALSE, FALSE)}
    PROVE  BitsInv'
  BY DEF BitsInv

LEMMA GuessSteps ==
    ASSUME BitsInv, tool.mode = "dumb", Guess
    PROVE  BitsInv'
<1>k. /\ bits \in BitsType /\ unit' = unit /\ tool'.mode = tool.mode /\ bits.failed \in BOOLEAN
  BY BitsKnown DEF Guess
<1>1. ASSUME NEW names \in SUBSET CableNames, bits' = [bits EXCEPT !.named = names],
             bits.failed \/ names \subseteq {unit.cable}
      PROVE  BitsInv'
  <2> DEFINE b == [bits EXCEPT !.named = names]
  <2>1. /\ b \in BitsType /\ b.failed = bits.failed /\ b.named = names /\ b.done = bits.done
        /\ b.normal = bits.normal /\ b.no_power = bits.no_power /\ b.low_batt = bits.low_batt
    BY <1>k, NamedIs
  <2>2. bits' = b
    BY <1>1
  <2> HIDE DEF b
  <2> QED
    BY <1>1, <1>k, <2>1, <2>2, BitsKnown, BitsNext
<1>2. CASE ~({1, 3} \subseteq bits.done)
  <2>1. bits' = [bits EXCEPT !.named = {}]
    BY <1>2 DEF Guess
  <2>2. {} \in SUBSET CableNames /\ {} \subseteq {unit.cable}
    OBVIOUS
  <2> QED
    BY <1>1, <2>1, <2>2
<1>3. CASE {1, 3} \subseteq bits.done
  <2> DEFINE names == {c \in {"CUSTOM_SIMPLE", "0020A", "0023A", "0095A"} :
               CASE c = "CUSTOM_SIMPLE" -> LooksLike({"CD", "CTS"}, "CD", "CTS")
                 [] c = "0020A"         -> LooksLike({"CD", "CTS"}, "CTS", "CD")
                 [] c = "0023A"         -> LooksLike({"CD", "SR"}, "CD", "SR")
                 [] c = "0095A"         -> LooksLike({"RNG", "CD"}, "RNG", "CD")}
  <2>1. bits' = [bits EXCEPT !.named = names]
    BY <1>3 DEF Guess
  <2>2. names \in SUBSET CableNames
    BY DEF CableNames
  <2>3. bits.failed \/ names \subseteq {unit.cable}
    BY <1>3, GuessIsRight
  <2> HIDE DEF names
  <2> QED
    BY <1>1, <2>1, <2>2, <2>3
<1> QED
  BY <1>2, <1>3

LEMMA DumbTestSteps ==
    ASSUME BitsInv, tool.mode = "dumb", test1 \/ test3 \/ test4
    PROVE  BitsInv'
<1> DEFINE off == Lines(unit.cable, FALSE, FALSE)
           on == Lines(unit.cable, TRUE, FALSE)
           low == Lines(unit.cable, TRUE, TRUE)
<1>k. /\ bits \in BitsType /\ unit' = unit /\ tool'.mode = tool.mode
      /\ bits.failed \in BOOLEAN /\ bits.done \in SUBSET {1, 3}
      /\ off \in SUBSET LineNames /\ on \in SUBSET LineNames /\ low \in SUBSET LineNames
      /\ {} \in SUBSET LineNames /\ TRUE \in BOOLEAN /\ FALSE \in BOOLEAN
  BY BitsKnown DEF test1, test3, test4
<1>1. CASE test1
  <2> DEFINE d == bits.done \cup {1}
             r1 == SeenNone(bits, d)
             r2 == Seen1(bits, off, d)
  <2>1. bits' = r1 \/ bits' = r2
    BY <1>1 DEF test1, SeenNone, Seen1
  <2>2. d \in SUBSET {1, 3}
    BY <1>k
  <2> HIDE DEF d
  <2>3. /\ r1 \in BitsType /\ r1.failed /\ r1.named = {}
        /\ r1.no_power = bits.no_power /\ r1.low_batt = bits.low_batt
        /\ r2 \in BitsType /\ r2.named = {} /\ r2.normal = off
        /\ r2.no_power = bits.no_power /\ r2.low_batt = bits.low_batt
    <3> HIDE DEF off
    <3>0. bits \in BitsType /\ off \in SUBSET LineNames
      BY <1>k
    <3>1. /\ r1 \in BitsType /\ r1.failed /\ r1.named = {}
          /\ r1.no_power = bits.no_power /\ r1.low_batt = bits.low_batt
      BY <2>2, <3>0, SeenNoneIs
    <3>2. /\ r2 \in BitsType /\ r2.named = {} /\ r2.normal = off
          /\ r2.no_power = bits.no_power /\ r2.low_batt = bits.low_batt
      <4>1. PICK b \in BitsType, lines \in SUBSET LineNames, done \in SUBSET {1, 3} :
                b = bits /\ lines = off /\ done = d
        BY <2>2, <3>0
      <4>2. PICK r : r = Seen1(b, lines, done)
        OBVIOUS
      <4>3. /\ r \in BitsType /\ r.named = {} /\ r.normal = lines
            /\ r.no_power = b.no_power /\ r.low_batt = b.low_batt
        BY <4>2 DEF BitsType, Seen1
      <4> QED
        BY <4>1, <4>2, <4>3
    <3> QED
      BY <3>1, <3>2
  <2> HIDE DEF r1, r2
  <2> QED
    BY <1>k, <2>1, <2>3, BitsKnown, BitsNext
<1>2. CASE test3
  <2>1. PICK lines \in {{}, on} : bits' = [bits EXCEPT !.no_power = lines, !.done = @ \cup {3}]
    BY <1>2 DEF test3
  <2> DEFINE d == bits.done \cup {3}
             b == Seen3(bits, lines, d)
  <2>a. d \in SUBSET {1, 3}
    BY <1>k
  <2>b. lines \in SUBSET LineNames
    <3> HIDE DEF on
    <3> QED
      BY <1>k, <2>1
  <2>c. 1 \in d => 1 \in bits.done
    OBVIOUS
  <2>3. bits' = b
    BY <2>1 DEF Seen3
  <2> HIDE DEF d
  <2>4. /\ b \in BitsType /\ b.failed = bits.failed /\ b.named = bits.named /\ b.done = d
        /\ b.normal = bits.normal /\ b.no_power = lines /\ b.low_batt = bits.low_batt
    BY <1>k, <2>a, <2>b, Test3Is
  <2> HIDE DEF b
  <2> QED
    BY <1>k, <2>1, <2>c, <2>3, <2>4, BitsKnown, BitsNext
<1>3. CASE test4
  <2>1. ASSUME NEW lines, lines \in {bits.no_power, low, off},
               bits' = [bits EXCEPT !.low_batt = lines]
        PROVE  BitsInv'
    <3> DEFINE b == [bits EXCEPT !.low_batt = lines]
    <3>1. lines \in {{}, on, low, off}
      BY <2>1, BitsKnown
    <3>2. lines \in SUBSET LineNames
      BY <1>k, <3>1
    <3>3. /\ b \in BitsType /\ b.failed = bits.failed /\ b.named = bits.named
          /\ b.normal = bits.normal /\ b.no_power = bits.no_power /\ b.low_batt = lines
          /\ b.done = bits.done
      BY <1>k, <3>2, Test4Is
    <3>4. bits' = b
      BY <2>1
    <3> HIDE DEF b
    <3> QED
      BY <1>k, <3>1, <3>3, <3>4, BitsKnown, BitsNext
  <2>2. \E lines \in {bits.no_power, low, off} : bits' = [bits EXCEPT !.low_batt = lines]
    BY <1>3 DEF test4
  <2> QED
    BY <2>1, <2>2
<1> QED
  BY <1>1, <1>2, <1>3

LEMMA BitsSteps ==
    ASSUME TestInv, BitsInv, ApctestNext
    PROVE  BitsInv'
<1>1. CASE do_dumb_testing /\ Guess
  BY <1>1, GuessSteps DEF do_dumb_testing, Menu
<1>2. CASE do_dumb_testing /\ (test1 \/ test3 \/ test4)
  BY <1>2, DumbTestSteps DEF do_dumb_testing, Menu
<1>3. ASSUME UNCHANGED bits PROVE BitsInv'
  <2>1. unit'.cable = unit.cable /\ tool'.mode = tool.mode
    BY SameUps
  <2> QED
    BY <1>3, <2>1 DEF BitsInv
<1>4. CASE do_dumb_testing /\ KillPowerTest
  BY <1>3, <1>4 DEF KillPowerTest
<1>5. CASE ~do_dumb_testing
  <2>1. UNCHANGED bits
    BY <1>5 DEF ApctestNext, UnitStep, do_usb_testing, do_modbus_testing, do_smart_testing,
       usb_run_self_test, usb_calibration, modbus_run_self_test, modbus_calibration, RunTest,
       KillPowerTest, set_battery_date, usb_set_sens, usb_set_alarm, usb_set_self_test_interval,
       usb_set_xferv, EnterSetting, smart_calibration, terminate_calibration, MonitorOnly,
       AbortOld, ClearResult, ClearPoll, StartTest, SelfTestPoll, CalibrationPoll, GetResult,
       PollD, LinkCheck, Monitor, WriteSetting, ReadSetting, AskAgainXferv, Killed
  <2> QED
    BY <1>3, <2>1
<1> QED
  BY <1>1, <1>2, <1>4, <1>5 DEF do_dumb_testing

LEMMA TestSteps ==
    ASSUME TestInv, ApctestNext
    PROVE  TestInv'
<1>f. {"sens", "alarm", "interval", "xferv", "date"} = SettingFns
  BY DEF SettingFns, Listed
<1>1. CASE do_usb_testing
  <2>0. tool.fn = "menu" /\ tool.mode \in {"usb", "modbus"}
    BY <1>1 DEF do_usb_testing, Menu
  <2>1. CASE usb_run_self_test \/ usb_calibration
    BY <2>0, <2>1, RunTestSteps DEF usb_run_self_test, usb_calibration
  <2>2. CASE set_battery_date \/ usb_set_sens \/ usb_set_alarm \/ usb_set_self_test_interval
             \/ usb_set_xferv
    BY <1>f, <2>0, <2>2, EnterSteps DEF set_battery_date, usb_set_sens, usb_set_alarm,
       usb_set_self_test_interval, usb_set_xferv
  <2>3. CASE KillPowerTest
    BY <2>0, <2>3, KillSteps
  <2> QED
    BY <1>1, <2>1, <2>2, <2>3 DEF do_usb_testing
<1>2. CASE do_modbus_testing
  <2>0. tool.fn = "menu" /\ tool.mode \in {"usb", "modbus"}
    BY <1>2 DEF do_modbus_testing, Menu
  <2>1. CASE modbus_run_self_test \/ modbus_calibration
    BY <2>0, <2>1, RunTestSteps DEF modbus_run_self_test, modbus_calibration
  <2>2. CASE set_battery_date
    BY <1>f, <2>0, <2>2, EnterSteps DEF set_battery_date
  <2>3. CASE KillPowerTest
    BY <2>0, <2>3, KillSteps
  <2> QED
    BY <1>2, <2>1, <2>2, <2>3 DEF do_modbus_testing
<1>3. CASE do_dumb_testing
  <2>1. CASE KillPowerTest
    BY <1>3, <2>1, KillSteps DEF do_dumb_testing, Menu
  <2>2. CASE test1 \/ test3 \/ test4 \/ Guess
    <3>1. UNCHANGED <<unit, tool>>
      BY <2>2 DEF test1, test3, test4, Guess
    <3> QED
      BY <3>1 DEF TestInv, TestTypeOK, PlaceInv, RunInv, CompletedAlone, SettingInv, KillFileInv
  <2> QED
    BY <1>3, <2>1, <2>2 DEF do_dumb_testing
<1> QED
  BY <1>1, <1>2, <1>3, UnitSteps, SmartSteps, ClearSteps, TestPollSteps, WriteSteps, ReadSteps,
     AskSteps, KillSteps DEF ApctestNext

LEMMA TestStarts ==
    ASSUME ApctestInit
    PROVE  TestInv /\ BitsInv
<1>1. unit \in UnitType
  <2>1. Accepted \subseteq Accepted /\ {} \in SUBSET Accepted /\ Wirings \cup {"none"} \subseteq CableNames \cup {"none"}
        /\ FALSE \in BOOLEAN /\ {"NONE", "PASSED"} \subseteq Registers
    BY ApctestAssumption DEF Registers
  <2> QED
    BY <2>1 DEF ApctestInit, UnitType
<1>2. tool \in ToolType
  <2>1. 0 \in Nat /\ FALSE \in BOOLEAN /\ "menu" \in Functions /\ "menu" \in Places
        /\ "nothing" \in Reports /\ "nothing" \in Results
    BY DEF Functions, Places, Reports, Results
  <2> QED
    BY <2>1 DEF ApctestInit, ToolType
<1>3. /\ tool.fn = "menu" /\ tool.pc = "menu" /\ tool.said = "nothing" /\ tool.told = 0
      /\ ~tool.pwrfail /\ unit.run = "none" /\ ~unit.alert
      /\ unit.cable = "none" <=> tool.mode # "dumb"
  BY DEF ApctestInit
<1>4. TestInv
  BY <1>1, <1>2, <1>3 DEF TestInv, TestTypeOK, PlaceInv, RunInv, CompletedAlone, SettingInv, KillFileInv, Over
<1>5. BitsInv
  <2>1. bits \in BitsType
    BY DEF ApctestInit, BitsType
  <2>2. bits.named = {} /\ bits.done = {} /\ bits.no_power = {} /\ bits.low_batt = {}
    BY DEF ApctestInit
  <2>3. tool.mode = "dumb" => unit.cable \in CableNames
    BY <1>1, <1>3 DEF UnitType
  <2> QED
    BY <2>1, <2>2, <2>3 DEF BitsInv
<1> QED
  BY <1>4, <1>5

(* What the user of apctest is told is so, for every setting, every number *)
(* of polls and any number of commands and answers that fail.              *)
THEOREM ReportsAlwaysTrue == TestSpec => []ReportsAreTrue
<1>1. ApctestInit => TestInv /\ BitsInv
  BY TestStarts
<1>2. TestInv /\ BitsInv /\ [ApctestNext]_testVars => (TestInv /\ BitsInv)'
  <2>1. ASSUME TestInv, BitsInv, ApctestNext PROVE (TestInv /\ BitsInv)'
    BY <2>1, TestSteps, BitsSteps
  <2>2. ASSUME TestInv, BitsInv, UNCHANGED testVars PROVE (TestInv /\ BitsInv)'
    <3>1. UNCHANGED <<unit, tool, bits>>
      BY <2>2 DEF testVars
    <3>2. TestInv'
      BY <2>2, <3>1 DEF TestInv, TestTypeOK, PlaceInv, RunInv, CompletedAlone, SettingInv, KillFileInv
    <3>3. BitsInv'
      BY <2>2, <3>1 DEF BitsInv
    <3> QED
      BY <3>2, <3>3
  <2> QED
    BY <2>1, <2>2
<1>3. TestInv /\ BitsInv => ReportsAreTrue
  BY DEF TestInv, PlaceInv, RunInv, SettingInv, KillFileInv, BitsInv, CompletedAlone, ReportsAreTrue
<1> QED
  BY <1>1, <1>2, <1>3, PTL DEF TestSpec

(***************************************************************************)
(* The programming of a smart UPS.                                         *)
(***************************************************************************)
(* What a UPS must be for its values to be told from other answers and     *)
(* from each other: a value that is there twice is there twice in a row.   *)
Following(n, k) == IF k = Len(Rings[n]) THEN 1 ELSE k + 1
RingsTurn ==
    \A n \in Items, k \in 1..10, l \in 1..10 :
        k <= Len(Rings[n]) /\ l <= Len(Rings[n]) =>
            /\ Rings[n][k] \notin {"OK", "none"}
            /\ Rings[n][k] = Rings[n][l] /\ k # l => l = Following(n, k) \/ k = Following(n, l)

ValuesOf(n) == {Rings[n][k] : k \in 1..Len(Rings[n])}
Words == {"OK", "none"} \cup UNION {ValuesOf(n) : n \in Items}

EepromPlaces == {"next", "old", "stable", "ask", "cycle", "first", "second"}
Working == EepromPlaces \ {"next"}
EeType == [pc : EepromPlaces, item : 0..Len(Rings), i : 0..9, old : Words, first : Words,
           wire : Seq(Words), start : Nat, stale : BOOLEAN, faults : Nat]
InPlace == place \in [Items -> Nat] /\ \A n \in Items : place[n] \in 1..Len(Rings[n])
EepromTypeOK ==
    /\ InPlace /\ ee \in EeType
    /\ result \in [Items -> {"none", "SUCCESS", "FAILURE"}]

(* What is on the line of an item that was begun with nothing there: until *)
(* the UPS is cycled, answers that are values; the OK that is read then    *)
(* leaves nothing, and what comes after it is the value there is now.      *)
WireInv ==
    ~ee.stale =>
        /\ ee.pc = "old" => ee.wire = <<>>
        /\ ee.pc \in {"stable", "ask", "cycle"} => ee.wire \in Seq(ValuesOf(ee.item))
        /\ ee.pc \in {"first", "second"} => ee.wire \in Seq({Value(ee.item)})

(* After m turns from the start; the places that were seen on the way.     *)
Turned(n, m) == LET len == Len(Rings[n]) IN place[n] \in {ee.start + m, ee.start + m - len, ee.start + m - len - len}
Seen(n, m, k) == k \in ee.start..(ee.start + m) \/ k + Len(Rings[n]) \in ee.start..(ee.start + m)
Refused(n, m) == \A k \in 1..Len(Rings[n]) : Seen(n, m, k) => Rings[n][k] # wanted[n]
Within(n, m) == m < Len(Rings[n]) \/ (Len(Rings[n]) = 1 /\ m <= 1)

(* As long as no answer was lost or late: every value since the old one    *)
(* has been seen, and was not the setting.                                 *)
TurnInv ==
    ee.faults = 0 /\ ee.pc # "next" =>
        LET n == ee.item
        IN  /\ ee.pc \in {"old", "stable"} => place[n] = ee.start
            /\ ee.pc \in Working \ {"old"} => ee.old = Rings[n][ee.start] /\ ee.old # wanted[n]
            /\ ee.pc \in {"ask", "cycle"} => Turned(n, ee.i) /\ Refused(n, ee.i)
            /\ ee.pc \in {"first", "second"} => Turned(n, ee.i + 1) /\ Refused(n, ee.i)
            /\ ee.pc \in {"ask", "cycle", "first", "second"} => Within(n, ee.i)
            /\ ee.pc = "second" => ee.first = Value(n)

EepromInv ==
    /\ EepromTypeOK /\ WireInv /\ TurnInv /\ SettingEndsWell
    /\ ee.faults = 0 => ee.wire = <<>>
    /\ ee.pc \in {"next", "old", "stable"} => ee.i = 0
    /\ ee.pc # "next" => ee.item \in Items /\ result[ee.item] = "none" /\ ee.start \in 1..Len(Rings[ee.item])
    /\ \A n \in Items : n > ee.item => result[n] = "none"

LEMMA RingsAre ==
    /\ Items = 1..Len(Rings) /\ Len(Rings) \in Nat
    /\ \A n \in Items : Rings[n] \in Seq(STRING) /\ Len(Rings[n]) \in 1..10
<1>1. Rings \in Seq(Seq(STRING))
  BY EepromAssumption
<1>2. Len(Rings) \in Nat /\ Rings \in [1..Len(Rings) -> Seq(STRING)] /\ DOMAIN Rings = 1..Len(Rings)
  BY <1>1, LenProperties
<1> QED
  BY <1>2, EepromAssumption DEF Items

LEMMA ValuesAre ==
    ASSUME InPlace, NEW n \in Items
    PROVE  /\ place[n] \in 1..Len(Rings[n]) /\ Len(Rings[n]) \in 1..10
           /\ Value(n) \in ValuesOf(n) /\ ValuesOf(n) \subseteq Words
<1>1. place[n] \in 1..Len(Rings[n]) /\ Len(Rings[n]) \in 1..10
  BY RingsAre DEF InPlace
<1>2. Value(n) \in ValuesOf(n)
  BY <1>1 DEF Value, ValuesOf
<1>3. ValuesOf(n) \subseteq Words
  BY DEF Words
<1> QED
  BY <1>1, <1>2, <1>3

LEMMA TurnIs ==
    ASSUME NEW len \in 1..10, NEW k \in 1..len
    PROVE  (k % len) + 1 = IF k = len THEN 1 ELSE k + 1
<1>1. CASE len = 1
  BY <1>1
<1>2. CASE len = 2
  BY <1>2
<1>3. CASE len = 3
  BY <1>3
<1>4. CASE len = 4
  BY <1>4
<1>5. CASE len = 5
  BY <1>5
<1>6. CASE len = 6
  BY <1>6
<1>7. CASE len = 7
  BY <1>7
<1>8. CASE len = 8
  BY <1>8
<1>9. CASE len = 9
  BY <1>9
<1>10. CASE len = 10
  BY <1>10
<1> QED
  BY <1>1, <1>2, <1>3, <1>4, <1>5, <1>6, <1>7, <1>8, <1>9, <1>10

(* An answer is one of those on the line, the one to this question or      *)
(* none; when none was ever lost or late it is the one to this question.   *)
LEMMA OutcomesAre ==
    ASSUME EepromTypeOK, NEW T, ee.wire \in Seq(T), NEW a, NEW o \in Outcomes(a)
    PROVE  /\ o.line \in T \cup {a, "none"} /\ o.rest \in Seq(T \cup {a}) /\ o.faults \in Nat
           /\ o.faults = 0 => ee.faults = 0
           /\ o.faults = 0 /\ ee.wire = <<>> => o.line = a /\ o.rest = <<>>
           /\ ee.wire # <<>> => o.line \in T \cup {"none"}
           /\ ee.wire = <<>> => o.line \in {a, "none"} /\ (o.line # "none" => o.rest = <<>>)
<1> DEFINE w == Append(ee.wire, a)
           S == T \cup {a}
<1>0. ee.wire \in Seq(S)
  BY SeqMonotonic
<1>1. w \in Seq(S) /\ w # <<>>
  BY <1>0, AppendProperties
<1>2. Head(w) \in S /\ Tail(w) \in Seq(S)
  BY <1>1, HeadTailProperties
<1>3. ee.wire = <<>> => Head(w) = a /\ Tail(w) = <<>>
  BY HeadTailAppend
<1>a. ee.wire # <<>> => Head(w) = Head(ee.wire)
  BY HeadTailAppend
<1>4. ee.wire # <<>> => Head(ee.wire) \in T /\ Tail(ee.wire) \in Seq(S)
  BY <1>0, HeadTailProperties
<1>5. ee.faults \in Nat /\ <<>> \in Seq(S)
  BY EmptySeq DEF EepromTypeOK, EeType
<1>6. \/ o = [line |-> Head(w), rest |-> Tail(w), faults |-> ee.faults]
      \/ o = [line |-> "none", rest |-> w, faults |-> ee.faults + 1]
      \/ ee.wire = <<>> /\ o = [line |-> "none", rest |-> <<>>, faults |-> ee.faults + 1]
      \/ ee.wire # <<>> /\ o = [line |-> Head(ee.wire), rest |-> Tail(ee.wire), faults |-> ee.faults + 1]
  BY DEF Outcomes
<1>7. ee.faults + 1 \in Nat /\ ee.faults + 1 # 0
  BY <1>5
<1> HIDE DEF w, S
<1>b. S = T \cup {a}
  BY DEF S
<1>8. CASE o = [line |-> Head(w), rest |-> Tail(w), faults |-> ee.faults]
  BY <1>b, <1>2, <1>3, <1>a, <1>4, <1>5, <1>8
<1>9. CASE o = [line |-> "none", rest |-> w, faults |-> ee.faults + 1]
  BY <1>b, <1>1, <1>7, <1>9
<1>10. CASE ee.wire = <<>> /\ o = [line |-> "none", rest |-> <<>>, faults |-> ee.faults + 1]
  BY <1>b, <1>5, <1>7, <1>10
<1>11. CASE ee.wire # <<>> /\ o = [line |-> Head(ee.wire), rest |-> Tail(ee.wire), faults |-> ee.faults + 1]
  BY <1>b, <1>4, <1>7, <1>11
<1> QED
  BY <1>6, <1>8, <1>9, <1>10, <1>11

LEMMA GotIs ==
    ASSUME EepromTypeOK, NEW pc \in EepromPlaces, NEW o, o.rest \in Seq(Words), o.faults \in Nat
    PROVE  LET e == Got(o, pc)
           IN  /\ e \in EeType /\ e.pc = pc /\ e.wire = o.rest /\ e.faults = o.faults
               /\ e.item = ee.item /\ e.i = ee.i /\ e.old = ee.old /\ e.first = ee.first
               /\ e.start = ee.start /\ e.stale = ee.stale
<1>1. ee \in EeType
  BY DEF EepromTypeOK
<1> QED
  BY <1>1 DEF Got, EeType

(* The item is finished.                                                   *)
LEMMA ReturnSteps ==
    ASSUME EepromInv, ee.pc \in Working, InPlace', UNCHANGED wanted,
           NEW e \in EeType, e.item = ee.item, e.start = ee.start, e.stale = ee.stale,
           NEW r \in {"SUCCESS", "FAILURE"}, Returns(e, r),
           e.faults = 0 => e.wire = <<>>,
           r = "SUCCESS" /\ ~ee.stale => Value(ee.item)' = wanted[ee.item],
           r = "FAILURE" /\ e.faults = 0 =>
              ~HasValue(ee.item, wanted[ee.item]) /\ Value(ee.item)' = Rings[ee.item][ee.start]
    PROVE  EepromInv'
<1> DEFINE n == ee.item
<1>1. /\ ee' \in EeType /\ ee'.pc = "next" /\ ee'.item = ee.item /\ ee'.start = ee.start
      /\ ee'.stale = ee.stale /\ ee'.wire = e.wire /\ ee'.faults = e.faults /\ ee'.i = 0
  <2>1. ee' = [e EXCEPT !.pc = "next", !.i = 0, !.old = "none", !.first = "none"]
    BY DEF Returns
  <2>2. "next" \in EepromPlaces /\ 0 \in 0..9 /\ "none" \in Words
    BY DEF EepromPlaces, Words
  <2> QED
    BY <2>1, <2>2 DEF EeType
<1>2. n \in Items /\ result \in [Items -> {"none", "SUCCESS", "FAILURE"}]
  BY DEF EepromInv, EepromTypeOK, Working
<1>3. /\ result' = [result EXCEPT ![n] = r] /\ result'[n] = r
      /\ result' \in [Items -> {"none", "SUCCESS", "FAILURE"}]
      /\ \A m \in Items : m # n => result'[m] = result[m]
  BY <1>2 DEF Returns
<1>4. EepromTypeOK'
  BY <1>1, <1>3 DEF EepromTypeOK
<1>5. WireInv' /\ TurnInv'
  BY <1>1 DEF WireInv, TurnInv
<1>6. SettingEndsWell'
  <2>1. ee.item' = n /\ wanted' = wanted
    BY <1>1
  <2>2. Value(ee.item)' = Rings[n][place'[n]]
    BY <2>1 DEF Value
  <2>3. CASE r = "SUCCESS"
    BY <1>1, <1>3, <2>1, <2>2, <2>3 DEF SettingEndsWell, Value
  <2>4. CASE r = "FAILURE"
    BY <1>1, <1>3, <2>1, <2>2, <2>4 DEF SettingEndsWell, HasValue, Value
  <2> QED
    BY <2>3, <2>4
<1>7. \A m \in Items : m > ee'.item => result'[m] = "none"
  BY <1>1, <1>3, <1>2, RingsAre DEF EepromInv
<1> QED
  BY <1>1, <1>4, <1>5, <1>6, <1>7 DEF EepromInv

(* It is worked on.                                                        *)
LEMMA GoOnSteps ==
    ASSUME EepromInv, ee.pc \in Working, InPlace', UNCHANGED <<wanted, result>>,
           ee' \in EeType, ee'.pc \in Working, UNCHANGED <<ee.item, ee.start, ee.stale>>,
           ee'.faults = 0 => ee'.wire = <<>>,
           ee'.pc \in {"old", "stable"} => ee'.i = 0,
           WireInv', TurnInv'
    PROVE  EepromInv'
<1>1. EepromTypeOK'
  BY DEF EepromInv, EepromTypeOK
<1>2. SettingEndsWell'
  BY DEF SettingEndsWell, Working
<1>3. ee.pc # "next" /\ ee'.pc # "next"
  BY DEF Working
<1>4. ee'.item \in Items /\ result'[ee'.item] = "none" /\ ee'.start \in 1..Len(Rings[ee'.item])
  BY <1>3 DEF EepromInv
<1>5. \A m \in Items : m > ee'.item => result'[m] = "none"
  BY DEF EepromInv
<1> QED
  BY <1>1, <1>2, <1>3, <1>4, <1>5 DEF EepromInv

LEMMA Asked ==
    ASSUME EepromInv, NEW a \in Words, NEW o \in Outcomes(a)
    PROVE  /\ o.line \in Words /\ o.rest \in Seq(Words) /\ o.faults \in Nat
           /\ o.faults = 0 => ee.faults = 0 /\ o.line = a /\ o.rest = <<>>
<1>1. EepromTypeOK /\ ee.wire \in Seq(Words) /\ (ee.faults = 0 => ee.wire = <<>>)
  BY DEF EepromInv, EepromTypeOK, EeType
<1>2. Words \cup {a} = Words /\ Words \cup {a, "none"} = Words
  BY DEF Words
<1>3. /\ o.line \in Words \cup {a, "none"} /\ o.rest \in Seq(Words \cup {a}) /\ o.faults \in Nat
      /\ o.faults = 0 => ee.faults = 0
      /\ o.faults = 0 /\ ee.wire = <<>> => o.line = a /\ o.rest = <<>>
  BY <1>1, OutcomesAre
<1> QED
  BY <1>1, <1>2, <1>3

(* The line holds nothing but values in T, and that is what is read.       *)
LEMMA AskedAmong ==
    ASSUME EepromInv, NEW T, ee.wire \in Seq(T), NEW a \in T, NEW o \in Outcomes(a)
    PROVE  o.line \in T \cup {"none"} /\ o.rest \in Seq(T)
<1>1. EepromTypeOK
  BY DEF EepromInv
<1>2. T \cup {a} = T /\ T \cup {a, "none"} = T \cup {"none"}
  OBVIOUS
<1>3. o.line \in T \cup {a, "none"} /\ o.rest \in Seq(T \cup {a})
  BY <1>1, OutcomesAre
<1> QED
  BY <1>2, <1>3

LEMMA AtWork ==
    ASSUME EepromInv, ee.pc \in Working
    PROVE  /\ ee.item \in Items /\ ee.start \in 1..Len(Rings[ee.item])
           /\ Len(Rings[ee.item]) \in 1..10 /\ place[ee.item] \in 1..Len(Rings[ee.item])
           /\ Value(ee.item) \in ValuesOf(ee.item) /\ Value(ee.item) \in Words
           /\ ValuesOf(ee.item) \subseteq Words
           /\ ee.wire \in Seq(Words) /\ ee.i \in 0..9 /\ InPlace /\ EepromTypeOK /\ ee.stale \in BOOLEAN
<1>1. ee.item \in Items /\ ee.start \in 1..Len(Rings[ee.item]) /\ EepromTypeOK
  BY DEF EepromInv, Working
<1>2. InPlace /\ ee.wire \in Seq(Words) /\ ee.i \in 0..9 /\ ee.stale \in BOOLEAN
  BY <1>1 DEF EepromTypeOK, EeType
<1> QED
  BY <1>1, <1>2, ValuesAre

LEMMA NoAnswer ==
    ASSUME RingsTurn, NEW n \in Items
    PROVE  "OK" \notin ValuesOf(n) /\ "none" \notin ValuesOf(n)
<1>1. Len(Rings[n]) \in 1..10
  BY RingsAre
<1>2. ASSUME NEW k \in 1..Len(Rings[n]) PROVE Rings[n][k] \notin {"OK", "none"}
  <2>1. k \in 1..10 /\ k <= Len(Rings[n])
    <3> DEFINE len == Len(Rings[n])
    <3>1. len \in 1..10 /\ k \in 1..len
      BY <1>1
    <3> HIDE DEF len
    <3>2. k \in 1..10 /\ k <= len
      BY <3>1
    <3> QED
      BY <3>2 DEF len
  <2> QED
    BY <2>1 DEF RingsTurn
<1> QED
  BY <1>2 DEF ValuesOf

LEMMA NextItemSteps ==
    ASSUME EepromInv, NextItem
    PROVE  EepromInv'
<1> DEFINE n == ee.item + 1
           p == IF Configured(n) THEN "old" ELSE "next"
           s == ee.wire # <<>>
<1>1. /\ ee.pc = "next" /\ ee.item < Len(Rings) /\ UNCHANGED <<place, wanted, result>>
      /\ ee' = [ee EXCEPT !.item = n, !.pc = p, !.start = place[n], !.stale = s]
  BY DEF NextItem
<1>2. ee \in EeType /\ InPlace /\ ee.item \in 0..Len(Rings) /\ ee.i = 0
  BY <1>1 DEF EepromInv, EepromTypeOK, EeType
<1>3. n \in Items /\ n \in 0..Len(Rings) /\ n > ee.item /\ ee.item \in Nat
  BY <1>1, <1>2, RingsAre
<1>4. place[n] \in 1..Len(Rings[n]) /\ place[n] \in Nat /\ p \in {"old", "next"} /\ s \in BOOLEAN
  BY <1>2, <1>3, ValuesAre, RingsAre
<1>5. {"old", "next"} \subseteq EepromPlaces
  BY DEF EepromPlaces
<1> HIDE DEF n, p, s
<1>6. /\ ee' \in EeType /\ ee'.item = n /\ ee'.pc = p /\ ee'.start = place[n] /\ ee'.stale = s
      /\ ee'.wire = ee.wire /\ ee'.faults = ee.faults /\ ee'.i = ee.i
  BY <1>1, <1>2, <1>3, <1>4, <1>5 DEF EeType
<1>7. EepromTypeOK'
  BY <1>1, <1>6 DEF EepromInv, EepromTypeOK, InPlace
<1>8. WireInv'
  BY <1>4, <1>6 DEF WireInv, s
<1>9. TurnInv'
  <2>1. ee.item' = n /\ place' = place
    BY <1>1, <1>6
  <2> QED
    BY <1>4, <1>6, <2>1 DEF TurnInv, Working
<1>10. SettingEndsWell'
  <2>1. result'[ee'.item] = "none"
    BY <1>1, <1>3, <1>6 DEF EepromInv
  <2> QED
    BY <2>1 DEF SettingEndsWell
<1>11. \A m \in Items : m > ee'.item => result'[m] = "none"
  <2>1. ASSUME NEW m \in Items, m > n PROVE m > ee.item
    BY <1>3, <2>1, RingsAre
  <2> QED
    BY <1>1, <1>6, <2>1 DEF EepromInv
<1>12. ee'.pc # "next" => ee'.item \in Items /\ result'[ee'.item] = "none" /\ ee'.start \in 1..Len(Rings[ee'.item])
  BY <1>1, <1>3, <1>4, <1>6 DEF EepromInv
<1> QED
  BY <1>2, <1>6, <1>7, <1>8, <1>9, <1>10, <1>11, <1>12 DEF EepromInv

(* The first two questions: the UPS is where it was.                       *)
LEMMA AskOldSteps ==
    ASSUME RingsTurn, EepromInv, AskOld
    PROVE  EepromInv'
<1> DEFINE n == ee.item
<1>0. ee.pc = "old" /\ ee.pc \in Working /\ UNCHANGED <<place, wanted>>
  BY DEF AskOld, Working, EepromPlaces
<1>2. /\ n \in Items /\ Value(n) \in ValuesOf(n) /\ Value(n) \in Words /\ InPlace /\ EepromTypeOK
      /\ ee.wire \in Seq(Words) /\ Value(n) # "none"
  BY <1>0, AtWork, NoAnswer
<1>1. PICK o \in Outcomes(Value(n)) :
         IF o.line = "none" THEN Returns(Got(o, "next"), "FAILURE")
         ELSE IF o.line = wanted[n] THEN Returns(Got(o, "next"), "SUCCESS")
         ELSE ee' = [Got(o, "stable") EXCEPT !.old = o.line] /\ UNCHANGED result
  BY DEF AskOld
<1>3. /\ o.line \in Words /\ o.rest \in Seq(Words) /\ o.faults \in Nat
      /\ o.faults = 0 => ee.faults = 0 /\ o.line = Value(n) /\ o.rest = <<>>
  BY <1>2, Asked
<1>p. InPlace'
  BY <1>0, <1>2 DEF InPlace
<1>4. ~ee.stale => o.line \in {Value(n), "none"} /\ o.rest \in Seq(ValuesOf(n))
  <2>1. ASSUME ~ee.stale PROVE o.line \in {Value(n), "none"} /\ o.rest \in Seq(ValuesOf(n))
    <3>1. ee.wire = <<>>
      BY <1>0, <2>1 DEF EepromInv, WireInv
    <3>2. ee.wire \in Seq(ValuesOf(n))
      BY <3>1, EmptySeq
    <3>3. o.line \in {Value(n), "none"}
      BY <1>2, <3>1, <3>2, OutcomesAre
    <3>4. o.rest \in Seq(ValuesOf(n))
      BY <1>2, <3>2, AskedAmong
    <3> QED
      BY <3>3, <3>4
  <2> QED
    BY <2>1
<1>5. ee.faults = 0 => place[n] = ee.start
  BY <1>0 DEF EepromInv, TurnInv
<1> DEFINE e == Got(o, "next")
<1>6. /\ e \in EeType /\ e.item = ee.item /\ e.start = ee.start /\ e.stale = ee.stale
      /\ e.wire = o.rest /\ e.faults = o.faults
  BY <1>2, <1>3, GotIs DEF EepromPlaces
<1>7. CASE o.line = "none"
  <2>1. Returns(e, "FAILURE")
    BY <1>1, <1>7
  <2>2. e.faults # 0
    BY <1>2, <1>3, <1>6, <1>7
  <2> HIDE DEF e
  <2> QED
    BY <1>0, <1>p, <1>6, <2>1, <2>2, ReturnSteps
<1>8. CASE o.line # "none" /\ o.line = wanted[n]
  <2>1. Returns(e, "SUCCESS")
    BY <1>1, <1>8
  <2>2. ee.item' = ee.item
    BY <1>6, <2>1 DEF Returns, EeType
  <2>3. ~ee.stale => Value(n) = wanted[n]
    BY <1>4, <1>8
  <2>4. ~ee.stale => Value(ee.item)' = wanted[ee.item]
    BY <1>0, <2>2, <2>3 DEF Value
  <2>5. e.faults = 0 => e.wire = <<>>
    BY <1>3, <1>6
  <2> HIDE DEF e
  <2> QED
    BY <1>0, <1>p, <1>6, <2>1, <2>4, <2>5, ReturnSteps
<1>9. CASE o.line # "none" /\ o.line # wanted[n]
  <2> DEFINE g == Got(o, "stable")
  <2>1. ee' = [g EXCEPT !.old = o.line] /\ UNCHANGED result
    BY <1>1, <1>9
  <2>2. /\ g \in EeType /\ g.item = ee.item /\ g.start = ee.start /\ g.stale = ee.stale
        /\ g.wire = o.rest /\ g.faults = o.faults /\ g.pc = "stable" /\ g.i = ee.i
    BY <1>2, <1>3, GotIs DEF EepromPlaces
  <2> HIDE DEF g
  <2>3. /\ ee' \in EeType /\ ee'.item = ee.item /\ ee'.start = ee.start /\ ee'.stale = ee.stale
        /\ ee'.wire = o.rest /\ ee'.faults = o.faults /\ ee'.pc = "stable" /\ ee'.old = o.line
        /\ ee'.i = ee.i
    BY <1>3, <2>1, <2>2 DEF EeType
  <2>4. WireInv'
    BY <1>4, <2>3 DEF WireInv
  <2>5. TurnInv'
    <3>1. ee'.faults = 0 => place[n] = ee.start /\ ee'.old = Rings[n][ee.start] /\ ee'.old # wanted[n]
      BY <1>3, <1>5, <1>9, <2>3 DEF Value
    <3> QED
      BY <1>0, <2>3, <3>1 DEF TurnInv
  <2>6. ee'.i = 0
    BY <1>0, <2>3 DEF EepromInv
  <2>7. ee'.pc \in Working /\ (ee'.faults = 0 => ee'.wire = <<>>)
    BY <1>3, <2>3 DEF Working, EepromPlaces
  <2> QED
    BY <1>0, <1>p, <2>1, <2>3, <2>4, <2>5, <2>6, <2>7, GoOnSteps
<1> QED
  BY <1>7, <1>8, <1>9

LEMMA AskStableSteps ==
    ASSUME EepromInv, AskStable
    PROVE  EepromInv'
<1> DEFINE n == ee.item
<1>0. ee.pc = "stable" /\ ee.pc \in Working /\ UNCHANGED <<place, wanted>>
  BY DEF AskStable, Working, EepromPlaces
<1>2. /\ n \in Items /\ Value(n) \in ValuesOf(n) /\ Value(n) \in Words /\ InPlace /\ EepromTypeOK
      /\ ee.wire \in Seq(Words) /\ ee.start \in 1..Len(Rings[n]) /\ Len(Rings[n]) \in 1..10
  BY <1>0, AtWork
<1>1. PICK o \in Outcomes(Value(n)) :
         IF o.line # ee.old THEN Returns(Got(o, "next"), "FAILURE")
         ELSE ee' = Got(o, "ask") /\ UNCHANGED result
  BY DEF AskStable
<1>3. /\ o.line \in Words /\ o.rest \in Seq(Words) /\ o.faults \in Nat
      /\ o.faults = 0 => ee.faults = 0 /\ o.line = Value(n) /\ o.rest = <<>>
  BY <1>2, Asked
<1>p. InPlace'
  BY <1>0, <1>2 DEF InPlace
<1>4. ~ee.stale => o.rest \in Seq(ValuesOf(n))
  BY <1>0, <1>2, AskedAmong DEF EepromInv, WireInv
<1>5. ee.faults = 0 => place[n] = ee.start /\ ee.old = Rings[n][ee.start] /\ ee.old # wanted[n]
  BY <1>0 DEF EepromInv, TurnInv, Working
<1>6. CASE o.line # ee.old
  <2> DEFINE e == Got(o, "next")
  <2>1. Returns(e, "FAILURE")
    BY <1>1, <1>6
  <2>2. /\ e \in EeType /\ e.item = ee.item /\ e.start = ee.start /\ e.stale = ee.stale
        /\ e.wire = o.rest /\ e.faults = o.faults
    BY <1>2, <1>3, GotIs DEF EepromPlaces
  <2>3. e.faults # 0
    BY <1>3, <1>5, <1>6, <2>2 DEF Value
  <2> HIDE DEF e
  <2> QED
    BY <1>0, <1>p, <2>1, <2>2, <2>3, ReturnSteps
<1>7. CASE o.line = ee.old
  <2>1. ee' = Got(o, "ask") /\ UNCHANGED result
    BY <1>1, <1>7
  <2>2. /\ ee' \in EeType /\ ee'.item = ee.item /\ ee'.start = ee.start /\ ee'.stale = ee.stale
        /\ ee'.wire = o.rest /\ ee'.faults = o.faults /\ ee'.pc = "ask" /\ ee'.old = ee.old
        /\ ee'.i = ee.i
    BY <1>2, <1>3, <2>1, GotIs DEF EepromPlaces
  <2>3. ee'.i = 0
    BY <1>0, <2>2 DEF EepromInv
  <2>4. WireInv'
    BY <1>4, <2>2 DEF WireInv
  <2>5. TurnInv'
    <3>1. ASSUME ee'.faults = 0
          PROVE  (Turned(n, 0) /\ Refused(n, 0) /\ Within(n, 0))'
      <4> DEFINE len == Len(Rings[n])
                 a == ee.start
      <4>1. place'[n'] = a /\ ee'.start = a /\ n' = n /\ wanted'[n'] = wanted[n]
        BY <1>0, <1>3, <1>5, <2>2, <3>1
      <4>2. a \in 1..len /\ len \in 1..10 /\ Rings[n][a] # wanted[n]
        BY <1>2, <1>3, <1>5, <2>2, <3>1
      <4> HIDE DEF a
      <4>3. Turned(n, 0)' /\ Within(n, 0)'
        BY <4>1, <4>2 DEF Turned, Within
      <4>4. ASSUME NEW k \in 1..len, k \in a..(a + 0) \/ k + len \in a..(a + 0) PROVE k = a
        <5> HIDE DEF len
        <5> QED
          BY <4>2, <4>4
      <4>5. Refused(n, 0)'
        BY <4>1, <4>2, <4>4 DEF Refused, Seen
      <4> QED
        BY <4>3, <4>5
    <3>2. n' = n /\ (ee'.faults = 0 => ee'.old = Rings[n][ee'.start] /\ ee'.old # wanted'[n])
      BY <1>0, <1>3, <1>5, <2>2
    <3> QED
      BY <2>2, <2>3, <3>1, <3>2 DEF TurnInv
  <2>6. ee'.pc \in Working /\ (ee'.faults = 0 => ee'.wire = <<>>)
    BY <1>3, <2>2 DEF Working, EepromPlaces
  <2> QED
    BY <1>0, <1>p, <2>1, <2>2, <2>3, <2>4, <2>5, <2>6, GoOnSteps
<1> QED
  BY <1>6, <1>7

(* A question of the loop: the UPS stays where it is.                      *)
LEMMA AskLoopSteps ==
    ASSUME RingsTurn, EepromInv, NEW pc \in {"cycle", "second"},
           ee.pc = IF pc = "cycle" THEN "ask" ELSE "first",
           NEW o \in Outcomes(Value(ee.item)),
           ee' = [Got(o, pc) EXCEPT !.first = Heard(o)], UNCHANGED <<place, wanted, result>>
    PROVE  EepromInv'
<1> DEFINE n == ee.item
           T == IF pc = "cycle" THEN ValuesOf(n) ELSE {Value(n)}
           g == Got(o, pc)
<1>0. ee.pc \in Working /\ pc \in EepromPlaces /\ pc \in Working
  BY DEF Working, EepromPlaces
<1>2. /\ n \in Items /\ Value(n) \in ValuesOf(n) /\ Value(n) \in Words /\ InPlace /\ EepromTypeOK
      /\ ee.wire \in Seq(Words) /\ Value(n) # "none"
  BY <1>0, AtWork, NoAnswer
<1>3. /\ o.line \in Words /\ o.rest \in Seq(Words) /\ o.faults \in Nat
      /\ o.faults = 0 => ee.faults = 0 /\ o.line = Value(n) /\ o.rest = <<>>
  BY <1>2, Asked
<1>p. InPlace'
  BY <1>2 DEF InPlace
<1>4. ~ee.stale => o.rest \in Seq(T)
  <2>1. ~ee.stale => ee.wire \in Seq(T)
    BY DEF EepromInv, WireInv
  <2>2. Value(n) \in T
    BY <1>2
  <2> HIDE DEF T
  <2> QED
    BY <2>1, <2>2, AskedAmong
<1>5. /\ g \in EeType /\ g.item = ee.item /\ g.start = ee.start /\ g.stale = ee.stale
      /\ g.wire = o.rest /\ g.faults = o.faults /\ g.pc = pc /\ g.old = ee.old /\ g.i = ee.i
  BY <1>0, <1>2, <1>3, GotIs
<1>6. Heard(o) \in Words /\ (o.line # "none" => Heard(o) = o.line)
  BY <1>2, <1>3 DEF Heard, EepromTypeOK, EeType
<1>7. ee' = [g EXCEPT !.first = Heard(o)]
  OBVIOUS
<1> HIDE DEF g
<1>8. /\ ee' \in EeType /\ ee'.item = ee.item /\ ee'.start = ee.start /\ ee'.stale = ee.stale
      /\ ee'.wire = o.rest /\ ee'.faults = o.faults /\ ee'.pc = pc /\ ee'.old = ee.old
      /\ ee'.i = ee.i /\ ee'.first = Heard(o)
  BY <1>5, <1>6, <1>7 DEF EeType
<1>9. Value(ee.item)' = Value(n)
  BY <1>8 DEF Value
<1>10. WireInv'
  BY <1>4, <1>8, <1>9 DEF WireInv
<1>11. TurnInv'
  <2>1. ASSUME ee'.faults = 0
        PROVE  /\ ee'.old = Rings[n][ee.start] /\ ee'.old # wanted[n]
               /\ pc = "cycle" => Turned(n, ee.i)
               /\ pc = "second" => Turned(n, ee.i + 1)
               /\ Refused(n, ee.i) /\ Within(n, ee.i)
               /\ pc = "second" => ee'.first = Value(n)
    <3>1. ee.faults = 0 /\ ee.pc # "next" /\ o.line = Value(n)
      BY <1>0, <1>3, <1>8, <2>1 DEF Working
    <3>2. /\ ee.old = Rings[n][ee.start] /\ ee.old # wanted[n]
          /\ pc = "cycle" => Turned(n, ee.i)
          /\ pc = "second" => Turned(n, ee.i + 1)
          /\ Refused(n, ee.i) /\ Within(n, ee.i)
      BY <1>0, <3>1 DEF EepromInv, TurnInv
    <3> QED
      BY <1>2, <1>6, <1>8, <3>1, <3>2
  <2>2. n' = n /\ wanted' = wanted /\ place' = place /\ ee'.start = ee.start /\ ee'.i = ee.i
    BY <1>8
  <2>3. /\ Turned(n, ee.i) => Turned(n, ee.i)'
        /\ Turned(n, ee.i + 1) => Turned(n, ee.i + 1)'
        /\ Refused(n, ee.i) => Refused(n, ee.i)'
        /\ Within(n, ee.i) => Within(n, ee.i)'
    BY <2>2 DEF Turned, Refused, Seen, Within
  <2>6. ASSUME ee'.faults = 0
        PROVE  /\ ee'.old = Rings[n'][ee'.start] /\ ee'.old # wanted'[n']
               /\ pc = "cycle" => Turned(n, ee.i)'
               /\ pc = "second" => Turned(n, ee.i + 1)'
               /\ Refused(n, ee.i)' /\ Within(n, ee.i)'
               /\ pc = "second" => ee'.first = Value(n)'
    <3>1. ee'.old = Rings[n'][ee'.start] /\ ee'.old # wanted'[n']
      BY <2>1, <2>2, <2>6
    <3>2. /\ pc = "cycle" => Turned(n, ee.i)'
          /\ pc = "second" => Turned(n, ee.i + 1)'
          /\ Refused(n, ee.i)' /\ Within(n, ee.i)'
      BY <2>1, <2>3, <2>6
    <3>3. pc = "second" => ee'.first = Value(n)'
      <4>1. Value(n)' = Value(n)
        BY <1>9
      <4> QED
        BY <2>1, <2>6, <4>1
    <3> QED
      BY <3>1, <3>2, <3>3
  <2>4. CASE pc = "cycle"
    BY <1>8, <2>4, <2>6 DEF TurnInv
  <2>5. CASE pc = "second"
    BY <1>8, <2>5, <2>6 DEF TurnInv
  <2> QED
    BY <2>4, <2>5
<1>12. ee'.pc \in Working /\ (ee'.faults = 0 => ee'.wire = <<>>) /\ ee'.pc \notin {"old", "stable"}
  BY <1>0, <1>3, <1>8
<1> QED
  BY <1>0, <1>p, <1>8, <1>10, <1>11, <1>12, GoOnSteps

(* The UPS is cycled: one turn more.                                       *)
LEMMA TurnsOn ==
    ASSUME NEW len \in 1..10, NEW a \in 1..len, NEW i \in 0..9, NEW p \in 1..len,
           p \in {a + i, a + i - len, a + i - len - len},
           i < len \/ (len = 1 /\ i <= 1),
           NEW q, q = IF p = len THEN 1 ELSE p + 1
    PROVE  q \in {a + (i + 1), a + (i + 1) - len, a + (i + 1) - len - len} /\ q \in 1..len
  OBVIOUS

LEMMA CycleSteps ==
    ASSUME RingsTurn, EepromInv, Cycle
    PROVE  EepromInv'
<1> DEFINE n == ee.item
           len == Len(Rings[n])
           turned == (place[n] % len) + 1
<1>0. ee.pc = "cycle" /\ ee.pc \in Working /\ UNCHANGED wanted
  BY DEF Cycle, Working, EepromPlaces
<1>2. /\ n \in Items /\ Value(n) \in ValuesOf(n) /\ InPlace /\ EepromTypeOK
      /\ ee.wire \in Seq(Words) /\ len \in 1..10 /\ place[n] \in 1..len
      /\ ee.start \in 1..len /\ ee.i \in 0..9 /\ "OK" \notin ValuesOf(n) /\ "OK" \in Words
      /\ ee.stale \in BOOLEAN
  BY <1>0, AtWork, NoAnswer DEF Words
<1>1. PICK o \in Outcomes("OK") :
         /\ \/ place' = [place EXCEPT ![n] = turned]
            \/ o.line = "none" /\ UNCHANGED place
         /\ IF o.line = "OK" THEN ee' = Got(o, "first") /\ UNCHANGED result
            ELSE Returns(Got(o, "next"), "FAILURE")
  BY DEF Cycle
<1>3. /\ o.line \in Words /\ o.rest \in Seq(Words) /\ o.faults \in Nat
      /\ o.faults = 0 => ee.faults = 0 /\ o.line = "OK" /\ o.rest = <<>>
  BY <1>2, Asked
<1>4. turned = IF place[n] = len THEN 1 ELSE place[n] + 1
  <2> HIDE DEF len
  <2> QED
    BY <1>2, TurnIs
<1>5. turned \in 1..len /\ turned \in Nat
  <2> DEFINE p == place[n]
  <2> HIDE DEF len, turned, p
  <2>1. p \in 1..len /\ len \in 1..10 /\ turned = IF p = len THEN 1 ELSE p + 1
    BY <1>2, <1>4 DEF p
  <2> QED
    BY <2>1
<1> HIDE DEF turned
<1>p. InPlace'
  <2>1. CASE place' = [place EXCEPT ![n] = turned]
    BY <1>2, <1>5, <2>1 DEF InPlace
  <2>2. CASE UNCHANGED place
    BY <1>2, <2>2 DEF InPlace
  <2> QED
    BY <1>1, <2>1, <2>2
<1>6. CASE o.line # "OK"
  <2> DEFINE e == Got(o, "next")
  <2>1. Returns(e, "FAILURE")
    BY <1>1, <1>6
  <2>2. /\ e \in EeType /\ e.item = ee.item /\ e.start = ee.start /\ e.stale = ee.stale
        /\ e.wire = o.rest /\ e.faults = o.faults
    BY <1>2, <1>3, GotIs DEF EepromPlaces
  <2>3. e.faults # 0
    BY <1>3, <1>6, <2>2
  <2> HIDE DEF e
  <2> QED
    BY <1>0, <1>p, <2>1, <2>2, <2>3, ReturnSteps
<1>7. CASE o.line = "OK"
  <2>1. ee' = Got(o, "first") /\ UNCHANGED result /\ place' = [place EXCEPT ![n] = turned]
    BY <1>1, <1>7
  <2>2. /\ ee' \in EeType /\ ee'.item = ee.item /\ ee'.start = ee.start /\ ee'.stale = ee.stale
        /\ ee'.wire = o.rest /\ ee'.faults = o.faults /\ ee'.pc = "first" /\ ee'.old = ee.old
        /\ ee'.i = ee.i
    BY <1>2, <1>3, <2>1, GotIs DEF EepromPlaces
  <2>3. place'[n] = turned /\ n' = n
    BY <1>2, <2>1, <2>2 DEF InPlace
  <2>4. WireInv'
    <3>1. ASSUME ~ee.stale PROVE o.rest = <<>>
      <4>1. ee.wire \in Seq(ValuesOf(n))
        BY <1>0, <3>1 DEF EepromInv, WireInv
      <4>2. /\ ee.wire # <<>> => o.line \in ValuesOf(n) \cup {"none"}
            /\ ee.wire = <<>> => (o.line # "none" => o.rest = <<>>)
        BY <1>2, <4>1, OutcomesAre
      <4> QED
        BY <1>2, <1>7, <4>2
    <3>2. <<>> \in Seq({Value(n)'})
      BY EmptySeq
    <3> QED
      BY <2>2, <3>1, <3>2 DEF WireInv
  <2>5. TurnInv'
    <3>1. ASSUME ee'.faults = 0
          PROVE  /\ ee.old = Rings[n][ee.start] /\ ee.old # wanted[n]
                 /\ Turned(n, ee.i) /\ Refused(n, ee.i) /\ Within(n, ee.i)
      <4>1. ee.faults = 0
        BY <1>3, <2>2, <3>1
      <4> QED
        BY <1>0, <4>1 DEF EepromInv, TurnInv, Working
    <3>2. Turned(n, ee.i) /\ Within(n, ee.i) => Turned(n, ee.i + 1)'
      <4> DEFINE a == ee.start
                 i == ee.i
                 p == place[n]
      <4>1. len \in 1..10 /\ a \in 1..len /\ i \in 0..9 /\ p \in 1..len
            /\ turned = IF p = len THEN 1 ELSE p + 1
        BY <1>2, <1>4
      <4>2. Turned(n, i + 1)' = (turned \in {a + (i + 1), a + (i + 1) - len, a + (i + 1) - len - len})
        BY <2>2, <2>3 DEF Turned
      <4>3. /\ Turned(n, i) = (p \in {a + i, a + i - len, a + i - len - len})
            /\ Within(n, i) = (i < len \/ (len = 1 /\ i <= 1))
        BY DEF Turned, Within
      <4> HIDE DEF len, a, i, p
      <4>4. ASSUME p \in {a + i, a + i - len, a + i - len - len}, i < len \/ (len = 1 /\ i <= 1)
            PROVE  turned \in {a + (i + 1), a + (i + 1) - len, a + (i + 1) - len - len}
        BY <4>1, <4>4, TurnsOn
      <4>5. Turned(n, i) /\ Within(n, i) => Turned(n, i + 1)'
        BY <4>2, <4>3, <4>4
      <4> QED
        BY <4>5 DEF i
    <3>3. /\ Refused(n, ee.i) => Refused(n, ee.i)'
          /\ Within(n, ee.i) => Within(n, ee.i)'
      BY <1>0, <2>2 DEF Refused, Seen, Within
    <3>4. ASSUME ee'.faults = 0
          PROVE  /\ ee'.old = Rings[n'][ee'.start] /\ ee'.old # wanted'[n']
                 /\ Turned(n, ee.i + 1)' /\ Refused(n, ee.i)' /\ Within(n, ee.i)'
      <4>1. ee'.old = Rings[n'][ee'.start] /\ ee'.old # wanted'[n']
        BY <1>0, <2>2, <3>1, <3>4
      <4> QED
        BY <3>1, <3>2, <3>3, <3>4, <4>1
    <3> QED
      BY <2>2, <3>4 DEF TurnInv
  <2>6. ee'.pc \in Working /\ (ee'.faults = 0 => ee'.wire = <<>>)
    BY <1>3, <2>2 DEF Working, EepromPlaces
  <2> QED
    BY <1>0, <1>p, <2>1, <2>2, <2>4, <2>5, <2>6, GoOnSteps
<1> QED
  BY <1>6, <1>7

(* Where the UPS is after i + 1 turns: back at a value that was there is   *)
(* not before every value was, and that takes at most as many turns as     *)
(* there are values.                                                       *)
LEMMA CameBack ==
    ASSUME NEW len \in 1..10, NEW a \in 1..len, NEW i \in 0..9, NEW p \in 1..len,
           p \in {a + (i + 1), a + (i + 1) - len, a + (i + 1) - len - len},
           i < len \/ (len = 1 /\ i <= 1), i > 0,
           \/ p = a
           \/ p = IF a = len THEN 1 ELSE a + 1
           \/ a = IF p = len THEN 1 ELSE p + 1,
           NEW k \in 1..len
    PROVE  k \in a..(a + (i + 1)) \/ k + len \in a..(a + (i + 1))
  OBVIOUS

LEMMA SeenNext ==
    ASSUME NEW len \in 1..10, NEW a \in 1..len, NEW i \in 0..9, NEW p \in 1..len,
           p \in {a + (i + 1), a + (i + 1) - len, a + (i + 1) - len - len},
           NEW k \in 1..len,
           k \in a..(a + (i + 1)) \/ k + len \in a..(a + (i + 1))
    PROVE  k \in a..(a + i) \/ k + len \in a..(a + i) \/ k = p
  OBVIOUS

LEMMA StillWithin ==
    ASSUME NEW len \in 1..10, NEW a \in 1..len, NEW i \in 0..9, NEW p \in 1..len,
           p \in {a + (i + 1), a + (i + 1) - len, a + (i + 1) - len - len},
           i < len \/ (len = 1 /\ i <= 1), i = 0 \/ p # a
    PROVE  (i + 1 < len \/ (len = 1 /\ i + 1 <= 1)) /\ i + 1 < 10
  OBVIOUS

(* The second question after a turn: without a fault, the value that is    *)
(* there now, which was not the setting before.                            *)
LEMMA TurnedIs ==
    ASSUME EepromInv, ee.pc = "second", ee.faults = 0
    PROVE  LET n == ee.item
               len == Len(Rings[n])
           IN  /\ ee.old = Rings[n][ee.start] /\ ee.old # wanted[n] /\ ee.first = Value(n)
               /\ place[n] \in {ee.start + (ee.i + 1), ee.start + (ee.i + 1) - len,
                                ee.start + (ee.i + 1) - len - len}
               /\ ee.i < len \/ (len = 1 /\ ee.i <= 1)
               /\ Refused(n, ee.i)
  BY DEF EepromInv, TurnInv, Working, EepromPlaces, Turned, Within

LEMMA RefusedNext ==
    ASSUME EepromInv, ee.pc = "second", ee.faults = 0, Value(ee.item) # wanted[ee.item]
    PROVE  Refused(ee.item, ee.i + 1)
<1> DEFINE n == ee.item
           len == Len(Rings[n])
           a == ee.start
           i == ee.i
           p == place[n]
<1>1. ee.pc \in Working
  BY DEF Working, EepromPlaces
<1>2. len \in 1..10 /\ a \in 1..len /\ i \in 0..9 /\ p \in 1..len
  BY <1>1, AtWork
<1>3. p \in {a + (i + 1), a + (i + 1) - len, a + (i + 1) - len - len}
  BY TurnedIs
<1>4. Refused(n, i)
  BY TurnedIs
<1>5. ASSUME NEW k \in 1..len, Seen(n, i + 1, k) PROVE Rings[n][k] # wanted[n]
  <2>1. k \in a..(a + (i + 1)) \/ k + len \in a..(a + (i + 1))
    BY <1>5 DEF Seen
  <2>2. k \in a..(a + i) \/ k + len \in a..(a + i) \/ k = p
    <3> HIDE DEF len, a, i, p
    <3> QED
      BY <1>2, <1>3, <2>1, SeenNext
  <2>3. CASE k = p
    BY <2>3 DEF Value
  <2>4. CASE k \in a..(a + i) \/ k + len \in a..(a + i)
    BY <1>4, <2>4 DEF Refused, Seen
  <2> QED
    BY <2>2, <2>3, <2>4
<1> QED
  BY <1>5 DEF Refused

LEMMA AskSecondSteps ==
    ASSUME RingsTurn, EepromInv, AskSecond
    PROVE  EepromInv'
<1> DEFINE n == ee.item
           len == Len(Rings[n])
<1>0. ee.pc = "second" /\ ee.pc \in Working /\ UNCHANGED <<place, wanted>>
  BY DEF AskSecond, Working, EepromPlaces
<1>2. /\ n \in Items /\ Value(n) \in ValuesOf(n) /\ Value(n) \in Words /\ InPlace /\ EepromTypeOK
      /\ ee.wire \in Seq(Words) /\ Value(n) # "none" /\ len \in 1..10 /\ place[n] \in 1..len
      /\ ee.start \in 1..len /\ ee.i \in 0..9
  BY <1>0, AtWork, NoAnswer
<1>1. PICK o \in Outcomes(Value(n)) :
         LET eat == [Got(o, "next") EXCEPT !.wire = Eaten(o.rest)]
         IN IF o.line = "none" \/ o.line # ee.first THEN Returns(eat, "FAILURE")
            ELSE IF o.line = wanted[n] THEN Returns(Got(o, "next"), "SUCCESS")
            ELSE IF CameRound(o.line, ee.i) \/ ee.i + 1 = Cycles THEN Returns(eat, "FAILURE")
            ELSE ee' = [Got(o, "ask") EXCEPT !.i = @ + 1] /\ UNCHANGED result
  BY DEF AskSecond
<1>3. /\ o.line \in Words /\ o.rest \in Seq(Words) /\ o.faults \in Nat
      /\ o.faults = 0 => ee.faults = 0 /\ o.line = Value(n) /\ o.rest = <<>>
  BY <1>2, Asked
<1>p. InPlace'
  BY <1>0, <1>2 DEF InPlace
<1>4. ~ee.stale => o.line \in {Value(n), "none"} /\ o.rest \in Seq({Value(n)})
  BY <1>0, AskedAmong DEF EepromInv, WireInv
<1>5. {Value(n)} \subseteq ValuesOf(n)
  BY <1>2
<1> DEFINE e == Got(o, "next")
           eat == [e EXCEPT !.wire = Eaten(o.rest)]
<1>6. /\ e \in EeType /\ e.item = ee.item /\ e.start = ee.start /\ e.stale = ee.stale
      /\ e.wire = o.rest /\ e.faults = o.faults
  BY <1>2, <1>3, GotIs DEF EepromPlaces
<1>7. Eaten(o.rest) \in Seq(Words) /\ (o.rest = <<>> => Eaten(o.rest) = <<>>)
  BY <1>3, HeadTailProperties DEF Eaten
<1> HIDE DEF e
<1>8. /\ eat \in EeType /\ eat.item = ee.item /\ eat.start = ee.start /\ eat.stale = ee.stale
      /\ eat.wire = Eaten(o.rest) /\ eat.faults = o.faults
  BY <1>6, <1>7 DEF EeType
<1>e. e.faults = 0 => e.wire = <<>>
  BY <1>3, <1>6
<1>f. eat.faults = 0 => eat.wire = <<>>
  BY <1>3, <1>7, <1>8
<1>9. CASE o.line = "none" \/ o.line # ee.first
  <2>1. Returns(eat, "FAILURE")
    BY <1>1, <1>9 DEF e
  <2>2. eat.faults # 0
    BY <1>0, <1>2, <1>3, <1>8, <1>9, TurnedIs
  <2> HIDE DEF eat
  <2> QED
    BY <1>0, <1>p, <1>8, <2>1, <2>2, ReturnSteps
<1>10. CASE ~(o.line = "none" \/ o.line # ee.first) /\ o.line = wanted[n]
  <2>1. Returns(e, "SUCCESS")
    BY <1>1, <1>10 DEF e
  <2>2. ee.item' = ee.item
    BY <1>6, <2>1 DEF Returns, EeType
  <2>3. ~ee.stale => Value(ee.item)' = wanted[ee.item]
    BY <1>0, <1>4, <1>10, <2>2 DEF Value
  <2> QED
    BY <1>0, <1>p, <1>6, <1>e, <2>1, <2>3, ReturnSteps
<1>11. CASE /\ ~(o.line = "none" \/ o.line # ee.first) /\ o.line # wanted[n]
            /\ CameRound(o.line, ee.i) \/ ee.i + 1 = Cycles
  <2>1. Returns(eat, "FAILURE")
    BY <1>1, <1>11 DEF e
  <2>2. ee.item' = ee.item
    BY <1>8, <2>1 DEF Returns, EeType
  <2>3. ASSUME eat.faults = 0
        PROVE  ~HasValue(n, wanted[n]) /\ Value(n) = Rings[n][ee.start]
    <3> DEFINE a == ee.start
               i == ee.i
               p == place[n]
    <3>0. ee.faults = 0 /\ o.line = Value(n)
      BY <1>3, <1>8, <2>3
    <3>1. /\ ee.old = Rings[n][a]
          /\ p \in {a + (i + 1), a + (i + 1) - len, a + (i + 1) - len - len}
          /\ i < len \/ (len = 1 /\ i <= 1)
      BY <1>0, <3>0, TurnedIs
    <3>2. len \in 1..10 /\ a \in 1..len /\ i \in 0..9 /\ p \in 1..len
      BY <1>2
    <3>3. i + 1 = 10 => p = a /\ i > 0
      <4> HIDE DEF len, a, i, p
      <4> QED
        BY <3>1, <3>2
    <3>4. i > 0 /\ Value(n) = Rings[n][a]
      <4>1. CASE CameRound(o.line, ee.i)
        BY <3>0, <3>1, <4>1 DEF CameRound
      <4>2. CASE ee.i + 1 = Cycles
        BY <3>3, <4>2 DEF Cycles, Value
      <4> QED
        BY <1>11, <4>1, <4>2
    <3>5. \/ p = a
          \/ p = IF a = len THEN 1 ELSE a + 1
          \/ a = IF p = len THEN 1 ELSE p + 1
      <4>1. a \in 1..10 /\ p \in 1..10 /\ a <= len /\ p <= len
        <5> HIDE DEF len, a, p
        <5> QED
          BY <3>2
      <4>2. Rings[n][a] = Rings[n][p]
        BY <3>4 DEF Value
      <4>3. a # p => p = Following(n, a) \/ a = Following(n, p)
        BY <1>2, <4>1, <4>2 DEF RingsTurn
      <4> QED
        BY <4>3 DEF Following
    <3>6. ASSUME NEW k \in 1..len PROVE Rings[n][k] # wanted[n]
      <4>1. k \in a..(a + (i + 1)) \/ k + len \in a..(a + (i + 1))
        <5>1. i > 0
          BY <3>4
        <5> HIDE DEF len, a, i, p
        <5> QED
          BY <3>1, <3>2, <3>5, <5>1, CameBack
      <4>2. Refused(n, i + 1)
        BY <1>0, <1>11, <3>0, RefusedNext
      <4> QED
        BY <4>1, <4>2 DEF Refused, Seen
    <3>7. DOMAIN Rings[n] = 1..len
      BY <1>2, RingsAre, LenProperties
    <3> QED
      BY <3>4, <3>6, <3>7 DEF HasValue
  <2>4. eat.faults = 0 => ~HasValue(ee.item, wanted[ee.item]) /\ Value(ee.item)' = Rings[ee.item][ee.start]
    <3>1. Value(ee.item)' = Value(n)
      BY <1>0, <2>2 DEF Value
    <3> QED
      BY <2>3, <3>1
  <2> HIDE DEF eat
  <2> QED
    BY <1>0, <1>p, <1>8, <1>f, <2>1, <2>4, ReturnSteps
<1>12. CASE /\ ~(o.line = "none" \/ o.line # ee.first) /\ o.line # wanted[n]
            /\ ~(CameRound(o.line, ee.i) \/ ee.i + 1 = Cycles)
  <2> DEFINE g == Got(o, "ask")
             i == ee.i
  <2>1. ee' = [g EXCEPT !.i = ee.i + 1] /\ UNCHANGED result
    BY <1>1, <1>12 DEF Got
  <2>2. /\ g \in EeType /\ g.item = ee.item /\ g.start = ee.start /\ g.stale = ee.stale
        /\ g.wire = o.rest /\ g.faults = o.faults /\ g.pc = "ask" /\ g.old = ee.old /\ g.i = ee.i
    BY <1>2, <1>3, GotIs DEF EepromPlaces
  <2>3. i + 1 \in 0..9
    <3>1. i \in 0..9 /\ i + 1 # 10
      BY <1>2, <1>12 DEF Cycles
    <3> HIDE DEF i
    <3> QED
      BY <3>1
  <2> HIDE DEF g
  <2>4. /\ ee' \in EeType /\ ee'.item = ee.item /\ ee'.start = ee.start /\ ee'.stale = ee.stale
        /\ ee'.wire = o.rest /\ ee'.faults = o.faults /\ ee'.pc = "ask" /\ ee'.old = ee.old
        /\ ee'.i = ee.i + 1
    BY <2>1, <2>2, <2>3 DEF EeType
  <2>5. WireInv'
    <3>1. ~ee.stale => o.rest \in Seq(ValuesOf(n))
      BY <1>4, <1>5, SeqMonotonic
    <3> QED
      BY <2>4, <3>1 DEF WireInv
  <2>6. TurnInv'
    <3>1. ASSUME ee'.faults = 0
          PROVE  /\ ee.old = Rings[n][ee.start] /\ ee.old # wanted[n]
                 /\ Turned(n, ee.i + 1) /\ Refused(n, ee.i + 1) /\ Within(n, ee.i + 1)
      <4> DEFINE a == ee.start
                 p == place[n]
      <4>1. ee.faults = 0 /\ o.line = Value(n)
        BY <1>3, <2>4, <3>1
      <4>2. /\ ee.old = Rings[n][ee.start] /\ ee.old # wanted[n]
            /\ p \in {a + (i + 1), a + (i + 1) - len, a + (i + 1) - len - len}
            /\ i < len \/ (len = 1 /\ i <= 1)
        BY <1>0, <4>1, TurnedIs
      <4>3. Refused(n, ee.i + 1)
        BY <1>0, <1>12, <4>1, RefusedNext
      <4>4. len \in 1..10 /\ a \in 1..len /\ i \in 0..9 /\ p \in 1..len
        BY <1>2
      <4>5. ~(i > 0) \/ p # a
        BY <1>12, <4>1, <4>2 DEF CameRound, Value
      <4>6. i + 1 < len \/ (len = 1 /\ i + 1 <= 1)
        <5> HIDE DEF len, a, i, p
        <5>1. i = 0 \/ p # a
          BY <4>4, <4>5
        <5> QED
          BY <4>2, <4>4, <5>1, StillWithin
      <4> QED
        BY <4>2, <4>3, <4>6 DEF Turned, Within
    <3>2. n' = n /\ wanted' = wanted /\ place' = place /\ ee'.start = ee.start
      BY <1>0, <2>4
    <3>3. /\ Turned(n, ee.i + 1) => Turned(n, ee.i)'
          /\ Refused(n, ee.i + 1) => Refused(n, ee.i)'
          /\ Within(n, ee.i + 1) => Within(n, ee.i)'
      BY <2>4, <3>2 DEF Turned, Refused, Seen, Within
    <3>4. ASSUME ee'.faults = 0
          PROVE  /\ ee'.old = Rings[n'][ee'.start] /\ ee'.old # wanted'[n']
                 /\ Turned(n, ee.i)' /\ Refused(n, ee.i)' /\ Within(n, ee.i)'
      <4>1. ee'.old = Rings[n'][ee'.start] /\ ee'.old # wanted'[n']
        BY <2>4, <3>1, <3>2, <3>4
      <4> QED
        BY <3>1, <3>3, <3>4, <4>1
    <3> QED
      BY <2>4, <3>4 DEF TurnInv
  <2>7. ee'.pc \in Working /\ (ee'.faults = 0 => ee'.wire = <<>>)
    BY <1>3, <2>4 DEF Working, EepromPlaces
  <2> QED
    BY <1>0, <1>p, <2>1, <2>4, <2>5, <2>6, <2>7, GoOnSteps
<1> QED
  BY <1>9, <1>10, <1>11, <1>12

LEMMA EepromStarts == EepromInit => EepromInv
<1> SUFFICES ASSUME EepromInit PROVE EepromInv
  OBVIOUS
<1>1. InPlace
  <2>1. place \in [Items -> 1..10] /\ \A n \in Items : place[n] <= Len(Rings[n])
    BY DEF EepromInit, Cycles
  <2>2. \A n \in Items : Len(Rings[n]) \in 1..10
    BY RingsAre
  <2>3. ASSUME NEW n \in Items PROVE place[n] \in 1..Len(Rings[n])
    BY <2>1, <2>2
  <2>4. place \in [Items -> Nat]
    BY <2>1
  <2> QED
    BY <2>3, <2>4 DEF InPlace
<1>2. /\ ee.pc = "next" /\ ee.item = 0 /\ ee.i = 0 /\ ee.wire = <<>>
      /\ \A n \in Items : result[n] = "none"
  BY DEF EepromInit
<1>3. ee \in EeType
  <2>1. "next" \in EepromPlaces /\ 0 \in 0..9 /\ "none" \in Words /\ 0 \in 0..Len(Rings)
    BY RingsAre DEF EepromPlaces, Words
  <2>2. <<>> \in Seq(Words)
    BY EmptySeq
  <2> QED
    BY <2>1, <2>2 DEF EepromInit, EeType
<1>4. result \in [Items -> {"none", "SUCCESS", "FAILURE"}]
  BY DEF EepromInit
<1>5. WireInv /\ TurnInv /\ SettingEndsWell
  BY <1>2 DEF WireInv, TurnInv, SettingEndsWell
<1> QED
  BY <1>1, <1>2, <1>3, <1>4, <1>5 DEF EepromInv, EepromTypeOK

LEMMA EepromSteps ==
    ASSUME RingsTurn, EepromInv, EepromNext
    PROVE  EepromInv'
<1>1. CASE NextItem
  BY <1>1, NextItemSteps
<1>2. CASE AskOld
  BY <1>2, AskOldSteps
<1>3. CASE AskStable
  BY <1>3, AskStableSteps
<1>4. CASE AskAgain
  <2>1. PICK o \in Outcomes(Value(ee.item)) : ee' = [Got(o, "cycle") EXCEPT !.first = Heard(o)]
    BY <1>4 DEF AskAgain
  <2>2. ee.pc = "ask" /\ UNCHANGED <<place, wanted, result>>
    BY <1>4 DEF AskAgain
  <2> QED
    BY <2>1, <2>2, AskLoopSteps
<1>5. CASE Cycle
  BY <1>5, CycleSteps
<1>6. CASE AskFirst
  <2>1. PICK o \in Outcomes(Value(ee.item)) : ee' = [Got(o, "second") EXCEPT !.first = Heard(o)]
    BY <1>6 DEF AskFirst
  <2>2. ee.pc = "first" /\ UNCHANGED <<place, wanted, result>>
    BY <1>6 DEF AskFirst
  <2> QED
    BY <2>1, <2>2, AskLoopSteps
<1>7. CASE AskSecond
  BY <1>7, AskSecondSteps
<1> QED
  BY <1>1, <1>2, <1>3, <1>4, <1>5, <1>6, <1>7 DEF EepromNext

LEMMA EepromStutters ==
    ASSUME EepromInv, UNCHANGED eepromVars
    PROVE  EepromInv'
<1>1. UNCHANGED <<place, wanted, ee, result>>
  BY DEF eepromVars
<1>2. EepromTypeOK'
  BY <1>1 DEF EepromInv, EepromTypeOK, InPlace
<1>3. WireInv'
  BY <1>1 DEF EepromInv, WireInv, Value
<1>4. TurnInv'
  BY <1>1 DEF EepromInv, TurnInv, Turned, Refused, Seen, Within, Value
<1>5. SettingEndsWell'
  BY <1>1 DEF EepromInv, SettingEndsWell, HasValue, Value
<1> QED
  BY <1>1, <1>2, <1>3, <1>4, <1>5 DEF EepromInv

(* Whatever the number of answers that are lost or late: a setting that is *)
(* reported as made is in the UPS, and one that is refused is unknown to   *)
(* it and has left the old value in place.                                 *)
THEOREM SettingAlwaysEndsWell ==
    ASSUME RingsTurn
    PROVE  EepromSpec => []SettingEndsWell
<1>1. EepromInit => EepromInv
  BY EepromStarts
<1>2. EepromInv /\ [EepromNext]_eepromVars => EepromInv'
  BY EepromSteps, EepromStutters
<1>3. EepromInv => SettingEndsWell
  BY DEF EepromInv
<1> QED
  BY <1>1, <1>2, <1>3, PTL DEF EepromSpec
=============================================================================
