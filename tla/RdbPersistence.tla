--------------------------- MODULE RdbPersistence ---------------------------
(***************************************************************************)
(* The dump of rdb.c as a protocol of processes and files: SAVE, BGSAVE    *)
(* and the save of FLUSHALL, each the steps of rdbSave(); the child of a   *)
(* transfer to the replicas without a file (rdbSaveToSlavesSockets());     *)
(* what the server does when a child ends, however it ends; crashes of the *)
(* server, which leave its child running, and of the machine.              *)
(*                                                                         *)
(* The content of the server is the number of the change that made it.     *)
(* What a dump looks like inside is the matter of module RdbFormat.  Left  *)
(* out: lastsave, lastbgsave_status and the statistics, which nothing in   *)
(* rdb.c reads.                                                            *)
(***************************************************************************)
EXTENDS Integers, FiniteSets

CONSTANTS Children,    \* process ids of children
          Replicas, ReqOf,  \* the replicas, and slave->slave_req of each
          MaxChanges,  \* bound on the changes of the data
          MaxCrashes   \* bound on the crashes

Server == "server"
Procs == Children \cup {Server}

ASSUME PersistenceAssumption ==
  /\ IsFiniteSet(Children) /\ Server \notin Children /\ "none" \notin Procs
  /\ MaxChanges \in Nat /\ MaxCrashes \in Nat

VARIABLES
  up,           \* a server runs
  data, made,   \* its content; the changes made since it started
  dirty, dirtyBefore, scheduled,
                \* server.dirty, dirty_before_bgsave, rdb_bgsave_scheduled
  childType,    \* child_type with rdb_child_type
  childPid,     \* server.child_pid
  replstate,    \* of every replica
  conns,        \* rdb_pipe_conns
  pipe,         \* of every child: who holds the ends of its two pipes
  pc, code,     \* where every process is in its save; how a child ended
  snap,         \* the content a child was forked with
  signalled,    \* children that killRDBChild() has sent SIGUSR1 and that still run
  tmp,          \* the temporary file named after every process
  dump, onDisk, \* the dump file; the dumps a crash of the machine may leave
  changes, crashes,
  acked,        \* the content of the last save that was reported
  twice,        \* changes are subtracted from dirty twice, or will be if the child
                \* succeeds
  overtaken,    \* the child of a dead server has replaced the dump of the next
                \* one, or such a child or a killed one a newer dump by its own
  left          \* temporary files whose process died when no server waited for it

memory == <<data, made, dirty, dirtyBefore, scheduled, childType, childPid>>
transfer == <<replstate, conns, pipe>>
procs == <<pc, code, snap, signalled>>
files == <<tmp, dump, onDisk>>
bounds == <<changes, crashes>>
ghosts == <<acked, twice, overtaken, left>>
vars == <<up, memory, transfer, procs, files, bounds, ghosts>>

-----------------------------------------------------------------------------
(* Files.  "partial" has not all of the dump, "written" may be lost or     *)
(* torn by a crash of the machine, "synced" is safe.  The temporary file   *)
(* of a process is named after its id; ids are used again.                 *)

File(v, s) == [ver |-> v, state |-> s]
NoFile == File(-1, "none")
Whole(f) == f.state \in {"none", "synced"}

NoPipe == [readers |-> {}, writers |-> {}, exit |-> {}]
\* p has ended: the kernel closes what it held.
Closed(pp, p) == [c \in Children |->
  [readers |-> pp[c].readers \ {p}, writers |-> pp[c].writers \ {p}, exit |-> pp[c].exit \ {p}]]

Content(p) == IF p = Server THEN data ELSE snap[p]
Saving == childType \in {"disk", "socket"}  \* CHILD_TYPE_RDB
Ready == up /\ pc[Server] = "idle"          \* the main loop
Orphan(p) == p \in Children /\ (~up \/ p # childPid)
Larger(x, y) == IF x > y THEN x ELSE y

-----------------------------------------------------------------------------
(* rdbSave() and rdbSaveInternal() of process p.                           *)

\* The files of S are left behind.  What is in them is never read.
Torn == File(-1, "partial")
Abandoned(S) ==
  /\ left' = left \cup S
  /\ tmp' = [p \in Procs |-> IF p \in S THEN Torn ELSE tmp[p]]

\* Process p is done with its save: the server goes on, a child ends, and if its
\* server is dead nobody asks how.  A signal that comes now comes too late.
Ended(p, how) ==
  /\ pc' = [pc EXCEPT ![p] = IF p = Server \/ Orphan(p) THEN "idle" ELSE "exited"]
  /\ code' = IF p = Server \/ Orphan(p) THEN code ELSE [code EXCEPT ![p] = how]
  /\ snap' = IF Orphan(p) THEN [snap EXCEPT ![p] = 0] ELSE snap
  /\ signalled' = signalled \ {p}

\* rdbSave() has returned C_ERR.
Fails(p) ==
  /\ Ended(p, "error")
  /\ UNCHANGED <<up, memory, transfer, dump, onDisk, bounds, ghosts>>

Goes(p, to) ==
  /\ pc' = [pc EXCEPT ![p] = to]
  /\ UNCHANGED <<up, memory, transfer, code, snap, signalled, bounds>>

\* fopen() empties a file that an earlier process of this id has left.
Open(p) ==
  /\ pc[p] = "open"
  /\ \/ /\ Goes(p, "write")
        /\ tmp' = [tmp EXCEPT ![p] = File(Content(p), "partial")]
        /\ left' = left \ {p}
        /\ UNCHANGED <<dump, onDisk, acked, twice, overtaken>>
     \/ Fails(p) /\ UNCHANGED tmp

\* The error path of both functions.
Unlinked(p) == [tmp EXCEPT ![p] = NoFile]

\* rdbSaveRio()
Write(p) ==
  /\ pc[p] = "write"
  /\ \/ /\ Goes(p, "flush")
        /\ tmp' = [tmp EXCEPT ![p].state = "written"]
        /\ UNCHANGED <<dump, onDisk, ghosts>>
     \/ Fails(p) /\ tmp' = Unlinked(p)

\* Mutant of Flushed: fflush() without fsync().
FlushedToTheSystem(p) == tmp

\* fflush(), fsync(), fclose()
Flushed(p) == [tmp EXCEPT ![p].state = "synced"]

Flush(p) ==
  /\ pc[p] = "flush"
  /\ \/ /\ Goes(p, "rename")
        /\ tmp' = Flushed(p)
        /\ UNCHANGED <<dump, onDisk, ghosts>>
     \/ Fails(p) /\ tmp' = Unlinked(p)

\* A child that nobody waits for, or that should be dead.
Late(p) == Orphan(p) \/ p \in signalled

Rename(p) ==
  /\ pc[p] = "rename"
  /\ \/ /\ Goes(p, "sync")
        /\ dump' = tmp[p] /\ onDisk' = onDisk \cup {tmp[p]}
        /\ tmp' = [tmp EXCEPT ![p] = NoFile]
        /\ overtaken' = (overtaken \/ (Orphan(p) /\ up)
                                   \/ (Late(p) /\ tmp[p].ver < dump.ver))
        /\ UNCHANGED <<acked, twice, left>>
     \/ Fails(p) /\ tmp' = Unlinked(p)

\* Mutant of DirSynced: the directory is not synced.
DirSyncedNot == onDisk

\* What is on the disk once fsyncFileDir() has returned.
DirSynced == {dump}

\* What rdbSave() assigns at its end.  In a child it is its own copy.
SaveDone == dirty' = 0

\* A child's save will be, or may yet be, taken for a success.
ChildMaySucceed ==
  childType = "disk" /\ (pc[childPid] = "exited" => code[childPid] = "ok")

\* fsyncFileDir(), and the end of rdbSave().  When the sync fails the new file is
\* in place all the same.
SyncDir(p) ==
  /\ pc[p] = "sync"
  /\ \/ /\ onDisk' = DirSynced
        /\ Ended(p, "ok")
        /\ IF p = Server
             THEN /\ SaveDone
                  /\ acked' = data
                  /\ twice' = IF ChildMaySucceed THEN "pending" ELSE "no"
             ELSE UNCHANGED <<dirty, acked, twice>>
        /\ overtaken' = (overtaken /\ (Late(p) \/ dump.ver # Content(p)))
        /\ UNCHANGED <<up, data, made, dirtyBefore, scheduled, childType, childPid,
                       transfer, tmp, dump, bounds, left>>
     \/ Fails(p) /\ UNCHANGED tmp

SaveStep(p) == Open(p) \/ Write(p) \/ Flush(p) \/ Rename(p) \/ SyncDir(p)

-----------------------------------------------------------------------------
(* Commands and the main loop.                                             *)

Change ==
  /\ Ready /\ changes < MaxChanges
  /\ changes' = changes + 1
  /\ data' = changes' /\ made' = made \cup {changes'} /\ dirty' = dirty + 1
  /\ UNCHANGED <<up, dirtyBefore, scheduled, childType, childPid,
                 transfer, procs, files, crashes, ghosts>>

\* saveCommand() refuses while CHILD_TYPE_RDB is active, whatever its target.
MaySave == ~Saving

SaveCommand ==
  /\ Ready /\ MaySave
  /\ Goes(Server, "open")
  /\ UNCHANGED <<files, ghosts>>

\* Mutant of Forked: the pid is not kept.
ForkedUnknown(c, at, type) ==
  /\ pc[c] = "idle"
  /\ pc' = [pc EXCEPT ![c] = at] /\ snap' = [snap EXCEPT ![c] = data]
  /\ childType' = type
  /\ UNCHANGED <<code, signalled, childPid>>

\* redisFork() (external): c is the child, with a copy of the data.
Forked(c, at, type) ==
  /\ pc[c] = "idle"
  /\ pc' = [pc EXCEPT ![c] = at] /\ snap' = [snap EXCEPT ![c] = data]
  /\ childType' = type /\ childPid' = c
  /\ UNCHANGED <<code, signalled>>

\* rdbSaveBackground(), called when no child is active.
SaveBackground ==
  /\ dirtyBefore' = dirty
  /\ \/ \E c \in Children : Forked(c, "open", "disk")
     \/ UNCHANGED <<procs, childType, childPid>>  \* redisFork() fails
  /\ UNCHANGED <<up, data, made, dirty, transfer, files, bounds, ghosts>>

\* BGSAVE, BGSAVE SCHEDULE, in a transaction or not.
BgsaveCommand(schedule, inExec) ==
  /\ Ready /\ ~Saving
  /\ IF childType = "none" /\ ~inExec THEN SaveBackground /\ UNCHANGED scheduled
     ELSE /\ schedule \/ inExec
          /\ scheduled' = TRUE
          /\ UNCHANGED <<up, data, made, dirty, dirtyBefore, childType, childPid,
                         transfer, procs, files, bounds, ghosts>>

\* serverCron() starts the scheduled save.
ScheduledSave ==
  /\ Ready /\ scheduled /\ childType = "none"
  /\ SaveBackground
  /\ scheduled' = (childType' = "none")

\* Another child: the rewriting of the append only file.
OtherChild ==
  /\ Ready
  /\ \/ childType = "none" /\ childType' = "aof"
     \/ childType = "aof" /\ childType' = "none"
  /\ UNCHANGED <<up, data, made, dirty, dirtyBefore, scheduled, childPid,
                 transfer, procs, files, bounds, ghosts>>

\* Mutant of Killed: no signal is sent.
KilledNot == signalled

\* killRDBChild(): the signal is sent, not waited for, and does nothing to a child
\* that has already ended.
Killed == IF pc[childPid] = "exited" THEN signalled ELSE signalled \cup {childPid}

\* flushAllDataAndResetRDB(), up to its rdbSave().
FlushAll(removes, savePoints) ==
  /\ Ready /\ changes + removes <= MaxChanges
  /\ changes' = changes + removes
  /\ dirty' = dirty + removes
  /\ data' = IF removes = 0 THEN data ELSE changes'
  /\ made' = IF removes = 0 THEN made ELSE made \cup {changes'}
  /\ pc' = [pc EXCEPT ![Server] = IF savePoints THEN "open" ELSE "idle"]
  /\ signalled' = IF Saving THEN Killed ELSE signalled
  /\ UNCHANGED <<up, dirtyBefore, scheduled, childType, childPid, transfer,
                 code, snap, files, crashes, ghosts>>

-----------------------------------------------------------------------------
(* The transfer to replicas.                                               *)

\* SYNC asks for a dump (external).
Attach(r) ==
  /\ Ready /\ replstate[r] = "off"
  /\ replstate' = [replstate EXCEPT ![r] = "start"]
  /\ UNCHANGED <<up, memory, conns, pipe, procs, files, bounds, ghosts>>

Waiting(req) == {r \in Replicas : replstate[r] = "start" /\ ReqOf[r] = req}

\* replicationSetupSlaveForFullResync() for those with these requirements
SetUp(req) == [r \in Replicas |-> IF r \in Waiting(req) THEN "end" ELSE replstate[r]]

\* Mutant of Undone: the state is left as it was changed.
UndoneNot(states) == states

\* The fork has failed.
Undone(states) == [r \in Replicas |-> IF states[r] = "end" THEN "start" ELSE states[r]]

\* The caller drops who still waits for a start (external).
Dropped(states) == [r \in Replicas |-> IF states[r] = "start" THEN "off" ELSE states[r]]

\* Who holds what after the fork: the child has closed the reading end, the
\* parent the writing one.
PipesOf(c) == [readers |-> {Server}, writers |-> {c}, exit |-> {c, Server}]

\* rdbSaveToSlavesSockets().  After a failed fork the parent's end of the exit pipe
\* stays open, held by nobody's protocol.
SaveToSlaves(req) ==
  /\ Ready /\ childType = "none" /\ conns = {}
  /\ Waiting(req) # {}
  /\ \/ /\ replstate' = Dropped(replstate)  \* anetPipe() fails
        /\ UNCHANGED <<conns, pipe, procs, childType, childPid>>
     \/ /\ replstate' = Dropped(Undone(SetUp(req)))  \* redisFork() fails
        /\ UNCHANGED <<conns, pipe, procs, childType, childPid>>
     \/ \E c \in Children :
          /\ Forked(c, "stream", "socket")
          /\ pipe' = [pipe EXCEPT ![c] = PipesOf(c)]
          /\ conns' = Waiting(req) /\ replstate' = SetUp(req)
  /\ UNCHANGED <<up, data, made, dirty, dirtyBefore, scheduled, files, bounds, ghosts>>

\* Mutant of Streamed: the child keeps its copy of the exit pipe's writing end.
StreamedHolding(c) == [pipe EXCEPT ![c].writers = @ \ {c}]

\* close(rdb_pipe_write), close(server.rdb_child_exit_pipe)
Streamed(c) == [pipe EXCEPT ![c].writers = @ \ {c}, ![c].exit = @ \ {c}]

\* rdbSaveRioWithEOFMark() in the child.  Without a reader every write fails; with
\* one that does not read they block.
Stream(c) ==
  /\ pc[c] = "stream"
  /\ \/ up /\ Server \in pipe[c].readers /\ code' = [code EXCEPT ![c] = "ok"]
     \/ code' = [code EXCEPT ![c] = "error"]
  /\ pc' = [pc EXCEPT ![c] = "hold"]
  /\ pipe' = Streamed(c)
  /\ UNCHANGED <<up, memory, replstate, conns, snap, signalled, files, bounds, ghosts>>

\* read(safe_to_exit_pipe) returns when nobody can write.
Hold(c) ==
  /\ pc[c] = "hold" /\ pipe[c].exit = {}
  /\ Ended(c, code[c])
  /\ UNCHANGED <<up, memory, transfer, files, bounds, ghosts>>

\* rdbPipeReadHandler() finds the end of the data and lets the child exit (external).
PipeEof ==
  /\ Ready /\ childType = "socket" /\ conns # {} /\ pipe[childPid].writers = {}
  /\ conns' = {} /\ pipe' = Closed(pipe, Server)
  /\ UNCHANGED <<up, memory, replstate, procs, files, bounds, ghosts>>

-----------------------------------------------------------------------------
(* The end of a child.                                                     *)

\* SIGUSR1 arrives, or a signal of somebody else, at any point of the save.  The
\* child removes nothing; the file of an orphan stays.
ChildDies(c) ==
  /\ pc[c] \notin {"idle", "exited"}
  /\ \/ Ended(c, "signal")
     \/ c \in signalled /\ Ended(c, "usr1")
  /\ Abandoned(IF Orphan(c) /\ tmp[c] # NoFile THEN {c} ELSE {})
  /\ pipe' = Closed(pipe, c)
  /\ UNCHANGED <<up, memory, replstate, conns, dump, onDisk, bounds,
                 acked, twice, overtaken>>

\* Mutant of Remaining: nothing is left to be saved, as after SAVE.
RemainingNothing == 0

\* dirty - dirty_before_bgsave
Remaining == dirty - dirtyBefore

\* Mutant of RemoveTemp: a child killed on purpose leaves its file.
RemoveTempUnlessKilled(c) == IF code[c] = "usr1" THEN tmp ELSE Unlinked(c)

\* rdbRemoveTempFile()
RemoveTemp(c) == Unlinked(c)

\* backgroundSaveDoneHandlerDisk()
DiskDone(c) ==
  /\ CASE code[c] = "ok" ->
            dirty' = Remaining /\ acked' = Larger(acked, snap[c]) /\ UNCHANGED tmp
       [] code[c] = "error" -> UNCHANGED <<dirty, acked, tmp>>
       [] OTHER -> tmp' = RemoveTemp(c) /\ UNCHANGED <<dirty, acked>>
  /\ twice' = IF twice # "pending" THEN twice ELSE IF code[c] = "ok" THEN "yes" ELSE "no"
  /\ UNCHANGED <<replstate, conns, pipe>>

\* updateSlavesWaitingBgsave() (external)
Served(ok) ==
  [r \in Replicas |-> IF replstate[r] = "end" THEN IF ok THEN "online" ELSE "off"
                      ELSE replstate[r]]

\* backgroundSaveDoneHandlerSocket()
SocketDone(c) ==
  /\ conns' = {} /\ pipe' = Closed(pipe, Server)
  /\ replstate' = Served(code[c] = "ok")
  /\ UNCHANGED <<dirty, acked, twice, tmp>>

\* backgroundSaveDoneHandler(), called by checkChildrenDone() once the pipe is
\* drained.
Reap ==
  /\ Ready /\ Saving /\ pc[childPid] = "exited"
  /\ childType = "socket" => conns = {}
  /\ IF childType = "disk" THEN DiskDone(childPid) ELSE SocketDone(childPid)
  /\ pc' = [pc EXCEPT ![childPid] = "idle"]
  /\ code' = [code EXCEPT ![childPid] = "ok"] /\ snap' = [snap EXCEPT ![childPid] = 0]
  /\ childType' = "none" /\ childPid' = "none"
  /\ UNCHANGED <<up, data, made, dirtyBefore, scheduled, signalled, dump, onDisk,
                 bounds, overtaken, left>>

-----------------------------------------------------------------------------
(* Crashes.                                                                *)

\* The server is gone: what it knew, what it held open, and its children that
\* have already ended.  A signal on its way to an orphan is like any other.
Lost ==
  /\ up' = FALSE
  /\ childType' = "none" /\ childPid' = "none"
  /\ dirty' = 0 /\ dirtyBefore' = 0 /\ scheduled' = FALSE /\ made' = {}
  /\ conns' = {} /\ replstate' = [r \in Replicas |-> "off"]
  /\ crashes' = crashes + 1 /\ twice' = "no"
  /\ code' = [c \in Children |-> "ok"] /\ signalled' = {}
  /\ snap' = [c \in Children |-> IF pc'[c] = "idle" THEN 0 ELSE snap[c]]
  /\ UNCHANGED <<data, changes>>

\* Nobody waits for its children any more, nor removes a temporary file.
ServerCrash ==
  /\ up /\ crashes < MaxCrashes
  /\ pc' = [p \in Procs |-> IF p = Server \/ pc[p] = "exited" THEN "idle" ELSE pc[p]]
  /\ Lost
  /\ Abandoned({p \in Procs : pc'[p] = "idle" /\ tmp[p] # NoFile})
  /\ pipe' = Closed(pipe, Server)
  /\ UNCHANGED <<dump, onDisk, acked, overtaken>>

\* The directory may or may not have the last renames, so that the name of a
\* temporary file may be there again; a file that was never synced may be torn.
MachineCrash ==
  /\ crashes < MaxCrashes
  /\ pc' = [p \in Procs |-> "idle"]
  /\ Lost
  /\ left' \in SUBSET Procs
  /\ tmp' = [p \in Procs |-> IF p \in left' THEN Torn ELSE NoFile]
  /\ \E f \in onDisk, torn \in BOOLEAN :
       /\ dump' = IF torn /\ f.state = "written" THEN File(f.ver, "partial") ELSE f
       /\ acked' = IF overtaken /\ f.ver < acked THEN f.ver ELSE acked
  /\ onDisk' = {dump'} /\ overtaken' = FALSE
  /\ pipe' = [c \in Children |-> NoPipe]

\* rdbLoad(): without a file the server starts empty, with a damaged one it exits.
\* What an overtaken dump lacks is lost from now on.
Restart ==
  /\ ~up /\ Whole(dump)
  /\ up' = TRUE /\ data' = Larger(dump.ver, 0)
  /\ acked' = IF overtaken /\ data' < acked THEN data' ELSE acked
  /\ UNCHANGED <<made, dirty, dirtyBefore, scheduled, childType, childPid,
                 transfer, procs, files, bounds, twice, overtaken, left>>

-----------------------------------------------------------------------------
Init ==
  /\ up = TRUE /\ data = 0 /\ made = {} /\ dirty = 0 /\ dirtyBefore = 0
  /\ scheduled = FALSE /\ childType = "none" /\ childPid = "none"
  /\ replstate = [r \in Replicas |-> "off"] /\ conns = {}
  /\ pipe = [c \in Children |-> NoPipe]
  /\ pc = [p \in Procs |-> "idle"] /\ code = [c \in Children |-> "ok"]
  /\ snap = [c \in Children |-> 0] /\ signalled = {}
  /\ tmp = [p \in Procs |-> NoFile] /\ dump = NoFile /\ onDisk = {NoFile}
  /\ changes = 0 /\ crashes = 0 /\ acked = -1
  /\ twice = "no" /\ overtaken = FALSE /\ left = {}

ChildStep(c) == SaveStep(c) \/ Stream(c) \/ Hold(c)

Next ==
  \/ SaveStep(Server) \/ \E c \in Children : ChildStep(c) \/ ChildDies(c)
  \/ Change \/ SaveCommand \/ ScheduledSave \/ OtherChild
  \/ \E schedule, inExec \in BOOLEAN : BgsaveCommand(schedule, inExec)
  \/ \E removes \in 0 .. 1, savePoints \in BOOLEAN : FlushAll(removes, savePoints)
  \/ \E r \in Replicas : Attach(r) \/ SaveToSlaves(ReqOf[r])
  \/ PipeEof \/ Reap
  \/ ServerCrash \/ MachineCrash \/ Restart

Spec == Init /\ [][Next]_vars

\* The scheduler runs every process that can run; the main loop returns to its
\* file events and to serverCron() after every command.
FairSpec ==
  /\ Spec
  /\ WF_vars(SaveStep(Server))
  /\ \A c \in Children : WF_vars(ChildStep(c))
  /\ SF_vars(PipeEof \/ Reap)

-----------------------------------------------------------------------------
Files == [ver : -1 .. MaxChanges, state : {"none", "partial", "written", "synced"}]
Ends == [readers : SUBSET Procs, writers : SUBSET Procs, exit : SUBSET Procs]

TypeOK ==
  /\ up \in BOOLEAN /\ data \in 0 .. MaxChanges /\ made \subseteq 1 .. MaxChanges
  /\ dirty \in Int /\ dirtyBefore \in Int /\ scheduled \in BOOLEAN
  /\ childType \in {"none", "aof", "disk", "socket"}
  /\ childPid \in Children \cup {"none"} /\ (Saving => childPid \in Children)
  /\ replstate \in [Replicas -> {"off", "start", "end", "online"}]
  /\ conns \subseteq Replicas /\ pipe \in [Children -> Ends]
  /\ pc \in [Procs -> {"idle", "open", "write", "flush", "rename", "sync",
                       "stream", "hold", "exited"}]
  /\ code \in [Children -> {"ok", "error", "signal", "usr1"}]
  /\ snap \in [Children -> 0 .. MaxChanges] /\ signalled \subseteq Children
  /\ tmp \in [Procs -> Files] /\ dump \in Files /\ onDisk \subseteq Files
  /\ changes \in 0 .. MaxChanges /\ crashes \in 0 .. MaxCrashes
  /\ acked \in -1 .. MaxChanges /\ twice \in {"no", "pending", "yes"}
  /\ overtaken \in BOOLEAN /\ left \subseteq Procs

(***************************************************************************)
(* Whatever fails or crashes, the dump is a complete one of some state     *)
(* the data were in, so that the next start can load it: the file gets     *)
(* its name only when it is written and synced.                            *)
(***************************************************************************)
DumpIsWhole == \A f \in onDisk \cup {dump} : Whole(f)

(***************************************************************************)
(* A save that has been reported as done survives a crash of the machine:  *)
(* no dump that may be found then is older.  (Unless the child of a dead   *)
(* server, or a killed one that went on, has put an older one in its       *)
(* place.)                                                                 *)
(***************************************************************************)
SavedSurvives == overtaken \/ \A f \in onDisk : f.ver >= acked

(***************************************************************************)
(* server.dirty is never less than the changes that the dump lacks,        *)
(* although changes go on while a child saves, and saves fail: no change   *)
(* is forgotten by the save points.  The exception is `twice`: FLUSHALL    *)
(* saves and resets the counter when a child has finished but has not been *)
(* waited for, or finishes before the signal reaches it, and its changes   *)
(* are then subtracted once more.                                          *)
(***************************************************************************)
NoChangeForgotten ==
  Ready /\ twice # "yes" /\ ~overtaken => Cardinality({n \in made : n > dump.ver}) <= dirty

(***************************************************************************)
(* A dump is never replaced by an older one while the server runs: SAVE    *)
(* does not run next to a child, and FLUSHALL kills the child before it    *)
(* saves the empty data.  The exceptions are the processes that nothing    *)
(* stops in time: the child of a dead server, and a killed child that      *)
(* renames its file after the server its own, before the signal arrives.   *)
(***************************************************************************)
NewerDumpStays == [][up /\ up' /\ ~overtaken' => dump'.ver >= dump.ver]_vars

(***************************************************************************)
(* A server that lives leaves no temporary file of its saves: each belongs *)
(* to a save that runs, or to a child that a signal ended and that the     *)
(* server has not waited for yet.  What is left by a process that died     *)
(* when no server waited for it (the server itself, its children after     *)
(* its death, everything when the machine stops) nobody removes: it stays  *)
(* until a process of the same id opens a file.                            *)
(***************************************************************************)
TempIsOwned ==
  \A p \in Procs : tmp[p] # NoFile =>
    \/ pc[p] \in {"write", "flush", "rename"}
    \/ p \in Children /\ pc[p] = "exited" /\ code[p] \in {"signal", "usr1"}
    \/ p \in left

(***************************************************************************)
(* A replica that waits for the end of a transfer is served by a child     *)
(* that runs: after a failed fork nobody is left waiting.                  *)
(***************************************************************************)
WaitersHaveAChild ==
  \A r \in Replicas : replstate[r] = "end" => childType = "socket"

(***************************************************************************)
(* Every child ends and is waited for, so that saving is possible again:   *)
(* the child of a transfer and the server wait for each other through two  *)
(* pipes, each of which is closed on the side that must not hold it.       *)
(***************************************************************************)
ChildrenEnd == \A c \in Children : pc[c] # "idle" ~> pc[c] = "idle"

(***************************************************************************)
(* However a child or a save of a server that lives ends, nothing of it is *)
(* left behind: no temporary file without an owner, no replica that waits  *)
(* for nobody, no saving without the pid of its child (rdb.c:1612-1640,    *)
(* 3440-3640).                                                             *)
(***************************************************************************)
NothingIsLeft == TypeOK /\ TempIsOwned /\ WaitersHaveAChild

(***************************************************************************)
(* Every dump a restart may find is whole and as new as the last save that *)
(* was reported (rdb.c:1433-1587).                                         *)
(***************************************************************************)
DumpSurvives == DumpIsWhole /\ SavedSurvives
=============================================================================
