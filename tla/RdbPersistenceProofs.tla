------------------------ MODULE RdbPersistenceProofs ------------------------
(***************************************************************************)
(* The first part is about the dump as a protocol of processes and files:  *)
(* every safety property of the run, for any number of children, changes   *)
(* and crashes.  That children end is left to TLC.                         *)
(*                                                                         *)
(* The second part is about what is in a dump: it is loaded as what it was *)
(* saved as, or seen to be damaged, for any databases.  A load is the fold *)
(* of its records (Play), followed key by key (AfterKeys), database by     *)
(* database (AfterDatabases) and to the end of the values (AfterBody);     *)
(* what was read is counted for the checksum (Unsummed).                   *)
(***************************************************************************)
EXTENDS RdbPersistence, ServerFunctions, FiniteSetTheorems, WellFoundedInduction, TLAPS

-----------------------------------------------------------------------------
(* The inductive invariant. *)

DiskStates == {"open", "write", "flush", "rename", "sync"}
SocketStates == {"stream", "hold"}

\* The child the server knows of, if its save still runs.
LiveDiskChild(c) == childType = "disk" /\ c = childPid /\ pc[c] # "exited"
DoneDiskChild(c) ==
  childType = "disk" /\ c = childPid /\ pc[c] = "exited" /\ code[c] = "ok"

(***************************************************************************)
(* Who runs: a server that is down has no child, one that saves knows a    *)
(* child that is saving or has ended, and saves itself only when that      *)
(* child has ended or has been told to; only that child can be waited for  *)
(* and be told to end.                                                     *)
(***************************************************************************)
ProcsSound ==
  /\ ~Saving => childPid = "none"
  /\ ~up => pc[Server] = "idle" /\ childType = "none" /\ made = {} /\ dirty = 0
  /\ pc[Server] \in DiskStates \cup {"idle"}
  /\ childType = "disk" => pc[childPid] \in DiskStates \cup {"exited"}
  /\ childType = "socket" => pc[childPid] \in SocketStates \cup {"exited"}
  /\ \A c \in Children : pc[c] = "exited" => Saving /\ c = childPid
  /\ pc[Server] # "idle" /\ Saving => pc[childPid] = "exited" \/ childPid \in signalled
  /\ \A c \in signalled : Saving /\ c = childPid /\ pc[c] # "exited"

(***************************************************************************)
(* What is in the files: a temporary file has the content of its process   *)
(* and is as complete as its place in the save says, or it was left.       *)
(***************************************************************************)
TempSound(p) ==
  /\ pc[p] = "write" => tmp[p] = File(Content(p), "partial")
  /\ pc[p] = "flush" => tmp[p] = File(Content(p), "written")
  /\ pc[p] = "rename" => tmp[p] = File(Content(p), "synced")
  /\ pc[p] = "sync" => tmp[p] = NoFile
  /\ pc[p] \in {"idle", "open", "stream", "hold"} => tmp[p] = NoFile \/ p \in left
  /\ p \in Children /\ pc[p] = "exited" /\ tmp[p] # NoFile =>
       \/ childType # "socket" /\ code[p] \in {"signal", "usr1"}
       \/ p \in left

FilesSound ==
  /\ \A p \in Procs : TempSound(p)
  /\ DumpIsWhole
  /\ dump \in onDisk

\* Nothing is newer than the last change.
NothingNewer ==
  /\ data <= changes
  /\ \A c \in Children : snap[c] <= changes
  /\ \A f \in onDisk : f.ver <= changes
  /\ up => made \subseteq 1 .. data

(***************************************************************************)
(* The order of the versions: what was reported, the dump, what a child    *)
(* saves, the data.  A child that should be dead may be behind, and still  *)
(* be taken for a success.                                                 *)
(***************************************************************************)
VersionsSound ==
  /\ SavedSurvives
  /\ up => acked <= data
  /\ up /\ ~overtaken => dump.ver <= data
  /\ pc[Server] = "sync" /\ ~overtaken => dump.ver = data
  /\ Saving => snap[childPid] <= data
  /\ \A c \in Children : LiveDiskChild(c) /\ c \notin signalled =>
       acked <= snap[c] /\ (~overtaken => dump.ver <= snap[c])
  /\ \A c \in Children : LiveDiskChild(c) /\ pc[c] = "sync" /\ ~overtaken =>
       snap[c] <= dump.ver
  /\ \A c \in Children : DoneDiskChild(c) /\ ~overtaken =>
       \A f \in onDisk : snap[c] <= f.ver

\* The changes of S after version v.
MadeAfter(S, v) == {n \in S : n > v}

(***************************************************************************)
(* The counter covers the changes that the dump lacks, and what will be    *)
(* left of it when the child is waited for those that its dump lacks,      *)
(* unless the server has saved since.                                      *)
(***************************************************************************)
CounterCovers ==
  dirty >= 0 /\ (~overtaken => Cardinality(MadeAfter(made, dump.ver)) <= dirty)

WillCover(c) ==
  dirtyBefore >= 0 /\ Cardinality(MadeAfter(made, snap[c])) <= dirty - dirtyBefore

\* A child that is signalled or has ended.
Stopped(c) == pc[c] = "exited" \/ c \in signalled

CounterSound ==
  /\ twice = "pending" => childType = "disk" /\ Stopped(childPid)
  /\ up /\ twice # "yes" => CounterCovers
  /\ up /\ twice = "no" =>
       \A c \in Children : LiveDiskChild(c) \/ DoneDiskChild(c) => WillCover(c)

IInv ==
  /\ TypeOK /\ WaitersHaveAChild
  /\ ProcsSound /\ FilesSound /\ NothingNewer /\ VersionsSound /\ CounterSound

USE PersistenceAssumption DEF Procs, Server

-----------------------------------------------------------------------------
(* Lemmas about the operators. *)

\* Versions are numbers.
LEMMA VersionTyped ==
  ASSUME TypeOK
  PROVE  /\ data \in Int /\ changes \in Int /\ acked \in Int
         /\ \A c \in Children : snap[c] \in Int
         /\ \A p \in Procs : tmp[p].ver \in Int
         /\ dump.ver \in Int
         /\ \A f \in onDisk : f.ver \in Int
  BY DEF TypeOK, Files

\* Whose server is gone.
LEMMA OrphanIs ==
  ASSUME ProcsSound, NEW p \in Procs
  PROVE  Orphan(p) <=> p \in Children /\ p # childPid
  BY DEF ProcsSound, Orphan, Saving

LEMMA AfterTyped ==
  ASSUME NEW S \in SUBSET (1 .. MaxChanges), NEW v \in Int
  PROVE  IsFiniteSet(MadeAfter(S, v)) /\ Cardinality(MadeAfter(S, v)) \in Nat
<1>1. IsFiniteSet(S)
  <2>1. IsFiniteSet(1 .. MaxChanges)
    <3>1. 1 \in Int /\ MaxChanges \in Int
      BY PersistenceAssumption
    <3> QED
      BY <3>1, FS_Interval
  <2> QED
    BY <2>1, FS_Subset
<1>2. IsFiniteSet(MadeAfter(S, v))
  BY <1>1, FS_Subset DEF MadeAfter
<1> QED
  BY <1>2, FS_CardinalityType

\* A newer dump lacks no more.
LEMMA AfterFewer ==
  ASSUME NEW S \in SUBSET (1 .. MaxChanges), NEW v \in Int, NEW w \in Int, v <= w
  PROVE  Cardinality(MadeAfter(S, w)) <= Cardinality(MadeAfter(S, v))
<1>1. ASSUME NEW n \in S, n > w PROVE n > v
  BY <1>1
<1>2. MadeAfter(S, w) \subseteq MadeAfter(S, v)
  BY <1>1, Zenon DEF MadeAfter
<1> QED
  BY <1>2, AfterTyped, FS_Subset

LEMMA AddOne ==
  ASSUME NEW A, IsFiniteSet(A), NEW x
  PROVE  Cardinality(A \cup {x}) <= Cardinality(A) + 1
<1>1. Cardinality(A) \in Nat
  BY FS_CardinalityType
<1>2. Cardinality(A \cup {x}) = IF x \in A THEN Cardinality(A) ELSE Cardinality(A) + 1
  BY FS_AddElement
<1> QED
  BY <1>1, <1>2

\* A change adds at most one.
LEMMA AfterGrows ==
  ASSUME NEW S \in SUBSET (1 .. MaxChanges), NEW v \in Int, NEW x \in 1 .. MaxChanges
  PROVE  Cardinality(MadeAfter(S \cup {x}, v)) <= Cardinality(MadeAfter(S, v)) + 1
<1>1. CASE x > v
  <2>1. MadeAfter(S \cup {x}, v) = MadeAfter(S, v) \cup {x}
    BY <1>1 DEF MadeAfter
  <2> QED
    BY <2>1, AfterTyped, AddOne
<1>2. CASE ~(x > v)
  <2>1. MadeAfter(S \cup {x}, v) = MadeAfter(S, v)
    BY <1>2 DEF MadeAfter
  <2> QED
    BY <2>1, AfterTyped
<1> QED
  BY <1>1, <1>2

LEMMA AfterNone ==
  ASSUME NEW v \in Int, NEW S \in SUBSET (1 .. v)
  PROVE  Cardinality(MadeAfter(S, v)) = 0
<1>1. \A n \in S : ~(n > v)
  OBVIOUS
<1>2. MadeAfter(S, v) = {}
  BY <1>1 DEF MadeAfter
<1> QED
  BY <1>2, FS_EmptySet

-----------------------------------------------------------------------------
(* The steps of a save. *)

LEMMA InitIInv == Init => IInv
<1> SUFFICES ASSUME Init PROVE IInv
  OBVIOUS
<1>1. TypeOK
  <2>1. File(-1, "none") \in Files
    BY DEF Files, File
  <2>2. NoPipe \in Ends
    BY DEF NoPipe, Ends
  <2>3. /\ tmp \in [Procs -> Files] /\ dump \in Files /\ onDisk \subseteq Files
        /\ pipe \in [Children -> Ends]
    BY <2>1, <2>2 DEF Init, NoFile
  <2>4. /\ pc \in [Procs -> {"idle", "open", "write", "flush", "rename", "sync",
                             "stream", "hold", "exited"}]
        /\ code \in [Children -> {"ok", "error", "signal", "usr1"}]
        /\ snap \in [Children -> 0 .. MaxChanges]
        /\ replstate \in [Replicas -> {"off", "start", "end", "online"}]
    BY DEF Init
  <2>5. /\ data \in 0 .. MaxChanges /\ made \subseteq 1 .. MaxChanges
        /\ dirty \in Int /\ dirtyBefore \in Int
        /\ changes \in 0 .. MaxChanges /\ crashes \in 0 .. MaxCrashes
        /\ acked \in -1 .. MaxChanges
    BY DEF Init
  <2>6. /\ up \in BOOLEAN /\ scheduled \in BOOLEAN
        /\ twice \in {"no", "pending", "yes"} /\ overtaken \in BOOLEAN
        /\ signalled \subseteq Children /\ left \subseteq Procs
    BY DEF Init
  <2>7. childType = "none" /\ childPid = "none" /\ conns \subseteq Replicas
    BY DEF Init
  <2> QED
    BY <2>3, <2>4, <2>5, <2>6, <2>7 DEF TypeOK, Saving
<1>5. WaitersHaveAChild
  BY DEF Init, WaitersHaveAChild
<1>2. ProcsSound /\ FilesSound
  BY DEF Init, ProcsSound, FilesSound, TempSound, NoFile, File, DumpIsWhole, Whole,
         Saving, DiskStates
<1>3. NothingNewer /\ VersionsSound
  BY DEF Init, NothingNewer, VersionsSound, SavedSurvives, LiveDiskChild,
         DoneDiskChild, Saving, NoFile, File
<1>4. CounterSound
  <2>1. MadeAfter(made, dump.ver) = {}
    BY DEF Init, MadeAfter
  <2> QED
    BY <2>1, FS_EmptySet
    DEF Init, CounterSound, CounterCovers, WillCover, Stopped, LiveDiskChild, DoneDiskChild
<1> QED
  BY <1>1, <1>2, <1>3, <1>4, <1>5 DEF IInv

\* What becomes of a process whose save is over.
LEMMA EndedFacts ==
  ASSUME TypeOK, ProcsSound, NEW p \in Procs, NEW how, Ended(p, how),
         how \in {"ok", "error", "signal", "usr1"}
  PROVE  /\ pc' \in [Procs -> {"idle", "open", "write", "flush", "rename", "sync",
                                "stream", "hold", "exited"}]
         /\ code' \in [Children -> {"ok", "error", "signal", "usr1"}]
         /\ snap' \in [Children -> 0 .. MaxChanges]
         /\ \A q \in Procs : q # p => pc'[q] = pc[q]
         /\ pc'[p] = IF p = childPid THEN "exited" ELSE "idle"
         /\ \A c \in Children : c # p \/ c # childPid => code'[c] = code[c]
         /\ \A c \in Children : c = p /\ c = childPid => code'[c] = how
         /\ \A c \in Children : snap'[c] = IF c = p /\ c # childPid THEN 0 ELSE snap[c]
         /\ signalled' = signalled \ {p}
<1>1. /\ Orphan(p) <=> p \in Children /\ p # childPid
      /\ p = Server => p \notin Children /\ p # childPid
  BY OrphanIs DEF TypeOK
<1>2. pc' = [pc EXCEPT ![p] = IF p = childPid THEN "exited" ELSE "idle"]
  BY <1>1 DEF Ended
<1>3. code' = IF p # childPid THEN code ELSE [code EXCEPT ![p] = how]
  BY <1>1 DEF Ended
<1>4. snap' = IF p \in Children /\ p # childPid THEN [snap EXCEPT ![p] = 0] ELSE snap
  BY <1>1 DEF Ended
<1>5. p = childPid => p \in Children
  BY <1>1
<1>6. signalled' = signalled \ {p}
  BY DEF Ended
<1> QED
  BY <1>2, <1>3, <1>4, <1>5, <1>6 DEF TypeOK

LEMMA GoesFacts ==
  ASSUME TypeOK, NEW p \in Procs, NEW to, Goes(p, to),
         to \in DiskStates
  PROVE  /\ pc' \in [Procs -> {"idle", "open", "write", "flush", "rename", "sync",
                                "stream", "hold", "exited"}]
         /\ \A q \in Procs : pc'[q] = IF q = p THEN to ELSE pc[q]
         /\ UNCHANGED <<up, data, made, dirty, dirtyBefore, scheduled, childType,
                        childPid, replstate, conns, pipe, code, snap, signalled,
                        changes, crashes>>
  BY DEF Goes, TypeOK, memory, transfer, bounds, DiskStates

LEMMA TmpFacts ==
  ASSUME TypeOK, NEW p \in Procs, NEW f \in Files, tmp' = [tmp EXCEPT ![p] = f]
  PROVE  /\ tmp' \in [Procs -> Files]
         /\ \A q \in Procs : tmp'[q] = IF q = p THEN f ELSE tmp[q]
  BY DEF TypeOK

LEMMA IInvParts ==
  IInv <=> /\ TypeOK /\ WaitersHaveAChild /\ ProcsSound /\ FilesSound /\ NothingNewer
           /\ VersionsSound /\ CounterSound
  BY DEF IInv

\* A save is over, in whatever way but a sync: no process is left behind, and
\* no file but that of a child ended by a signal or of one nobody waits for.
LEMMA EndsKeeps ==
  ASSUME IInv, NEW p \in Procs, pc[p] \notin {"idle", "exited"},
         NEW how \in {"ok", "error", "signal", "usr1"}, Ended(p, how),
         how = "ok" => childType # "disk" \/ p # childPid,
         UNCHANGED <<up, memory, replstate, conns, dump, onDisk, bounds,
                     acked, twice, overtaken>>,
         pipe' \in [Children -> Ends],
         left \subseteq left', left' \subseteq Procs,
         tmp' \in [Procs -> Files], \A q \in Procs : q # p => tmp'[q] = tmp[q],
         \/ tmp'[p] = NoFile \/ p \in left'
         \/ tmp'[p] = tmp[p] /\ how \in {"signal", "usr1"} /\ p = childPid
  PROVE  IInv'
<1>1. /\ TypeOK /\ WaitersHaveAChild /\ ProcsSound /\ FilesSound /\ NothingNewer
      /\ VersionsSound /\ CounterSound
  BY IInvParts
<1>2. UNCHANGED <<up, data, made, dirty, dirtyBefore, scheduled, childType, childPid,
                  replstate, conns, dump, onDisk, changes, crashes, acked, twice,
                  overtaken>>
  BY DEF memory, bounds
<1>3. /\ pc' \in [Procs -> {"idle", "open", "write", "flush", "rename", "sync",
                             "stream", "hold", "exited"}]
      /\ code' \in [Children -> {"ok", "error", "signal", "usr1"}]
      /\ snap' \in [Children -> 0 .. MaxChanges]
      /\ \A q \in Procs : q # p => pc'[q] = pc[q]
      /\ pc'[p] = IF p = childPid THEN "exited" ELSE "idle"
      /\ \A c \in Children : c # p \/ c # childPid => code'[c] = code[c]
      /\ \A c \in Children : c = p /\ c = childPid => code'[c] = how
      /\ \A c \in Children : snap'[c] = IF c = p /\ c # childPid THEN 0 ELSE snap[c]
      /\ signalled' = signalled \ {p}
  BY <1>1, EndedFacts
<1>6. p = childPid /\ childType = "socket" => tmp[p] = NoFile \/ p \in left
  <2>1. p = childPid /\ childType = "socket" => pc[p] \in SocketStates
    BY <1>1 DEF ProcsSound
  <2> QED
    BY <1>1, <2>1 DEF FilesSound, TempSound, SocketStates
<1>11. TypeOK'
  BY <1>1, <1>2, <1>3 DEF TypeOK, Saving
<1>12. WaitersHaveAChild'
  BY <1>1, <1>2 DEF WaitersHaveAChild
<1>13. ProcsSound'
  BY <1>1, <1>2, <1>3 DEF ProcsSound, Saving, TypeOK
<1>14. FilesSound'
  <2>2. TempSound(p)'
    BY <1>1, <1>2, <1>3, <1>6 DEF FilesSound, TempSound, TypeOK
  <2>3. ASSUME NEW q \in Procs, q # p PROVE TempSound(q)'
    <3>1. /\ pc'[q] = pc[q] /\ tmp'[q] = tmp[q] /\ (q \in left => q \in left')
          /\ q # Server => snap'[q] = snap[q] /\ code'[q] = code[q]
      BY <1>3, <2>3
    <3> QED
      BY <1>1, <1>2, <2>3, <3>1 DEF FilesSound, TempSound, Content
  <2>1. \A q \in Procs : TempSound(q)'
    BY <2>2, <2>3
  <2> QED
    BY <1>1, <1>2, <2>1 DEF FilesSound, DumpIsWhole
<1>15. NothingNewer'
  BY <1>1, <1>2, <1>3 DEF NothingNewer, TypeOK
<1>16. VersionsSound'
  BY <1>1, <1>2, <1>3 DEF VersionsSound, SavedSurvives, LiveDiskChild, DoneDiskChild,
                          Saving, TypeOK, ProcsSound
<1>17. CounterSound'
  <2>1. \A c \in Children : LiveDiskChild(c)' \/ DoneDiskChild(c)' =>
          (LiveDiskChild(c) \/ DoneDiskChild(c)) /\ snap'[c] = snap[c]
    BY <1>1, <1>2, <1>3 DEF LiveDiskChild, DoneDiskChild, ProcsSound
  <2>2. twice' = "pending" => childType' = "disk" /\ Stopped(childPid)'
    BY <1>1, <1>2, <1>3 DEF CounterSound, Stopped, TypeOK, Saving
  <2> QED
    BY <1>1, <1>2, <2>1, <2>2 DEF CounterSound, CounterCovers, WillCover
<1> QED
  BY <1>11, <1>12, <1>13, <1>14, <1>15, <1>16, <1>17, IInvParts DEF IInv

LEMMA FailsKeeps ==
  ASSUME IInv, NEW p \in Procs, pc[p] \in DiskStates, Fails(p),
         tmp' = Unlinked(p) \/ (tmp' = tmp /\ (tmp[p] = NoFile \/ p \in left))
  PROVE  IInv'
<1>1. TypeOK
  BY IInvParts
<1>2. /\ Ended(p, "error") /\ left' = left /\ left \subseteq Procs
      /\ UNCHANGED <<up, memory, replstate, conns, dump, onDisk, bounds,
                     acked, twice, overtaken>>
      /\ pipe' \in [Children -> Ends]
  BY <1>1 DEF Fails, transfer, ghosts, TypeOK
<1>3. pc[p] \notin {"idle", "exited"}
  BY DEF DiskStates
<1>4. NoFile \in Files
  BY DEF NoFile, File, Files
<1>5. /\ tmp' \in [Procs -> Files] /\ \A q \in Procs : q # p => tmp'[q] = tmp[q]
      /\ tmp'[p] = NoFile \/ p \in left
  <2>1. CASE tmp' = Unlinked(p)
    BY <1>1, <1>4, <2>1, TmpFacts DEF Unlinked
  <2>2. CASE tmp' = tmp /\ (tmp[p] = NoFile \/ p \in left)
    BY <1>1, <2>2 DEF TypeOK
  <2> QED
    BY <2>1, <2>2
<1> QED
  BY <1>2, <1>3, <1>5, EndsKeeps

\* A step of the save that writes the temporary file.
LEMMA WritesKeeps ==
  ASSUME IInv, NEW p \in Procs, NEW to, NEW s, Goes(p, to),
         \/ pc[p] = "open" /\ to = "write" /\ s = "partial"
         \/ pc[p] = "write" /\ to = "flush" /\ s = "written"
         \/ pc[p] = "flush" /\ to = "rename" /\ s = "synced",
         tmp' = [tmp EXCEPT ![p] = File(Content(p), s)],
         left \ {p} \subseteq left', left' \subseteq left,
         UNCHANGED <<dump, onDisk, acked, twice, overtaken>>
  PROVE  IInv'
<1>1. /\ TypeOK /\ WaitersHaveAChild /\ ProcsSound /\ FilesSound /\ NothingNewer
      /\ VersionsSound /\ CounterSound
  BY IInvParts
<1>2. /\ pc' \in [Procs -> {"idle", "open", "write", "flush", "rename", "sync",
                             "stream", "hold", "exited"}]
      /\ \A q \in Procs : pc'[q] = IF q = p THEN to ELSE pc[q]
      /\ UNCHANGED <<up, data, made, dirty, dirtyBefore, scheduled, childType,
                     childPid, replstate, conns, pipe, code, snap, signalled,
                     changes, crashes>>
  BY <1>1, GoesFacts DEF DiskStates
<1>3. UNCHANGED <<dump, onDisk, acked, twice, overtaken>>
  OBVIOUS
<1>4. File(Content(p), s) \in Files
  BY <1>1 DEF File, Files, Content, TypeOK
<1>5. /\ tmp' \in [Procs -> Files]
      /\ \A q \in Procs : tmp'[q] = IF q = p THEN File(Content(p), s) ELSE tmp[q]
  BY <1>1, <1>4, TmpFacts
<1>6. pc[p] \in DiskStates /\ to \in DiskStates /\ p # "none"
  BY DEF DiskStates
<1>11. TypeOK'
  BY <1>1, <1>2, <1>3, <1>5 DEF TypeOK, Saving
<1>12. WaitersHaveAChild'
  BY <1>1, <1>2 DEF WaitersHaveAChild
<1>13. ProcsSound'
  BY <1>1, <1>2, <1>6 DEF ProcsSound, Saving, TypeOK, DiskStates, SocketStates
<1>14. FilesSound'
  <2>1. \A q \in Procs : TempSound(q)'
    BY <1>1, <1>2, <1>5 DEF FilesSound, TempSound, Content, TypeOK
  <2> QED
    BY <1>1, <1>3, <2>1 DEF FilesSound, DumpIsWhole
<1>15. NothingNewer'
  BY <1>1, <1>2, <1>3 DEF NothingNewer, TypeOK
<1>16. VersionsSound'
  BY <1>1, <1>2, <1>3 DEF VersionsSound, SavedSurvives, LiveDiskChild, DoneDiskChild,
                          Saving, TypeOK, ProcsSound
<1>17. CounterSound'
  <2>1. \A c \in Children : LiveDiskChild(c)' \/ DoneDiskChild(c)' =>
          (LiveDiskChild(c) \/ DoneDiskChild(c)) /\ snap'[c] = snap[c]
    BY <1>1, <1>2, <1>3, <1>6 DEF LiveDiskChild, DoneDiskChild, ProcsSound, DiskStates
  <2>2. twice' = "pending" => childType' = "disk" /\ Stopped(childPid)'
    BY <1>1, <1>2, <1>3, <1>6 DEF CounterSound, Stopped, TypeOK, Saving, DiskStates
  <2> QED
    BY <1>1, <1>2, <1>3, <2>1, <2>2 DEF CounterSound, CounterCovers, WillCover
<1> QED
  BY <1>11, <1>12, <1>13, <1>14, <1>15, <1>16, <1>17, IInvParts DEF IInv

LEMMA OpenKeeps ==
  ASSUME IInv, NEW p \in Procs, Open(p)
  PROVE  IInv'
<1>1. tmp[p] = NoFile \/ p \in left
  BY DEF IInv, FilesSound, TempSound, Open
<1>2. CASE Fails(p) /\ UNCHANGED tmp
  BY <1>1, <1>2, FailsKeeps DEF Open, DiskStates
<1>3. CASE Goes(p, "write") /\ tmp' = [tmp EXCEPT ![p] = File(Content(p), "partial")]
           /\ left' = left \ {p} /\ UNCHANGED <<dump, onDisk, acked, twice, overtaken>>
  <2>1. left \ {p} \subseteq left' /\ left' \subseteq left
    BY <1>3
  <2> QED
    BY <1>3, <2>1, WritesKeeps DEF Open
<1> QED
  BY <1>2, <1>3 DEF Open

LEMMA WriteKeeps ==
  ASSUME IInv, NEW p \in Procs, Write(p)
  PROVE  IInv'
<1>1. tmp[p] = File(Content(p), "partial") /\ tmp \in [Procs -> Files]
  BY DEF IInv, FilesSound, TempSound, Write, TypeOK
<1>2. CASE Fails(p) /\ tmp' = Unlinked(p)
  BY <1>2, FailsKeeps DEF Write, DiskStates
<1>3. CASE Goes(p, "flush") /\ tmp' = [tmp EXCEPT ![p].state = "written"]
           /\ UNCHANGED <<dump, onDisk, ghosts>>
  <2>1. [tmp[p] EXCEPT !.state = "written"] = File(Content(p), "written")
    BY <1>1 DEF File
  <2>2. tmp' = [tmp EXCEPT ![p] = File(Content(p), "written")]
    BY <1>3, <2>1
  <2>3. left' = left /\ UNCHANGED <<acked, twice, overtaken>>
    BY <1>3 DEF ghosts
  <2> QED
    BY <1>3, <2>2, <2>3, WritesKeeps DEF Write
<1> QED
  BY <1>2, <1>3 DEF Write

LEMMA FlushKeeps ==
  ASSUME IInv, NEW p \in Procs, Flush(p)
  PROVE  IInv'
<1>1. tmp[p] = File(Content(p), "written") /\ tmp \in [Procs -> Files]
  BY DEF IInv, FilesSound, TempSound, Flush, TypeOK
<1>2. CASE Fails(p) /\ tmp' = Unlinked(p)
  BY <1>2, FailsKeeps DEF Flush, DiskStates
<1>3. CASE Goes(p, "rename") /\ tmp' = Flushed(p) /\ UNCHANGED <<dump, onDisk, ghosts>>
  <2>1. [tmp[p] EXCEPT !.state = "synced"] = File(Content(p), "synced")
    BY <1>1 DEF File
  <2>2. tmp' = [tmp EXCEPT ![p] = File(Content(p), "synced")]
    BY <1>3, <2>1 DEF Flushed
  <2>3. left' = left /\ UNCHANGED <<acked, twice, overtaken>>
    BY <1>3 DEF ghosts
  <2> QED
    BY <1>3, <2>2, <2>3, WritesKeeps DEF Flush
<1> QED
  BY <1>2, <1>3 DEF Flush

\* What Rename puts in the place of the dump.
Replaced(p) ==
  /\ pc[p] = "rename" /\ dump' = tmp[p]
  /\ overtaken' = (overtaken \/ (Orphan(p) /\ up)
                             \/ (Late(p) /\ tmp[p].ver < dump.ver))

\* Only a child that nobody waits for or that should be dead can replace a newer
\* dump.
LEMMA ReplacedFacts ==
  ASSUME IInv, NEW p \in Procs, Replaced(p)
  PROVE  /\ tmp[p] \in Files /\ tmp[p] = File(Content(p), "synced")
         /\ dump'.ver = Content(p) /\ Content(p) \in Int /\ Whole(dump')
         /\ Orphan(p) <=> p \in Children /\ p # childPid
         /\ p = Server => up /\ Content(p) = data
         /\ p # Server => Content(p) = snap[p]
         /\ p = childPid => p \in Children /\ up /\ LiveDiskChild(p) /\ snap[p] <= data
         /\ ~overtaken' => /\ ~overtaken /\ (Orphan(p) => ~up)
                           /\ dump.ver <= Content(p) /\ acked <= Content(p)
<1>1. /\ TypeOK /\ ProcsSound /\ FilesSound /\ VersionsSound
  BY IInvParts
<1>2. pc[p] = "rename" /\ tmp[p] \in Files /\ tmp[p] = File(Content(p), "synced")
  BY <1>1 DEF Replaced, FilesSound, TempSound, TypeOK
<1>3. dump' = tmp[p] /\ dump'.ver = Content(p) /\ Whole(dump')
  BY <1>2 DEF File, Whole, Replaced
<1>4. /\ Content(p) \in Int /\ dump.ver \in Int /\ data \in Int /\ acked \in Int
      /\ \A c \in Children : snap[c] \in Int
  BY <1>1, VersionTyped DEF Content
<1>5. Orphan(p) <=> p \in Children /\ p # childPid
  BY <1>1, OrphanIs
<1>6. /\ p = Server => up /\ Content(p) = data
      /\ p # Server => Content(p) = snap[p]
      /\ p = childPid => p \in Children /\ up /\ LiveDiskChild(p)
  BY <1>1, <1>2 DEF ProcsSound, Saving, LiveDiskChild, SocketStates, TypeOK, Content
<1>7. /\ p = childPid => snap[p] <= data
      /\ ~Late(p) /\ ~overtaken => dump.ver <= Content(p)
  <2>1. p = childPid /\ p \notin signalled /\ ~overtaken => dump.ver <= snap[p]
    BY <1>1, <1>6 DEF VersionsSound
  <2>2. p = Server /\ ~overtaken => dump.ver <= data
    BY <1>1, <1>6 DEF VersionsSound
  <2>3. p = childPid => snap[p] <= data
    BY <1>1, <1>6 DEF VersionsSound, LiveDiskChild, Saving
  <2>4. ~Late(p) => p = Server \/ (p = childPid /\ p \notin signalled)
    BY <1>5 DEF Late
  <2> QED
    BY <1>6, <2>1, <2>2, <2>3, <2>4
<1>8. ~overtaken => acked <= dump.ver
  BY <1>1 DEF VersionsSound, SavedSurvives, FilesSound
<1>9. ~overtaken' => ~overtaken /\ (Orphan(p) => ~up) /\ dump.ver <= Content(p)
  <2>1. ~(tmp[p].ver < dump.ver) => dump.ver <= Content(p)
    BY <1>3, <1>4
  <2>2. ~overtaken' => /\ ~overtaken /\ (Orphan(p) => ~up)
                       /\ Late(p) => ~(tmp[p].ver < dump.ver)
    BY Zenon DEF Replaced
  <2> QED
    BY <1>7, <2>1, <2>2
<1> QED
  BY <1>2, <1>3, <1>4, <1>5, <1>6, <1>7, <1>8, <1>9

LEMMA RenameKeeps ==
  ASSUME IInv, NEW p \in Procs, Rename(p)
  PROVE  IInv'
<1>1. /\ TypeOK /\ WaitersHaveAChild /\ ProcsSound /\ FilesSound /\ NothingNewer
      /\ VersionsSound /\ CounterSound
  BY IInvParts
<1>2. CASE Fails(p) /\ tmp' = Unlinked(p)
  BY <1>2, FailsKeeps DEF Rename, DiskStates
<1>3. CASE /\ Goes(p, "sync")
           /\ dump' = tmp[p] /\ onDisk' = onDisk \cup {tmp[p]}
           /\ tmp' = [tmp EXCEPT ![p] = NoFile]
           /\ overtaken' = (overtaken \/ (Orphan(p) /\ up)
                                      \/ (Late(p) /\ tmp[p].ver < dump.ver))
           /\ UNCHANGED <<acked, twice, left>>
  <2>1. /\ pc' \in [Procs -> {"idle", "open", "write", "flush", "rename", "sync",
                               "stream", "hold", "exited"}]
        /\ \A q \in Procs : pc'[q] = IF q = p THEN "sync" ELSE pc[q]
        /\ UNCHANGED <<up, data, made, dirty, dirtyBefore, scheduled, childType,
                       childPid, replstate, conns, pipe, code, snap, signalled,
                       changes, crashes>>
    BY <1>1, <1>3, GoesFacts DEF DiskStates
  <2>2. NoFile \in Files
    BY DEF NoFile, File, Files
  <2>3. /\ tmp' \in [Procs -> Files]
        /\ \A q \in Procs : tmp'[q] = IF q = p THEN NoFile ELSE tmp[q]
    BY <1>1, <1>3, <2>2, TmpFacts
  <2>4. Replaced(p)
    BY <1>3, Zenon DEF Rename, Replaced
  <2>5. /\ pc[p] = "rename" /\ dump' = tmp[p] /\ tmp[p] \in Files
        /\ dump'.ver = Content(p) /\ Content(p) \in Int /\ Whole(dump')
    BY <2>4, ReplacedFacts DEF Replaced
  <2>6. /\ Orphan(p) <=> p \in Children /\ p # childPid
        /\ p = Server => up /\ Content(p) = data
        /\ p # Server => Content(p) = snap[p]
        /\ p = childPid => p \in Children /\ up /\ LiveDiskChild(p) /\ snap[p] <= data
        /\ ~overtaken' => /\ ~overtaken /\ (Orphan(p) => ~up)
                          /\ dump.ver <= Content(p) /\ acked <= Content(p)
    BY <2>4, ReplacedFacts
  <2>7. /\ dump.ver \in Int /\ data \in Int /\ acked \in Int
        /\ \A c \in Children : snap[c] \in Int
        /\ made \in SUBSET (1 .. MaxChanges)
    BY <1>1, VersionTyped DEF TypeOK
  <2>8. up /\ ~overtaken' => /\ Content(p) <= data
                             /\ p = Server => Content(p) = data
    <3>1. up /\ ~overtaken' => p = Server \/ p = childPid
      BY <2>6
    <3> QED
      BY <2>6, <2>7, <3>1
  <2>11. TypeOK'
    BY <1>1, <1>3, <2>1, <2>3, <2>5 DEF TypeOK, Saving
  <2>12. WaitersHaveAChild'
    BY <1>1, <2>1 DEF WaitersHaveAChild
  <2>13. ProcsSound'
    BY <1>1, <2>1, <2>5 DEF ProcsSound, Saving, TypeOK, DiskStates, SocketStates
  <2>14. FilesSound'
    <3>1. \A q \in Procs : TempSound(q)'
      BY <1>1, <1>3, <2>1, <2>3 DEF FilesSound, TempSound, Content, TypeOK
    <3> QED
      BY <1>1, <1>3, <2>5, <3>1 DEF FilesSound, DumpIsWhole, Whole
  <2>15. NothingNewer'
    BY <1>1, <1>3, <2>1, <2>5 DEF NothingNewer, TypeOK, Content
  <2>16. VersionsSound'
    <3>2. SavedSurvives'
      BY <1>1, <1>3, <2>5, <2>6 DEF VersionsSound, SavedSurvives
    <3>3. up' /\ ~overtaken' => dump'.ver <= data'
      BY <2>1, <2>5, <2>8
    <3>4. pc'[Server] = "sync" /\ ~overtaken' => dump'.ver = data'
      <4>1. CASE p = Server
        BY <2>1, <2>5, <2>6, <4>1
      <4>2. CASE p # Server
        <5>1. pc'[Server] = "sync" => pc[Server] = "sync" /\ up
          BY <1>1, <2>1, <4>2 DEF ProcsSound
        <5>2. pc[Server] = "sync" /\ ~overtaken => dump.ver = data
          BY <1>1 DEF VersionsSound
        <5> QED
          BY <2>1, <2>5, <2>6, <2>7, <2>8, <5>1, <5>2
      <4> QED
        BY <4>1, <4>2
    <3>5. ASSUME NEW c \in Children, LiveDiskChild(c)', c \notin signalled'
          PROVE  acked' <= snap'[c] /\ (~overtaken' => dump'.ver <= snap'[c])
      <4>1. LiveDiskChild(c) /\ c \notin signalled /\ c = childPid
        BY <2>1, <2>5, <3>5 DEF LiveDiskChild
      <4>2. p # Server /\ up
        BY <1>1, <2>5, <4>1 DEF ProcsSound, LiveDiskChild, Saving
      <4>3. acked <= snap[c]
        BY <1>1, <4>1 DEF VersionsSound
      <4> QED
        BY <1>3, <2>1, <2>5, <2>6, <4>1, <4>2, <4>3
    <3>8. ASSUME NEW c \in Children, LiveDiskChild(c)', pc'[c] = "sync", ~overtaken'
          PROVE  snap'[c] <= dump'.ver
      <4>1. LiveDiskChild(c) /\ c = childPid /\ up /\ snap[c] <= data
        BY <1>1, <2>1, <2>5, <3>8 DEF LiveDiskChild, ProcsSound, VersionsSound, Saving
      <4> QED
        BY <2>1, <2>5, <2>6, <2>7, <3>8, <4>1
    <3>6. \A c \in Children : DoneDiskChild(c)' /\ ~overtaken' =>
            \A f \in onDisk' : snap'[c] <= f.ver
      BY <1>1, <1>3, <2>1, <2>5, <2>6, <2>7
      DEF VersionsSound, DoneDiskChild, ProcsSound, Saving, TypeOK, Content
    <3>7. (up' => acked' <= data') /\ (Saving' => snap'[childPid'] <= data')
      BY <1>1, <1>3, <2>1 DEF VersionsSound, Saving
    <3> QED
      BY <3>2, <3>3, <3>4, <3>5, <3>6, <3>7, <3>8 DEF VersionsSound
  <2>17. CounterSound'
    <3>1. ~overtaken' => Cardinality(MadeAfter(made, dump'.ver)) <= Cardinality(MadeAfter(made, dump.ver))
      BY <2>5, <2>6, <2>7, AfterFewer
    <3>2. /\ Cardinality(MadeAfter(made, dump.ver)) \in Nat
          /\ Cardinality(MadeAfter(made, dump'.ver)) \in Nat
      BY <2>5, <2>7, AfterTyped
    <3>3. up' /\ twice' # "yes" => CounterCovers'
      BY <1>1, <1>3, <2>1, <2>6, <3>1, <3>2 DEF CounterSound, CounterCovers, TypeOK
    <3>5. \A c \in Children : LiveDiskChild(c)' \/ DoneDiskChild(c)' => LiveDiskChild(c) \/ DoneDiskChild(c)
      BY <2>1, <2>5 DEF LiveDiskChild, DoneDiskChild
    <3>6. up' /\ twice' = "no" => \A c \in Children :
            LiveDiskChild(c)' \/ DoneDiskChild(c)' => WillCover(c)'
      BY <1>1, <1>3, <2>1, <3>5 DEF CounterSound, WillCover
    <3>7. twice' = "pending" => childType' = "disk" /\ Stopped(childPid)'
      BY <1>1, <1>3, <2>1, <2>5 DEF CounterSound, Stopped, TypeOK, Saving
    <3> QED
      BY <3>3, <3>6, <3>7 DEF CounterSound
  <2> QED
    BY <2>11, <2>12, <2>13, <2>14, <2>15, <2>16, <2>17, IInvParts DEF IInv
<1> QED
  BY <1>2, <1>3 DEF Rename

\* The end of rdbSave() when the directory is synced.
LEMMA SyncedKeeps ==
  ASSUME IInv, NEW p \in Procs, pc[p] = "sync",
         onDisk' = DirSynced, Ended(p, "ok"),
         p = Server => /\ SaveDone /\ acked' = data
                       /\ twice' = IF ChildMaySucceed THEN "pending" ELSE "no",
         p # Server => UNCHANGED <<dirty, acked, twice>>,
         overtaken' = (overtaken /\ (Late(p) \/ dump.ver # Content(p))),
         UNCHANGED <<up, data, made, dirtyBefore, scheduled, childType, childPid,
                     transfer, tmp, dump, bounds, left>>
  PROVE  IInv'
<1>1. /\ TypeOK /\ WaitersHaveAChild /\ ProcsSound /\ FilesSound /\ NothingNewer
      /\ VersionsSound /\ CounterSound
  BY IInvParts
<1>2. /\ UNCHANGED <<up, data, made, dirtyBefore, scheduled, childType, childPid,
                     replstate, conns, pipe, tmp, dump, changes, crashes, left>>
      /\ onDisk' = {dump}
      /\ dirty' = IF p = Server THEN 0 ELSE dirty
      /\ acked' = IF p = Server THEN data ELSE acked
  BY DEF transfer, bounds, DirSynced, SaveDone
<1>3. /\ pc' \in [Procs -> {"idle", "open", "write", "flush", "rename", "sync",
                             "stream", "hold", "exited"}]
      /\ code' \in [Children -> {"ok", "error", "signal", "usr1"}]
      /\ snap' \in [Children -> 0 .. MaxChanges]
      /\ \A q \in Procs : q # p => pc'[q] = pc[q]
      /\ pc'[p] = IF p = childPid THEN "exited" ELSE "idle"
      /\ \A c \in Children : c # p \/ c # childPid => code'[c] = code[c]
      /\ \A c \in Children : c = p /\ c = childPid => code'[c] = "ok"
      /\ \A c \in Children : snap'[c] = IF c = p /\ c # childPid THEN 0 ELSE snap[c]
      /\ signalled' = signalled \ {p}
  BY <1>1, EndedFacts
<1>4. /\ dump.ver \in Int /\ data \in Int /\ acked \in Int
      /\ \A c \in Children : snap[c] \in Int
      /\ made \in SUBSET (1 .. MaxChanges)
  BY <1>1, VersionTyped DEF TypeOK
<1>5. Orphan(p) <=> p \in Children /\ p # childPid
  BY <1>1, OrphanIs
<1>6. tmp[p] = NoFile
  BY <1>1 DEF FilesSound, TempSound
\* Who may be here.
<1>7. /\ p = Server => /\ up
                       /\ \A c \in Children : LiveDiskChild(c) => c \in signalled
      /\ p = childPid => p \in Children /\ up /\ LiveDiskChild(p)
  BY <1>1 DEF ProcsSound, Saving, LiveDiskChild, SocketStates, TypeOK
<1>8. /\ p = childPid => /\ snap[p] <= data
                         /\ p \notin signalled => acked <= snap[p]
                         /\ ~overtaken => snap[p] <= dump.ver
      /\ p = Server /\ ~overtaken => dump.ver = data
  BY <1>1, <1>7 DEF VersionsSound, LiveDiskChild, Saving
\* Whose the dump is.
<1>9. /\ p = childPid /\ ~overtaken' => /\ snap[p] <= dump.ver
                                        /\ ~overtaken \/ (dump.ver = snap[p] /\ p \notin signalled)
      /\ p = Server /\ ~overtaken' => dump.ver = data
      /\ p # childPid /\ p # Server /\ ~overtaken' => ~overtaken
  <2>1. ~overtaken' => ~overtaken \/ (~Late(p) /\ dump.ver = Content(p))
    BY Zenon
  <2>2. p # Server => Content(p) = snap[p]
    BY DEF Content
  <2>3. p = Server => Content(p) = data
    BY DEF Content
  <2>4. ~Late(p) => ~Orphan(p) /\ p \notin signalled
    BY DEF Late
  <2> QED
    BY <1>4, <1>5, <1>7, <1>8, <2>1, <2>2, <2>3, <2>4
<1>10. ~overtaken => acked <= dump.ver
  BY <1>1 DEF VersionsSound, SavedSurvives, FilesSound
<1>11. TypeOK'
  <2>1. twice' \in {"no", "pending", "yes"} /\ overtaken' \in BOOLEAN
    BY <1>1 DEF TypeOK
  <2>2. dirty' \in Int /\ acked' \in -1 .. MaxChanges /\ onDisk' \subseteq Files
    BY <1>1, <1>2 DEF TypeOK
  <2> QED
    BY <1>1, <1>2, <1>3, <2>1, <2>2 DEF TypeOK, Saving
<1>12. WaitersHaveAChild'
  BY <1>1, <1>2 DEF WaitersHaveAChild
<1>13. ProcsSound'
  BY <1>1, <1>2, <1>3 DEF ProcsSound, Saving, TypeOK
<1>14. FilesSound'
  <2>1. \A q \in Procs : TempSound(q)'
    BY <1>1, <1>2, <1>3, <1>6 DEF FilesSound, TempSound, Content, TypeOK
  <2> QED
    BY <1>1, <1>2, <2>1 DEF FilesSound, DumpIsWhole
<1>15. NothingNewer'
  BY <1>1, <1>2, <1>3 DEF NothingNewer, TypeOK, FilesSound
<1>16. VersionsSound'
  <2>1. SavedSurvives'
    <3>1. CASE p = Server
      BY <1>2, <1>4, <1>9, <3>1 DEF SavedSurvives
    <3>2. CASE p # Server
      <4>1. ~overtaken' => acked <= dump.ver
        BY <1>4, <1>8, <1>9, <1>10, <3>2
      <4> QED
        BY <1>2, <3>2, <4>1 DEF SavedSurvives
    <3> QED
      BY <3>1, <3>2
  <2>2. up' => acked' <= data'
    BY <1>1, <1>2, <1>4 DEF VersionsSound
  <2>3. up' /\ ~overtaken' => dump'.ver <= data'
    BY <1>1, <1>2, <1>4, <1>8, <1>9 DEF VersionsSound
  <2>4. pc'[Server] = "sync" /\ ~overtaken' => dump'.ver = data'
    <3>1. p # Server /\ pc[Server] = "sync" /\ p = childPid => p \in signalled
      BY <1>1, <1>7 DEF ProcsSound, Saving, LiveDiskChild
    <3>2. pc'[Server] = "sync" => p # Server /\ pc[Server] = "sync"
      BY <1>1, <1>3 DEF TypeOK
    <3>3. pc[Server] = "sync" /\ ~overtaken => dump.ver = data
      BY <1>1 DEF VersionsSound
    <3> QED
      BY <1>2, <1>9, <3>1, <3>2, <3>3
  <2>5. Saving' => snap'[childPid'] <= data'
    BY <1>1, <1>2, <1>3 DEF VersionsSound, Saving, TypeOK
  <2>6. ASSUME NEW c \in Children, LiveDiskChild(c)'
        PROVE  /\ LiveDiskChild(c) /\ c # p /\ p # childPid /\ snap'[c] = snap[c]
               /\ pc'[c] = pc[c] /\ (c \in signalled' <=> c \in signalled)
    BY <1>2, <1>3, <1>7, <2>6 DEF LiveDiskChild
  <2>8. ASSUME NEW c \in Children, LiveDiskChild(c)', c \notin signalled'
        PROVE  acked' <= snap'[c] /\ (~overtaken' => dump'.ver <= snap'[c])
    <3>1. LiveDiskChild(c) /\ c \notin signalled /\ p # childPid /\ snap'[c] = snap[c]
      BY <2>6, <2>8
    <3>2. p # Server
      BY <1>7, <3>1
    <3>3. acked <= snap[c] /\ (~overtaken => dump.ver <= snap[c])
      BY <1>1, <3>1 DEF VersionsSound
    <3> QED
      BY <1>2, <1>9, <3>1, <3>2, <3>3
  <2>9. ASSUME NEW c \in Children, LiveDiskChild(c)', pc'[c] = "sync", ~overtaken'
        PROVE  snap'[c] <= dump'.ver
    <3>1. /\ LiveDiskChild(c) /\ p # childPid /\ snap'[c] = snap[c] /\ pc[c] = "sync"
          /\ c = childPid /\ Saving
      BY <2>6, <2>9 DEF LiveDiskChild, Saving
    <3>2. snap[c] <= data /\ (~overtaken => snap[c] <= dump.ver)
      BY <1>1, <3>1 DEF VersionsSound
    <3> QED
      BY <1>2, <1>9, <2>9, <3>1, <3>2
  <2>7. \A c \in Children : DoneDiskChild(c)' /\ ~overtaken' =>
          \A f \in onDisk' : snap'[c] <= f.ver
    <3>1. ASSUME NEW c \in Children, DoneDiskChild(c)', ~overtaken'
          PROVE  snap'[c] <= dump.ver
      <4>1. CASE c = p
        BY <1>2, <1>3, <1>9, <3>1, <4>1 DEF DoneDiskChild
      <4>2. CASE c # p
        <5>1. DoneDiskChild(c) /\ c = childPid /\ snap'[c] = snap[c]
          BY <1>2, <1>3, <3>1, <4>2 DEF DoneDiskChild
        <5>2. CASE p = Server
          BY <1>1, <1>4, <1>9, <3>1, <5>1, <5>2 DEF VersionsSound, DoneDiskChild, Saving
        <5>3. CASE p # Server
          BY <1>1, <1>9, <3>1, <4>2, <5>1, <5>3 DEF VersionsSound, FilesSound
        <5> QED
          BY <5>2, <5>3
      <4> QED
        BY <4>1, <4>2
    <3> QED
      BY <1>2, <3>1
  <2> QED
    BY <2>1, <2>2, <2>3, <2>4, <2>5, <2>7, <2>8, <2>9 DEF VersionsSound
<1>17. CounterSound'
  <2>1. CASE p = Server
    <3>1. up => Cardinality(MadeAfter(made, data)) = 0
      BY <1>1, <1>4, AfterNone DEF NothingNewer
    <3>2. twice' = "no" => ~ChildMaySucceed
      BY <2>1
    <3>3. \A c \in Children : LiveDiskChild(c)' \/ DoneDiskChild(c)' => ChildMaySucceed
      <4>1. \A c \in Children : pc'[c] = pc[c] /\ code'[c] = code[c]
        BY <1>3, <2>1
      <4> QED
        BY <1>2, <4>1 DEF LiveDiskChild, DoneDiskChild, ChildMaySucceed
    <3>4. CounterCovers'
      BY <1>2, <1>7, <1>9, <2>1, <3>1 DEF CounterCovers
    <3>5. twice' = "pending" => childType' = "disk" /\ Stopped(childPid)'
      <4>1. twice' = "pending" => childType = "disk" /\ childPid \in Children /\ Stopped(childPid)
        BY <1>1, <2>1 DEF ChildMaySucceed, ProcsSound, Saving, Stopped, TypeOK
      <4> QED
        BY <1>2, <1>3, <2>1, <4>1 DEF Stopped
    <3> QED
      BY <3>2, <3>3, <3>4, <3>5 DEF CounterSound
  <2>2. CASE p # Server
    <3>1. UNCHANGED <<up, made, dirty, dirtyBefore, twice, dump>>
      BY <1>2, <2>2
    <3>2. \A c \in Children : LiveDiskChild(c)' \/ DoneDiskChild(c)' =>
            (LiveDiskChild(c) \/ DoneDiskChild(c)) /\ snap'[c] = snap[c]
      BY <1>2, <1>3, <1>7 DEF LiveDiskChild, DoneDiskChild
    <3>3. up /\ twice # "yes" => CounterCovers'
      <4>1. ASSUME up, twice # "yes", overtaken, ~overtaken' PROVE CounterCovers'
        <5>1. /\ p = childPid /\ dump.ver = snap[p] /\ LiveDiskChild(p) /\ p \in Children
              /\ p \notin signalled
          BY <1>7, <1>9, <2>2, <4>1
        <5>2. twice = "no" /\ dirty \in Int /\ dirtyBefore \in Int
          BY <1>1, <4>1, <5>1 DEF CounterSound, Stopped, LiveDiskChild, TypeOK
        <5>3. dirty >= 0 /\ WillCover(p)
          BY <1>1, <4>1, <5>1, <5>2 DEF CounterSound, CounterCovers
        <5>4. Cardinality(MadeAfter(made, snap[p])) \in Nat
          BY <1>4, <5>1, AfterTyped
        <5> QED
          BY <3>1, <5>1, <5>2, <5>3, <5>4 DEF CounterCovers, WillCover
      <4>2. ASSUME up, twice # "yes", ~(overtaken /\ ~overtaken') PROVE CounterCovers'
        BY <1>1, <3>1, <4>2 DEF CounterSound, CounterCovers
      <4> QED
        BY <4>1, <4>2
    <3>4. twice' = "pending" => childType' = "disk" /\ Stopped(childPid)'
      BY <1>1, <1>2, <1>3, <3>1 DEF CounterSound, Stopped, TypeOK, Saving
    <3> QED
      BY <1>1, <3>1, <3>2, <3>3, <3>4 DEF CounterSound, WillCover
  <2> QED
    BY <2>1, <2>2
<1> QED
  BY <1>11, <1>12, <1>13, <1>14, <1>15, <1>16, <1>17, IInvParts DEF IInv

LEMMA SyncDirKeeps ==
  ASSUME IInv, NEW p \in Procs, SyncDir(p)
  PROVE  IInv'
<1>1. tmp[p] = NoFile
  BY DEF IInv, FilesSound, TempSound, SyncDir
<1>2. CASE Fails(p) /\ UNCHANGED tmp
  BY <1>1, <1>2, FailsKeeps DEF SyncDir, DiskStates
<1>3. CASE ~(Fails(p) /\ UNCHANGED tmp)
  BY <1>3, SyncedKeeps DEF SyncDir
<1> QED
  BY <1>2, <1>3

-----------------------------------------------------------------------------
(* Commands and the main loop. *)

\* A step that touches no save: nothing but types and waiters to be seen to.
LEMMA QuietKeeps ==
  ASSUME IInv, TypeOK', WaitersHaveAChild',
         UNCHANGED <<up, data, made, dirty, childPid, procs, files, changes, ghosts>>,
         \/ UNCHANGED <<childType, dirtyBefore>>
         \/ up /\ {childType, childType'} \subseteq {"none", "aof"}
  PROVE  IInv'
<1>1. /\ TypeOK /\ WaitersHaveAChild /\ ProcsSound /\ FilesSound /\ NothingNewer
      /\ VersionsSound /\ CounterSound
  BY IInvParts
<1>2. UNCHANGED <<up, data, made, dirty, childPid, pc, code, snap, signalled, tmp, dump,
                  onDisk, changes, acked, twice, overtaken, left>>
  BY DEF procs, files, ghosts
<1>3. /\ Saving' <=> Saving
      /\ childType' = "disk" <=> childType = "disk"
      /\ childType' = "socket" <=> childType = "socket"
      /\ childType = "none" => ~Saving
      /\ Saving => dirtyBefore' = dirtyBefore
      /\ up \/ childType' = childType
  BY DEF Saving
<1>4. ProcsSound'
  BY <1>1, <1>2, <1>3 DEF ProcsSound, TypeOK
<1>5. FilesSound'
  BY <1>1, <1>2 DEF FilesSound, TempSound, Content, DumpIsWhole
<1>6. NothingNewer'
  BY <1>1, <1>2 DEF NothingNewer
<1>7. \A c \in Children : /\ LiveDiskChild(c)' <=> LiveDiskChild(c)
                          /\ DoneDiskChild(c)' <=> DoneDiskChild(c)
                          /\ LiveDiskChild(c) \/ DoneDiskChild(c) => Saving
  BY <1>2, <1>3 DEF LiveDiskChild, DoneDiskChild, Saving
<1>8. VersionsSound'
  BY <1>1, <1>2, <1>3, <1>7 DEF VersionsSound, SavedSurvives
<1>9. CounterSound'
  BY <1>1, <1>2, <1>3, <1>7 DEF CounterSound, CounterCovers, WillCover, Stopped
<1> QED
  BY <1>4, <1>5, <1>6, <1>8, <1>9, IInvParts DEF IInv

LEMMA ChangeKeeps ==
  ASSUME IInv, Change
  PROVE  IInv'
<1>1. /\ TypeOK /\ WaitersHaveAChild /\ ProcsSound /\ FilesSound /\ NothingNewer
      /\ VersionsSound /\ CounterSound
  BY IInvParts
<1>2. /\ up /\ pc[Server] = "idle"
      /\ changes' = changes + 1 /\ data' = changes + 1 /\ changes + 1 \in 1 .. MaxChanges
      /\ made' = made \cup {changes + 1} /\ dirty' = dirty + 1
      /\ UNCHANGED <<up, dirtyBefore, scheduled, childType, childPid, replstate, conns,
                     pipe, pc, code, snap, signalled, tmp, dump, onDisk, crashes,
                     acked, twice, overtaken, left>>
  BY <1>1 DEF Change, Ready, TypeOK, transfer, procs, files, ghosts
<1>3. /\ data \in Int /\ changes \in Int /\ acked \in Int /\ dump.ver \in Int
      /\ \A c \in Children : snap[c] \in Int
      /\ \A f \in onDisk : f.ver \in Int
      /\ made \in SUBSET (1 .. MaxChanges)
  BY <1>1, VersionTyped DEF TypeOK
<1>4. data < data'
  BY <1>1, <1>2, <1>3 DEF NothingNewer
<1>11. TypeOK'
  BY <1>1, <1>2 DEF TypeOK, Saving
<1>12. WaitersHaveAChild'
  BY <1>1, <1>2 DEF WaitersHaveAChild
<1>13. ProcsSound'
  BY <1>1, <1>2 DEF ProcsSound, Saving
<1>14. FilesSound'
  <2>1. \A q \in Procs : TempSound(q)'
    BY <1>1, <1>2 DEF FilesSound, TempSound, Content
  <2> QED
    BY <1>1, <1>2, <2>1 DEF FilesSound, DumpIsWhole
<1>15. NothingNewer'
  BY <1>1, <1>2, <1>3 DEF NothingNewer
<1>16. VersionsSound'
  BY <1>1, <1>2, <1>3, <1>4
  DEF VersionsSound, SavedSurvives, LiveDiskChild, DoneDiskChild, Saving, TypeOK
<1>17. CounterSound'
  <2>1. \A v \in Int : /\ Cardinality(MadeAfter(made', v)) <= Cardinality(MadeAfter(made, v)) + 1
                       /\ Cardinality(MadeAfter(made, v)) \in Nat
                       /\ Cardinality(MadeAfter(made', v)) \in Nat
    BY <1>2, <1>3, AfterGrows, AfterTyped
  <2>2. dirty \in Int /\ dirtyBefore \in Int
    BY <1>1 DEF TypeOK
  <2>3. \A c \in Children : /\ LiveDiskChild(c)' <=> LiveDiskChild(c)
                            /\ DoneDiskChild(c)' <=> DoneDiskChild(c)
    BY <1>2 DEF LiveDiskChild, DoneDiskChild
  <2>4. ASSUME up', twice' # "yes"
        PROVE  CounterCovers'
    <3>1. dirty >= 0 /\ (~overtaken => Cardinality(MadeAfter(made, dump.ver)) <= dirty)
      BY <1>1, <1>2, <2>4 DEF CounterSound, CounterCovers
    <3>2. /\ Cardinality(MadeAfter(made', dump.ver)) <= Cardinality(MadeAfter(made, dump.ver)) + 1
          /\ Cardinality(MadeAfter(made, dump.ver)) \in Nat
          /\ Cardinality(MadeAfter(made', dump.ver)) \in Nat
      BY <1>3, <2>1
    <3> QED
      BY <1>2, <2>2, <3>1, <3>2 DEF CounterCovers
  <2>5. ASSUME up', twice' = "no", NEW c \in Children, LiveDiskChild(c)' \/ DoneDiskChild(c)'
        PROVE  WillCover(c)'
    <3>1. /\ dirtyBefore >= 0
          /\ Cardinality(MadeAfter(made, snap[c])) <= dirty - dirtyBefore
      BY <1>1, <1>2, <2>3, <2>5 DEF CounterSound, WillCover
    <3>2. Cardinality(MadeAfter(made', snap[c])) <= Cardinality(MadeAfter(made, snap[c])) + 1
      BY <1>3, <2>1
    <3>3. Cardinality(MadeAfter(made, snap[c])) \in Nat /\ Cardinality(MadeAfter(made', snap[c])) \in Nat
      BY <1>3, <2>1
    <3> QED
      BY <1>2, <2>2, <3>1, <3>2, <3>3 DEF WillCover
  <2>6. twice' = "pending" => childType' = "disk" /\ Stopped(childPid)'
    BY <1>1, <1>2 DEF CounterSound, Stopped
  <2> QED
    BY <2>4, <2>5, <2>6 DEF CounterSound
<1> QED
  BY <1>11, <1>12, <1>13, <1>14, <1>15, <1>16, <1>17, IInvParts DEF IInv

LEMMA SaveCommandKeeps ==
  ASSUME IInv, SaveCommand
  PROVE  IInv'
<1>1. /\ TypeOK /\ WaitersHaveAChild /\ ProcsSound /\ FilesSound /\ NothingNewer
      /\ VersionsSound /\ CounterSound
  BY IInvParts
<1>2. /\ pc' \in [Procs -> {"idle", "open", "write", "flush", "rename", "sync",
                             "stream", "hold", "exited"}]
      /\ \A q \in Procs : pc'[q] = IF q = Server THEN "open" ELSE pc[q]
      /\ UNCHANGED <<up, data, made, dirty, dirtyBefore, scheduled, childType,
                     childPid, replstate, conns, pipe, code, snap, signalled,
                     changes, crashes>>
  BY <1>1, GoesFacts DEF DiskStates, SaveCommand
<1>3. /\ up /\ ~Saving /\ pc[Server] = "idle"
      /\ UNCHANGED <<tmp, dump, onDisk, acked, twice, overtaken, left>>
  BY DEF SaveCommand, Ready, MaySave, files, ghosts
<1>11. TypeOK'
  BY <1>1, <1>2, <1>3 DEF TypeOK, Saving
<1>12. WaitersHaveAChild'
  BY <1>1, <1>2 DEF WaitersHaveAChild
<1>13. ProcsSound'
  <2>1. childType \notin {"disk", "socket"} /\ ~Saving'
    BY <1>2, <1>3 DEF Saving
  <2> QED
    BY <1>1, <1>2, <1>3, <2>1 DEF ProcsSound, DiskStates
<1>14. FilesSound'
  <2>1. \A q \in Procs : TempSound(q)'
    BY <1>1, <1>2, <1>3 DEF FilesSound, TempSound, Content
  <2> QED
    BY <1>1, <1>3, <2>1 DEF FilesSound, DumpIsWhole
<1>15. NothingNewer'
  BY <1>1, <1>2, <1>3 DEF NothingNewer
<1>16. VersionsSound'
  BY <1>1, <1>2, <1>3
  DEF VersionsSound, SavedSurvives, LiveDiskChild, DoneDiskChild, Saving
<1>17. CounterSound'
  BY <1>1, <1>2, <1>3
  DEF CounterSound, CounterCovers, WillCover, Saving, LiveDiskChild, DoneDiskChild
<1> QED
  BY <1>11, <1>12, <1>13, <1>14, <1>15, <1>16, <1>17, IInvParts DEF IInv

\* A new child has the data as they are, and the counter of now.
LEMMA ForkedKeeps ==
  ASSUME IInv, Ready, childType = "none", NEW c \in Children, NEW at, NEW type,
         Forked(c, at, type),
         \/ type = "disk" /\ at = "open" /\ dirtyBefore' = dirty
         \/ type = "socket" /\ at = "stream" /\ dirtyBefore' = dirtyBefore,
         UNCHANGED <<up, data, made, dirty, files, bounds, ghosts>>,
         scheduled' \in BOOLEAN, replstate' \in [Replicas -> {"off", "start", "end", "online"}],
         conns' \subseteq Replicas, pipe' \in [Children -> Ends],
         WaitersHaveAChild'
  PROVE  IInv'
<1>1. /\ TypeOK /\ WaitersHaveAChild /\ ProcsSound /\ FilesSound /\ NothingNewer
      /\ VersionsSound /\ CounterSound
  BY IInvParts
<1>2. /\ up /\ pc[Server] = "idle" /\ pc[c] = "idle" /\ ~Saving /\ c # Server
      /\ UNCHANGED <<up, data, made, dirty, code, tmp, dump, onDisk, changes, crashes,
                     acked, twice, overtaken, left, signalled>>
      /\ signalled = {}
      /\ childType' = type /\ childPid' = c
      /\ type \in {"disk", "socket"} /\ dirtyBefore' \in Int
  BY <1>1 DEF Ready, Forked, files, bounds, ghosts, Saving, TypeOK, ProcsSound
<1>3. /\ pc' \in [Procs -> {"idle", "open", "write", "flush", "rename", "sync",
                             "stream", "hold", "exited"}]
      /\ \A q \in Procs : pc'[q] = IF q = c THEN at ELSE pc[q]
      /\ snap' \in [Children -> 0 .. MaxChanges]
      /\ \A q \in Children : snap'[q] = IF q = c THEN data ELSE snap[q]
  BY <1>1 DEF Forked, TypeOK
<1>4. \A q \in Children : pc'[q] # "exited"
  BY <1>1, <1>2, <1>3 DEF ProcsSound
<1>11. TypeOK'
  BY <1>1, <1>2, <1>3 DEF TypeOK, Saving
<1>13. ProcsSound'
  BY <1>1, <1>2, <1>3, <1>4 DEF ProcsSound, Saving, DiskStates, SocketStates
<1>14. FilesSound'
  <2>1. \A q \in Procs : TempSound(q)'
    BY <1>1, <1>2, <1>3, <1>4 DEF FilesSound, TempSound, Content
  <2> QED
    BY <1>1, <1>2, <2>1 DEF FilesSound, DumpIsWhole
<1>15. NothingNewer'
  BY <1>1, <1>2, <1>3 DEF NothingNewer
<1>16. VersionsSound'
  BY <1>1, <1>2, <1>3, <1>4
  DEF VersionsSound, SavedSurvives, LiveDiskChild, DoneDiskChild, Saving, TypeOK
<1>17. CounterSound'
  <2>1. Cardinality(MadeAfter(made, data)) = 0
    BY <1>1, <1>2, AfterNone DEF NothingNewer, TypeOK
  <2>2. \A q \in Children : ~DoneDiskChild(q)'
    BY <1>4 DEF DoneDiskChild
  <2>3. \A q \in Children : LiveDiskChild(q)' =>
          dirtyBefore' = dirty /\ snap'[q] = data
    BY <1>2, <1>3 DEF LiveDiskChild
  <2>4. ASSUME up', twice' # "yes"
        PROVE  CounterCovers' /\ dirty' >= 0 /\ dirty \in Int
    BY <1>1, <1>2, <2>4 DEF CounterSound, CounterCovers, TypeOK
  <2>5. ASSUME up', twice' = "no", NEW q \in Children, LiveDiskChild(q)'
        PROVE  WillCover(q)'
    BY <1>2, <2>1, <2>3, <2>4, <2>5 DEF WillCover
  <2>6. twice' # "pending"
    BY <1>1, <1>2 DEF CounterSound, Saving
  <2> QED
    BY <2>2, <2>4, <2>5, <2>6 DEF CounterSound
<1> QED
  BY <1>11, <1>13, <1>14, <1>15, <1>16, <1>17, IInvParts DEF IInv

\* rdbSaveBackground()
LEMMA BackgroundKeeps ==
  ASSUME IInv, Ready, childType = "none", SaveBackground, scheduled' \in BOOLEAN
  PROVE  IInv'
<1>1. TypeOK /\ WaitersHaveAChild
  BY IInvParts
<1>2. dirtyBefore' = dirty /\ dirty \in Int
      /\ UNCHANGED <<up, data, made, dirty, replstate, conns, pipe, files, bounds, ghosts>>
  BY <1>1 DEF SaveBackground, transfer, TypeOK
<1>3. CASE \E c \in Children : Forked(c, "open", "disk")
  <2>1. PICK c \in Children : Forked(c, "open", "disk")
    BY <1>3
  <2>2. WaitersHaveAChild'
    BY <1>1, <1>2 DEF WaitersHaveAChild, TypeOK
  <2>3. /\ replstate' \in [Replicas -> {"off", "start", "end", "online"}]
        /\ conns' \subseteq Replicas /\ pipe' \in [Children -> Ends]
    BY <1>1, <1>2 DEF TypeOK
  <2> QED
    BY <1>2, <2>1, <2>2, <2>3, ForkedKeeps
<1>4. CASE UNCHANGED <<procs, childType, childPid>>
  <2>1. TypeOK'
    BY <1>1, <1>2, <1>4 DEF TypeOK, Saving, procs, files, bounds, ghosts
  <2>2. WaitersHaveAChild'
    BY <1>1, <1>2, <1>4 DEF WaitersHaveAChild
  <2>3. up /\ {childType, childType'} \subseteq {"none", "aof"} /\ UNCHANGED changes
    BY <1>2, <1>4 DEF Ready, bounds
  <2> QED
    BY <1>2, <1>4, <2>1, <2>2, <2>3, QuietKeeps
<1> QED
  BY <1>3, <1>4 DEF SaveBackground

LEMMA BgsaveKeeps ==
  ASSUME IInv, NEW schedule \in BOOLEAN, NEW inExec \in BOOLEAN,
         BgsaveCommand(schedule, inExec)
  PROVE  IInv'
<1>1. TypeOK /\ WaitersHaveAChild
  BY IInvParts
<1>2. CASE childType = "none" /\ ~inExec
  BY <1>1, <1>2, BackgroundKeeps DEF BgsaveCommand, TypeOK
<1>3. CASE ~(childType = "none" /\ ~inExec)
  <2>1. /\ scheduled' = TRUE
        /\ UNCHANGED <<up, data, made, dirty, dirtyBefore, childType, childPid,
                       transfer, procs, files, bounds, ghosts>>
    BY <1>3 DEF BgsaveCommand
  <2>2. TypeOK'
    BY <1>1, <2>1 DEF TypeOK, Saving, transfer, procs, files, bounds, ghosts
  <2>3. WaitersHaveAChild' /\ UNCHANGED changes
    BY <1>1, <2>1 DEF WaitersHaveAChild, transfer, bounds
  <2> QED
    BY <2>1, <2>2, <2>3, QuietKeeps
<1> QED
  BY <1>2, <1>3

LEMMA ScheduledKeeps ==
  ASSUME IInv, ScheduledSave
  PROVE  IInv'
<1>1. scheduled' \in BOOLEAN
  BY DEF ScheduledSave
<1> QED
  BY <1>1, BackgroundKeeps DEF ScheduledSave

LEMMA OtherChildKeeps ==
  ASSUME IInv, OtherChild
  PROVE  IInv'
<1>1. TypeOK /\ WaitersHaveAChild /\ up
  BY IInvParts DEF OtherChild, Ready
<1>2. /\ {childType, childType'} \subseteq {"none", "aof"}
      /\ UNCHANGED <<up, data, made, dirty, dirtyBefore, scheduled, childPid,
                     transfer, procs, files, bounds, ghosts>>
  BY DEF OtherChild
<1>3. TypeOK'
  BY <1>1, <1>2 DEF TypeOK, Saving, transfer, procs, files, bounds, ghosts
<1>4. WaitersHaveAChild' /\ UNCHANGED changes
  BY <1>1, <1>2 DEF WaitersHaveAChild, transfer, bounds
<1> QED
  BY <1>1, <1>2, <1>3, <1>4, QuietKeeps

LEMMA AttachKeeps ==
  ASSUME IInv, NEW r \in Replicas, Attach(r)
  PROVE  IInv'
<1>1. TypeOK /\ WaitersHaveAChild
  BY IInvParts
<1>2. /\ replstate' = [replstate EXCEPT ![r] = "start"]
      /\ UNCHANGED <<up, data, made, dirty, dirtyBefore, scheduled, childType, childPid,
                     conns, pipe, procs, files, bounds, ghosts>>
  BY DEF Attach, memory
<1>3. TypeOK'
  BY <1>1, <1>2 DEF TypeOK, Saving, procs, files, bounds, ghosts
<1>4. WaitersHaveAChild' /\ UNCHANGED changes
  BY <1>1, <1>2 DEF WaitersHaveAChild, TypeOK, bounds
<1> QED
  BY <1>2, <1>3, <1>4, QuietKeeps

LEMMA ClosedTyped ==
  ASSUME NEW pp \in [Children -> Ends], NEW p
  PROVE  Closed(pp, p) \in [Children -> Ends]
<1>1. ASSUME NEW c \in Children
      PROVE  [readers |-> pp[c].readers \ {p}, writers |-> pp[c].writers \ {p},
              exit |-> pp[c].exit \ {p}] \in Ends
  <2>1. pp[c] \in Ends
    OBVIOUS
  <2> QED
    BY <2>1 DEF Ends
<1> QED
  BY <1>1 DEF Closed

LEMMA PipeEofKeeps ==
  ASSUME IInv, PipeEof
  PROVE  IInv'
<1>1. TypeOK /\ WaitersHaveAChild
  BY IInvParts
<1>2. /\ conns' = {} /\ pipe' = Closed(pipe, Server)
      /\ UNCHANGED <<up, data, made, dirty, dirtyBefore, scheduled, childType, childPid,
                     replstate, procs, files, bounds, ghosts>>
  BY DEF PipeEof, memory
<1>3. pipe' \in [Children -> Ends]
  BY <1>1, <1>2, ClosedTyped DEF TypeOK
<1>4. TypeOK'
  BY <1>1, <1>2, <1>3 DEF TypeOK, Saving, procs, files, bounds, ghosts
<1>5. WaitersHaveAChild' /\ UNCHANGED changes
  BY <1>1, <1>2 DEF WaitersHaveAChild, bounds
<1> QED
  BY <1>2, <1>4, <1>5, QuietKeeps

-----------------------------------------------------------------------------
(* The transfer to replicas. *)

LEMMA SaveToSlavesKeeps ==
  ASSUME IInv, NEW req, SaveToSlaves(req)
  PROVE  IInv'
<1>1. TypeOK /\ WaitersHaveAChild
  BY IInvParts
<1>2. /\ Ready /\ up /\ childType = "none"
      /\ UNCHANGED <<up, data, made, dirty, dirtyBefore, scheduled, files, bounds, ghosts>>
  BY DEF SaveToSlaves, Ready
<1>3. \A r \in Replicas : replstate[r] # "end"
  BY <1>1, <1>2 DEF WaitersHaveAChild
<1>4. CASE \E c \in Children :
             /\ Forked(c, "stream", "socket")
             /\ pipe' = [pipe EXCEPT ![c] = PipesOf(c)]
             /\ conns' = Waiting(req) /\ replstate' = SetUp(req)
  <2>1. PICK c \in Children :
          /\ Forked(c, "stream", "socket")
          /\ pipe' = [pipe EXCEPT ![c] = PipesOf(c)]
          /\ conns' = Waiting(req) /\ replstate' = SetUp(req)
    BY <1>4
  <2>2. PipesOf(c) \in Ends
    BY DEF PipesOf, Ends
  <2>3. /\ pipe' \in [Children -> Ends] /\ conns' \subseteq Replicas
        /\ replstate' \in [Replicas -> {"off", "start", "end", "online"}]
        /\ scheduled' \in BOOLEAN
    BY <1>1, <1>2, <2>1, <2>2 DEF TypeOK, Waiting, SetUp
  <2>4. WaitersHaveAChild'
    BY <2>1 DEF WaitersHaveAChild, Forked
  <2> QED
    BY <1>2, <2>1, <2>3, <2>4, ForkedKeeps
<1>5. CASE /\ replstate' = Dropped(replstate) \/ replstate' = Dropped(Undone(SetUp(req)))
           /\ UNCHANGED <<conns, pipe, procs, childType, childPid>>
  <2>1. /\ replstate' \in [Replicas -> {"off", "start", "end", "online"}]
        /\ \A r \in Replicas : replstate'[r] # "end"
    <3>1. CASE replstate' = Dropped(replstate)
      BY <1>1, <1>3, <3>1 DEF Dropped, TypeOK
    <3>2. CASE replstate' = Dropped(Undone(SetUp(req)))
      <4>1. /\ SetUp(req) \in [Replicas -> {"off", "start", "end", "online"}]
        BY <1>1 DEF SetUp, TypeOK
      <4>2. /\ Undone(SetUp(req)) \in [Replicas -> {"off", "start", "end", "online"}]
            /\ \A r \in Replicas : Undone(SetUp(req))[r] # "end"
        BY <4>1 DEF Undone
      <4> QED
        BY <3>2, <4>2 DEF Dropped
    <3> QED
      BY <1>5, <3>1, <3>2
  <2>2. TypeOK'
    BY <1>1, <1>2, <1>5, <2>1 DEF TypeOK, Saving, procs, files, bounds, ghosts
  <2>3. WaitersHaveAChild' /\ UNCHANGED changes
    BY <1>2, <2>1 DEF WaitersHaveAChild, bounds
  <2> QED
    BY <1>2, <1>5, <2>2, <2>3, QuietKeeps
<1> QED
  BY <1>4, <1>5 DEF SaveToSlaves

LEMMA StreamKeeps ==
  ASSUME IInv, NEW c \in Children, Stream(c)
  PROVE  IInv'
<1>1. /\ TypeOK /\ WaitersHaveAChild /\ ProcsSound /\ FilesSound /\ NothingNewer
      /\ VersionsSound /\ CounterSound
  BY IInvParts
<1>2. /\ UNCHANGED <<up, data, made, dirty, dirtyBefore, scheduled, childType, childPid,
                     replstate, conns, snap, signalled, tmp, dump, onDisk, changes,
                     crashes, acked, twice, overtaken, left>>
      /\ pc[c] = "stream" /\ c # Server
  BY DEF Stream, memory, files, bounds, ghosts
<1>3. /\ pc' \in [Procs -> {"idle", "open", "write", "flush", "rename", "sync",
                             "stream", "hold", "exited"}]
      /\ \A q \in Procs : pc'[q] = IF q = c THEN "hold" ELSE pc[q]
      /\ code' \in [Children -> {"ok", "error", "signal", "usr1"}]
      /\ \A q \in Children : q # c => code'[q] = code[q]
  BY <1>1 DEF Stream, TypeOK
<1>4. pipe' \in [Children -> Ends]
  <2>1. pipe[c] \in Ends
    BY <1>1 DEF TypeOK
  <2>2. [pipe[c] EXCEPT !.writers = @ \ {c}, !.exit = @ \ {c}] \in Ends
    BY <2>1 DEF Ends
  <2>3. pipe' = [pipe EXCEPT ![c] = [pipe[c] EXCEPT !.writers = @ \ {c}, !.exit = @ \ {c}]]
    BY <1>1, <2>1 DEF Stream, Streamed, TypeOK, Ends
  <2> QED
    BY <1>1, <2>2, <2>3 DEF TypeOK
<1>11. TypeOK'
  BY <1>1, <1>2, <1>3, <1>4 DEF TypeOK, Saving
<1>12. WaitersHaveAChild'
  BY <1>1, <1>2 DEF WaitersHaveAChild
<1>13. ProcsSound'
  BY <1>1, <1>2, <1>3 DEF ProcsSound, Saving, TypeOK, DiskStates, SocketStates
<1>14. FilesSound'
  <2>1. \A q \in Procs : TempSound(q)'
    BY <1>1, <1>2, <1>3 DEF FilesSound, TempSound, Content
  <2> QED
    BY <1>1, <1>2, <2>1 DEF FilesSound, DumpIsWhole
<1>15. NothingNewer'
  BY <1>1, <1>2 DEF NothingNewer
<1>16. \A q \in Children : /\ LiveDiskChild(q)' => LiveDiskChild(q)
                           /\ DoneDiskChild(q)' => DoneDiskChild(q)
                           /\ pc'[q] = "sync" => pc[q] = "sync"
  BY <1>2, <1>3 DEF LiveDiskChild, DoneDiskChild
<1>17. VersionsSound'
  BY <1>1, <1>2, <1>3, <1>16 DEF VersionsSound, SavedSurvives, Saving
<1>18. CounterSound'
  BY <1>1, <1>2, <1>3, <1>16 DEF CounterSound, CounterCovers, WillCover, Stopped, Saving, TypeOK
<1> QED
  BY <1>11, <1>12, <1>13, <1>14, <1>15, <1>17, <1>18, IInvParts DEF IInv

LEMMA HoldKeeps ==
  ASSUME IInv, NEW c \in Children, Hold(c)
  PROVE  IInv'
<1>1. TypeOK /\ ProcsSound /\ FilesSound
  BY IInvParts
<1>2. /\ pc[c] = "hold" /\ Ended(c, code[c]) /\ (tmp[c] = NoFile \/ c \in left)
      /\ code[c] \in {"ok", "error", "signal", "usr1"}
  BY <1>1 DEF Hold, FilesSound, TempSound, TypeOK
<1>3. childType # "disk" \/ c # childPid
  BY <1>1, <1>2 DEF ProcsSound, DiskStates
<1>4. /\ UNCHANGED <<up, memory, replstate, conns, dump, onDisk, bounds,
                     acked, twice, overtaken>>
      /\ pipe' \in [Children -> Ends]
      /\ tmp' = tmp /\ tmp' \in [Procs -> Files]
      /\ left' = left /\ left' \subseteq Procs
  BY <1>1 DEF Hold, transfer, files, ghosts, TypeOK
<1> QED
  BY <1>2, <1>3, <1>4, EndsKeeps

LEMMA TornTyped == Torn \in Files /\ NoFile \in Files
  BY DEF Torn, NoFile, File, Files

LEMMA ChildDiesKeeps ==
  ASSUME IInv, NEW c \in Children, ChildDies(c)
  PROVE  IInv'
<1>1. TypeOK /\ ProcsSound
  BY IInvParts
<1>2. PICK how \in {"signal", "usr1"} : Ended(c, how)
  BY DEF ChildDies
<1>3. /\ pc[c] \notin {"idle", "exited"}
      /\ UNCHANGED <<up, memory, replstate, conns, dump, onDisk, bounds,
                     acked, twice, overtaken>>
      /\ Abandoned(IF Orphan(c) /\ tmp[c] # NoFile THEN {c} ELSE {})
  BY DEF ChildDies
<1>4. pipe' \in [Children -> Ends]
  BY <1>1, ClosedTyped DEF ChildDies, TypeOK
<1>5. /\ left \subseteq left' /\ left' \subseteq Procs
      /\ tmp' \in [Procs -> Files] /\ \A q \in Procs : q # c => tmp'[q] = tmp[q]
      /\ tmp'[c] = NoFile \/ c \in left' \/ (tmp'[c] = tmp[c] /\ c = childPid)
  <2>1. CASE Orphan(c) /\ tmp[c] # NoFile
    <3>1. left' = left \cup {c} /\ tmp' = [p \in Procs |-> IF p \in {c} THEN Torn ELSE tmp[p]]
      BY <1>3, <2>1 DEF Abandoned
    <3> QED
      BY <1>1, <3>1, TornTyped DEF TypeOK
  <2>2. CASE ~(Orphan(c) /\ tmp[c] # NoFile)
    <3>1. left' = left /\ tmp' = [p \in Procs |-> IF p \in {} THEN Torn ELSE tmp[p]]
      BY <1>3, <2>2 DEF Abandoned
    <3>2. Orphan(c) \/ c = childPid
      BY <1>1, OrphanIs
    <3> QED
      BY <1>1, <2>2, <3>1, <3>2 DEF TypeOK
  <2> QED
    BY <2>1, <2>2
<1> QED
  BY <1>2, <1>3, <1>4, <1>5, EndsKeeps

-----------------------------------------------------------------------------
(* FLUSHALL and the end of a child. *)

LEMMA FlushAllKeeps ==
  ASSUME IInv, NEW removes \in 0 .. 1, NEW savePoints \in BOOLEAN,
         FlushAll(removes, savePoints)
  PROVE  IInv'
<1>1. /\ TypeOK /\ WaitersHaveAChild /\ ProcsSound /\ FilesSound /\ NothingNewer
      /\ VersionsSound /\ CounterSound
  BY IInvParts
<1>2. /\ up /\ pc[Server] = "idle"
      /\ changes' = changes + removes /\ changes' \in 0 .. MaxChanges
      /\ dirty' = dirty + removes
      /\ removes = 0 => UNCHANGED <<data, made, changes, dirty>>
      /\ removes = 1 => /\ data' = changes + 1 /\ changes + 1 \in 1 .. MaxChanges
                        /\ made' = made \cup {changes + 1}
      /\ UNCHANGED <<up, dirtyBefore, scheduled, childType, childPid, replstate, conns,
                     pipe, code, snap, tmp, dump, onDisk, crashes, acked, twice,
                     overtaken, left>>
  BY <1>1 DEF FlushAll, Ready, TypeOK, transfer, files, ghosts
\* The child that still saves is told to end.
<1>3. /\ pc' \in [Procs -> {"idle", "open", "write", "flush", "rename", "sync",
                             "stream", "hold", "exited"}]
      /\ pc'[Server] \in {"idle", "open"}
      /\ \A c \in Children : pc'[c] = pc[c]
  BY <1>1 DEF FlushAll, TypeOK
<1>4. /\ signalled \subseteq signalled' /\ signalled' \subseteq Children
      /\ \A c \in signalled' : Saving /\ c = childPid /\ pc[c] # "exited"
      /\ Saving => pc[childPid] = "exited" \/ childPid \in signalled'
  <2>1. signalled' = IF Saving THEN Killed ELSE signalled
    BY DEF FlushAll
  <2> QED
    BY <1>1, <2>1 DEF Killed, ProcsSound, TypeOK
<1>5. /\ data \in Int /\ changes \in Int /\ acked \in Int /\ dump.ver \in Int
      /\ \A c \in Children : snap[c] \in Int
      /\ \A f \in onDisk : f.ver \in Int
      /\ made \in SUBSET (1 .. MaxChanges)
      /\ dirty \in Int /\ dirtyBefore \in Int
  BY <1>1, VersionTyped DEF TypeOK
<1>6. data <= data' /\ changes <= changes' /\ removes \in Int /\ data' \in 0 .. MaxChanges
  BY <1>1, <1>2, <1>5 DEF NothingNewer, TypeOK
<1>7. \A c \in Children : /\ LiveDiskChild(c)' => LiveDiskChild(c)
                          /\ DoneDiskChild(c)' => DoneDiskChild(c)
  BY <1>2, <1>3 DEF LiveDiskChild, DoneDiskChild
<1>11. TypeOK'
  <2>1. made' \subseteq 1 .. MaxChanges /\ dirty' \in Int
    <3>1. CASE removes = 0
      BY <1>2, <1>5, <3>1
    <3>2. CASE removes = 1
      <4>1. made' = made \cup {changes + 1} /\ changes + 1 \in 1 .. MaxChanges
        BY <1>2, <3>2
      <4> QED
        BY <1>2, <1>5, <3>2, <4>1
    <3> QED
      BY <3>1, <3>2
  <2> QED
    BY <1>1, <1>2, <1>3, <1>4, <1>6, <2>1 DEF TypeOK, Saving
<1>12. WaitersHaveAChild'
  BY <1>1, <1>2 DEF WaitersHaveAChild
<1>13. ProcsSound'
  BY <1>1, <1>2, <1>3, <1>4 DEF ProcsSound, Saving, DiskStates, SocketStates, TypeOK
<1>14. FilesSound'
  <2>1. TempSound(Server)'
    BY <1>1, <1>2, <1>3 DEF FilesSound, TempSound
  <2>2. ASSUME NEW c \in Children PROVE TempSound(c)'
    BY <1>1, <1>2, <1>3 DEF FilesSound, TempSound, Content
  <2> QED
    BY <1>1, <1>2, <2>1, <2>2 DEF FilesSound, DumpIsWhole
<1>15. NothingNewer'
  <2>1. up' => made' \subseteq 1 .. data'
    <3>1. CASE removes = 0
      BY <1>1, <1>2, <3>1 DEF NothingNewer
    <3>2. CASE removes = 1
      <4>1. made \subseteq 1 .. data /\ data <= changes /\ made' = made \cup {changes + 1}
        BY <1>1, <1>2, <3>2 DEF NothingNewer
      <4> QED
        BY <1>2, <1>5, <3>2, <4>1
    <3> QED
      BY <3>1, <3>2
  <2> QED
    BY <1>1, <1>2, <1>5, <1>6, <2>1 DEF NothingNewer
<1>16. VersionsSound'
  <2>1. Saving' <=> Saving
    BY <1>2 DEF Saving
  <2>2. Saving => childPid \in Children
    BY <1>1 DEF TypeOK
  <2> QED
    BY <1>1, <1>2, <1>3, <1>4, <1>5, <1>6, <1>7, <2>1, <2>2 DEF VersionsSound, SavedSurvives
<1>17. CounterSound'
  <2>1. \A v \in Int : /\ Cardinality(MadeAfter(made', v)) <= Cardinality(MadeAfter(made, v)) + removes
                       /\ Cardinality(MadeAfter(made, v)) \in Nat
                       /\ Cardinality(MadeAfter(made', v)) \in Nat
    <3>1. CASE removes = 0
      BY <1>2, <1>5, <3>1, AfterTyped
    <3>2. CASE removes = 1
      BY <1>2, <1>5, <3>2, AfterGrows, AfterTyped
    <3> QED
      BY <3>1, <3>2
  <2>2. ASSUME up', twice' # "yes"
        PROVE  CounterCovers'
    <3>1. dirty >= 0 /\ (~overtaken => Cardinality(MadeAfter(made, dump.ver)) <= dirty)
      BY <1>1, <1>2, <2>2 DEF CounterSound, CounterCovers
    <3>2. /\ Cardinality(MadeAfter(made', dump.ver)) <= Cardinality(MadeAfter(made, dump.ver)) + removes
          /\ Cardinality(MadeAfter(made, dump.ver)) \in Nat
          /\ Cardinality(MadeAfter(made', dump.ver)) \in Nat
      BY <1>5, <2>1
    <3> QED
      BY <1>2, <1>5, <3>1, <3>2 DEF CounterCovers
  <2>3. ASSUME up', twice' = "no", NEW c \in Children, LiveDiskChild(c)' \/ DoneDiskChild(c)'
        PROVE  WillCover(c)'
    <3>1. /\ dirtyBefore >= 0
          /\ Cardinality(MadeAfter(made, snap[c])) <= dirty - dirtyBefore
      BY <1>1, <1>2, <1>7, <2>3 DEF CounterSound, WillCover
    <3>2. /\ Cardinality(MadeAfter(made', snap[c])) <= Cardinality(MadeAfter(made, snap[c])) + removes
          /\ Cardinality(MadeAfter(made, snap[c])) \in Nat
          /\ Cardinality(MadeAfter(made', snap[c])) \in Nat
      BY <1>5, <2>1
    <3> QED
      BY <1>2, <1>5, <3>1, <3>2 DEF WillCover
  <2>4. twice' = "pending" => childType' = "disk" /\ Stopped(childPid)'
    BY <1>1, <1>2, <1>3, <1>4 DEF CounterSound, Stopped, TypeOK, Saving
  <2> QED
    BY <2>2, <2>3, <2>4 DEF CounterSound
<1> QED
  BY <1>11, <1>12, <1>13, <1>14, <1>15, <1>16, <1>17, IInvParts DEF IInv

\* The child that is waited for is gone, with its file unless an earlier process
\* of its id had left it.
LEMMA ReapKeeps ==
  ASSUME IInv, Reap
  PROVE  IInv'
<1>1. /\ TypeOK /\ WaitersHaveAChild /\ ProcsSound /\ FilesSound /\ NothingNewer
      /\ VersionsSound /\ CounterSound
  BY IInvParts
<1> DEFINE c == childPid
<1>2. /\ up /\ pc[Server] = "idle" /\ Saving /\ c \in Children /\ pc[c] = "exited"
      /\ childType' = "none" /\ childPid' = "none" /\ ~Saving'
      /\ UNCHANGED <<up, data, made, dirtyBefore, scheduled, signalled, dump, onDisk,
                     changes, crashes, overtaken, left>>
      /\ signalled = {}
      /\ twice' \in {"no", "pending", "yes"}
      /\ twice' = "pending" => twice = "pending" /\ childType = "socket"
      /\ twice' # "yes" => twice = "no" \/ (twice = "pending" /\ ~DoneDiskChild(c))
  <2>1. /\ up /\ pc[Server] = "idle" /\ Saving /\ c \in Children /\ pc[c] = "exited"
        /\ childType' = "none" /\ childPid' = "none" /\ ~Saving'
        /\ UNCHANGED <<up, data, made, dirtyBefore, scheduled, signalled, dump, onDisk,
                       changes, crashes, overtaken, left>>
    BY <1>1 DEF Reap, Ready, bounds, Saving, TypeOK
  <2>2. signalled = {}
    BY <1>1, <2>1 DEF ProcsSound
  <2>3. CASE childType = "disk"
    <3>1. twice' = IF twice # "pending" THEN twice ELSE IF code[c] = "ok" THEN "yes" ELSE "no"
      BY <2>3 DEF Reap, DiskDone
    <3> QED
      BY <1>1, <2>1, <2>2, <2>3, <3>1 DEF DoneDiskChild, TypeOK
  <2>4. CASE childType = "socket"
    BY <1>1, <2>1, <2>2, <2>4 DEF Reap, SocketDone, DoneDiskChild, TypeOK
  <2> QED
    BY <2>1, <2>2, <2>3, <2>4 DEF Saving
<1>3. /\ pc' \in [Procs -> {"idle", "open", "write", "flush", "rename", "sync",
                             "stream", "hold", "exited"}]
      /\ \A q \in Procs : pc'[q] = IF q = c THEN "idle" ELSE pc[q]
      /\ code' \in [Children -> {"ok", "error", "signal", "usr1"}]
      /\ snap' \in [Children -> 0 .. MaxChanges]
      /\ \A q \in Children : snap'[q] = IF q = c THEN 0 ELSE snap[q]
  BY <1>1, <1>2 DEF Reap, TypeOK
<1>4. \A q \in Children : pc'[q] # "exited"
  BY <1>1, <1>3 DEF ProcsSound
<1>5. NoFile \in Files /\ c # Server
  BY <1>2 DEF NoFile, File, Files
\* What the two handlers do.
<1>6. /\ tmp' \in [Procs -> Files]
      /\ \A q \in Procs : q # c => tmp'[q] = tmp[q]
      /\ tmp'[c] = NoFile \/ c \in left
  <2>1. CASE tmp' = RemoveTemp(c)
    BY <1>1, <1>2, <1>5, <2>1, TmpFacts DEF RemoveTemp, Unlinked
  <2>2. CASE tmp' = tmp /\ (tmp[c] = NoFile \/ c \in left)
    BY <1>1, <2>2 DEF TypeOK
  <2>3. tmp' = RemoveTemp(c) \/ (tmp' = tmp /\ (tmp[c] = NoFile \/ c \in left))
    <3>1. CASE childType = "disk"
      <4>1. DiskDone(c)
        BY <3>1 DEF Reap
      <4>2. CASE code[c] \in {"ok", "error"}
        BY <1>1, <1>2, <4>1, <4>2 DEF DiskDone, FilesSound, TempSound
      <4>3. CASE code[c] \notin {"ok", "error"}
        BY <4>1, <4>3 DEF DiskDone
      <4> QED
        BY <4>2, <4>3
    <3>2. CASE childType = "socket"
      BY <1>1, <1>2, <3>2 DEF Reap, SocketDone, FilesSound, TempSound
    <3> QED
      BY <1>2, <3>1, <3>2 DEF Saving
  <2> QED
    BY <2>1, <2>2, <2>3
<1>7. /\ conns' \subseteq Replicas /\ pipe' \in [Children -> Ends]
      /\ replstate' \in [Replicas -> {"off", "start", "end", "online"}]
      /\ \A r \in Replicas : replstate'[r] # "end"
  <2>1. CASE childType = "disk"
    BY <1>1, <2>1 DEF Reap, DiskDone, WaitersHaveAChild, TypeOK
  <2>2. CASE childType = "socket"
    <3>1. conns' = {} /\ pipe' = Closed(pipe, Server) /\ replstate' = Served(code[c] = "ok")
      BY <2>2 DEF Reap, SocketDone
    <3> QED
      BY <1>1, <3>1, ClosedTyped DEF Served, TypeOK
  <2> QED
    BY <1>2, <2>1, <2>2 DEF Saving
<1>8. \/ DoneDiskChild(c) /\ dirty' = dirty - dirtyBefore /\ acked' = Larger(acked, snap[c])
      \/ UNCHANGED <<dirty, acked>>
  <2>1. CASE childType = "disk"
    <3>1. DiskDone(c)
      BY <2>1 DEF Reap
    <3>2. CASE code[c] = "ok"
      BY <1>2, <2>1, <3>1, <3>2 DEF DiskDone, Remaining, DoneDiskChild
    <3>3. CASE code[c] # "ok"
      BY <3>1, <3>3 DEF DiskDone
    <3> QED
      BY <3>2, <3>3
  <2>2. CASE childType = "socket"
    BY <2>2 DEF Reap, SocketDone
  <2> QED
    BY <1>2, <2>1, <2>2 DEF Saving
<1>9. /\ data \in Int /\ acked \in Int /\ dump.ver \in Int /\ snap[c] \in Int
      /\ \A f \in onDisk : f.ver \in Int
      /\ made \in SUBSET (1 .. MaxChanges)
      /\ dirty \in Int /\ dirtyBefore \in Int
  BY <1>1, <1>2, VersionTyped DEF TypeOK
<1>10. dirty' \in Int /\ acked' \in -1 .. MaxChanges /\ acked' <= data
  BY <1>1, <1>2, <1>8, <1>9 DEF Larger, TypeOK, VersionsSound
<1>11. TypeOK'
  BY <1>1, <1>2, <1>3, <1>6, <1>7, <1>10 DEF TypeOK
<1>12. WaitersHaveAChild'
  BY <1>7 DEF WaitersHaveAChild
<1>13. ProcsSound'
  BY <1>1, <1>2, <1>3, <1>4, <1>5 DEF ProcsSound
<1>14. FilesSound'
  <2>1. \A q \in Procs : TempSound(q)'
    BY <1>1, <1>2, <1>3, <1>4, <1>6 DEF FilesSound, TempSound, Content
  <2> QED
    BY <1>1, <1>2, <2>1 DEF FilesSound, DumpIsWhole
<1>15. NothingNewer'
  BY <1>1, <1>2, <1>3 DEF NothingNewer, TypeOK
<1>16. \A q \in Children : ~LiveDiskChild(q)' /\ ~DoneDiskChild(q)'
  BY <1>2 DEF LiveDiskChild, DoneDiskChild
<1>17. VersionsSound'
  <2>1. SavedSurvives'
    BY <1>1, <1>2, <1>8, <1>9 DEF VersionsSound, SavedSurvives, Larger
  <2> QED
    BY <1>1, <1>2, <1>3, <1>5, <1>10, <1>16, <2>1 DEF VersionsSound
<1>18. CounterSound'
  <2>3. twice' # "pending"
    BY <1>1, <1>2 DEF CounterSound
  <2>1. CASE UNCHANGED <<dirty, acked>>
    BY <1>1, <1>2, <1>16, <2>1, <2>3 DEF CounterSound, CounterCovers
  <2>2. CASE DoneDiskChild(c) /\ dirty' = dirty - dirtyBefore
    <3>1. ~overtaken => snap[c] <= dump.ver
      BY <1>1, <1>2, <2>2 DEF VersionsSound, FilesSound
    <3>2. /\ Cardinality(MadeAfter(made, snap[c])) \in Nat
          /\ Cardinality(MadeAfter(made, dump.ver)) \in Nat
          /\ ~overtaken => Cardinality(MadeAfter(made, dump.ver)) <= Cardinality(MadeAfter(made, snap[c]))
      BY <1>9, <3>1, AfterTyped, AfterFewer
    <3>3. twice = "no" => Cardinality(MadeAfter(made, snap[c])) <= dirty - dirtyBefore
      BY <1>1, <1>2, <2>2 DEF CounterSound, WillCover
    <3> QED
      BY <1>2, <1>9, <1>16, <2>2, <2>3, <3>2, <3>3 DEF CounterSound, CounterCovers
  <2> QED
    BY <1>8, <2>1, <2>2
<1> QED
  BY <1>11, <1>12, <1>13, <1>14, <1>15, <1>17, <1>18, IInvParts DEF IInv

-----------------------------------------------------------------------------
(* Crashes. *)

\* Whatever ends the server: a process that is left has its place and its file.
LEMMA LostKeeps ==
  ASSUME IInv, Lost, crashes < MaxCrashes,
         pc' \in [Procs -> {"idle", "open", "write", "flush", "rename", "sync",
                           "stream", "hold", "exited"}],
         pc'[Server] = "idle",
         \A c \in Children : pc'[c] # "exited" /\ pc'[c] \in {"idle", pc[c]},
         tmp' \in [Procs -> Files],
         left' \subseteq Procs,
         \A p \in Procs : IF pc'[p] = "idle" THEN tmp'[p] = NoFile \/ p \in left'
                         ELSE tmp'[p] = tmp[p] /\ (p \in left => p \in left'),
         pipe' \in [Children -> Ends],
         dump' \in onDisk, onDisk' \subseteq onDisk, dump' \in onDisk',
         overtaken' \in BOOLEAN, acked' \in -1 .. MaxChanges, SavedSurvives'
  PROVE  IInv'
<1>1. /\ TypeOK /\ WaitersHaveAChild /\ ProcsSound /\ FilesSound /\ NothingNewer
      /\ VersionsSound /\ CounterSound
  BY IInvParts
<1>2. /\ up' = FALSE /\ childType' = "none" /\ childPid' = "none"
      /\ dirty' = 0 /\ dirtyBefore' = 0 /\ scheduled' = FALSE /\ made' = {}
      /\ conns' = {} /\ twice' = "no" /\ crashes' = crashes + 1
      /\ signalled' = {}
      /\ UNCHANGED <<data, changes>>
  BY DEF Lost
<1>3. /\ replstate' \in [Replicas -> {"off", "start", "end", "online"}]
      /\ \A r \in Replicas : replstate'[r] = "off"
  BY DEF Lost
<1>4. /\ snap' \in [Children -> 0 .. MaxChanges]
      /\ \A c \in Children : snap'[c] = IF pc'[c] = "idle" THEN 0 ELSE snap[c]
      /\ code' \in [Children -> {"ok", "error", "signal", "usr1"}]
  BY <1>1 DEF Lost, TypeOK
<1>5. ~Saving'
  BY <1>2 DEF Saving
<1>11. TypeOK'
  <2>1. /\ up' \in BOOLEAN /\ scheduled' \in BOOLEAN
        /\ twice' \in {"no", "pending", "yes"} /\ signalled' \subseteq Children
    BY <1>2
  <2>2. /\ crashes' \in 0 .. MaxCrashes /\ data' \in 0 .. MaxChanges
        /\ changes' \in 0 .. MaxChanges /\ dirty' \in Int /\ dirtyBefore' \in Int
        /\ dump' \in Files /\ onDisk' \subseteq Files
    BY <1>1, <1>2 DEF TypeOK
  <2> QED
    BY <1>2, <1>3, <1>4, <1>5, <2>1, <2>2 DEF TypeOK
<1>12. WaitersHaveAChild'
  BY <1>3 DEF WaitersHaveAChild
<1>13. ProcsSound'
  BY <1>2, <1>5 DEF ProcsSound
<1>14. FilesSound'
  <2>1. TempSound(Server)'
    BY DEF TempSound
  <2>2. ASSUME NEW c \in Children PROVE TempSound(c)'
    <3>1. CASE pc'[c] = "idle"
      BY <3>1 DEF TempSound
    <3>2. CASE pc'[c] # "idle"
      <4>1. /\ pc'[c] = pc[c] /\ tmp'[c] = tmp[c] /\ snap'[c] = snap[c] /\ c # Server
            /\ c \in left => c \in left'
        BY <1>4, <3>2
      <4> QED
        BY <1>1, <4>1 DEF FilesSound, TempSound, Content
    <3> QED
      BY <3>1, <3>2
  <2>3. DumpIsWhole'
    BY <1>1 DEF FilesSound, DumpIsWhole
  <2> QED
    BY <2>1, <2>2, <2>3 DEF FilesSound
<1>15. NothingNewer'
  BY <1>1, <1>2, <1>4 DEF NothingNewer, TypeOK
<1>16. VersionsSound'
  BY <1>2, <1>5 DEF VersionsSound, LiveDiskChild, DoneDiskChild
<1>17. CounterSound'
  BY <1>2 DEF CounterSound
<1> QED
  BY <1>11, <1>12, <1>13, <1>14, <1>15, <1>16, <1>17, IInvParts DEF IInv

LEMMA ServerCrashKeeps ==
  ASSUME IInv, ServerCrash
  PROVE  IInv'
<1>1. TypeOK /\ ProcsSound /\ FilesSound /\ VersionsSound
  BY IInvParts
<1>2. /\ Lost /\ crashes < MaxCrashes /\ UNCHANGED <<dump, onDisk, acked, overtaken>>
  BY DEF ServerCrash
<1>3. /\ pc' = [p \in Procs |-> IF p = Server \/ pc[p] = "exited" THEN "idle" ELSE pc[p]]
      /\ Abandoned({p \in Procs : pc'[p] = "idle" /\ tmp[p] # NoFile})
      /\ pipe' = Closed(pipe, Server)
  BY DEF ServerCrash
<1>5. /\ pc' \in [Procs -> {"idle", "open", "write", "flush", "rename", "sync",
                             "stream", "hold", "exited"}]
      /\ pc'[Server] = "idle"
      /\ \A c \in Children : pc'[c] # "exited" /\ pc'[c] \in {"idle", pc[c]}
  BY <1>1, <1>3 DEF TypeOK
<1>6. /\ tmp' \in [Procs -> Files] /\ left' \subseteq Procs
      /\ \A p \in Procs : IF pc'[p] = "idle" THEN tmp'[p] = NoFile \/ p \in left'
                         ELSE tmp'[p] = tmp[p] /\ (p \in left => p \in left')
  <2> DEFINE S == {p \in Procs : pc'[p] = "idle" /\ tmp[p] # NoFile}
  <2>1. left' = left \cup S /\ tmp' = [p \in Procs |-> IF p \in S THEN Torn ELSE tmp[p]]
    BY <1>3 DEF Abandoned
  <2>2. \A p \in Procs : p \in S <=> pc'[p] = "idle" /\ tmp[p] # NoFile
    OBVIOUS
  <2>3. S \subseteq Procs
    OBVIOUS
  <2> HIDE DEF S
  <2> QED
    BY <1>1, <2>1, <2>2, <2>3, TornTyped DEF TypeOK
<1>7. pipe' \in [Children -> Ends]
  BY <1>1, <1>3, ClosedTyped DEF TypeOK
<1>8. SavedSurvives'
  BY <1>1, <1>2 DEF VersionsSound, SavedSurvives
<1>9. /\ dump' \in onDisk /\ onDisk' \subseteq onDisk /\ dump' \in onDisk'
      /\ overtaken' \in BOOLEAN /\ acked' \in -1 .. MaxChanges
  BY <1>1, <1>2 DEF FilesSound, TypeOK
<1> QED
  BY <1>2, <1>5, <1>6, <1>7, <1>8, <1>9, LostKeeps

LEMMA MachineCrashKeeps ==
  ASSUME IInv, MachineCrash
  PROVE  IInv'
<1>1. TypeOK /\ ProcsSound /\ FilesSound /\ VersionsSound
  BY IInvParts
<1>2. PICK f \in onDisk, torn \in BOOLEAN :
        /\ dump' = IF torn /\ f.state = "written" THEN File(f.ver, "partial") ELSE f
        /\ acked' = IF overtaken /\ f.ver < acked THEN f.ver ELSE acked
  BY DEF MachineCrash
<1>3. /\ pc' = [p \in Procs |-> "idle"] /\ left' \in SUBSET Procs
      /\ tmp' = [p \in Procs |-> IF p \in left' THEN Torn ELSE NoFile]
      /\ Lost /\ crashes < MaxCrashes /\ onDisk' = {dump'} /\ overtaken' = FALSE
      /\ pipe' = [c \in Children |-> NoPipe]
  BY DEF MachineCrash
\* Only whole files are there to be found.
<1>4. dump' = f
  BY <1>1, <1>2 DEF FilesSound, DumpIsWhole, Whole
<1>5. f \in Files /\ f.ver \in Int /\ acked \in Int
  BY <1>1, <1>2, VersionTyped DEF TypeOK
<1>6. SavedSurvives'
  BY <1>1, <1>2, <1>3, <1>4, <1>5 DEF VersionsSound, SavedSurvives
<1>7. NoFile \in Files /\ Torn \in Files /\ NoPipe \in Ends
  BY TornTyped DEF NoPipe, Ends
<1>8. /\ pc' \in [Procs -> {"idle", "open", "write", "flush", "rename", "sync",
                             "stream", "hold", "exited"}]
      /\ pc'[Server] = "idle"
      /\ \A c \in Children : pc'[c] # "exited" /\ pc'[c] \in {"idle", pc[c]}
      /\ tmp' \in [Procs -> Files] /\ left' \subseteq Procs
      /\ \A p \in Procs : IF pc'[p] = "idle" THEN tmp'[p] = NoFile \/ p \in left'
                         ELSE tmp'[p] = tmp[p] /\ (p \in left => p \in left')
      /\ pipe' \in [Children -> Ends]
  BY <1>3, <1>7
<1>9. /\ dump' \in onDisk /\ onDisk' \subseteq onDisk /\ dump' \in onDisk'
      /\ overtaken' \in BOOLEAN /\ acked' \in -1 .. MaxChanges
  BY <1>1, <1>2, <1>3, <1>4, <1>5, ZenonT(60) DEF TypeOK, Files
<1> QED
  BY <1>3, <1>6, <1>8, <1>9, LostKeeps

LEMMA RestartKeeps ==
  ASSUME IInv, Restart
  PROVE  IInv'
<1>1. /\ TypeOK /\ WaitersHaveAChild /\ ProcsSound /\ FilesSound /\ NothingNewer
      /\ VersionsSound /\ CounterSound
  BY IInvParts
<1>2. /\ ~up /\ up' = TRUE /\ data' = Larger(dump.ver, 0)
      /\ acked' = IF overtaken /\ data' < acked THEN data' ELSE acked
      /\ UNCHANGED <<made, dirty, dirtyBefore, scheduled, childType, childPid, replstate,
                     conns, pipe, pc, code, snap, signalled, tmp, dump, onDisk, changes,
                     crashes, twice, overtaken, left>>
  BY DEF Restart, transfer, procs, files, bounds
<1>3. /\ pc[Server] = "idle" /\ childType = "none" /\ made = {} /\ dirty = 0
      /\ childPid = "none" /\ ~Saving /\ ~Saving'
  BY <1>1, <1>2 DEF ProcsSound, Saving
<1>4. /\ dump \in Files /\ dump.ver \in -1 .. MaxChanges /\ dump.ver <= changes
      /\ acked \in -1 .. MaxChanges /\ changes \in 0 .. MaxChanges
  BY <1>1 DEF TypeOK, Files, FilesSound, NothingNewer
<1>5. /\ data' \in 0 .. MaxChanges /\ data' <= changes /\ dump.ver <= data'
      /\ acked' \in -1 .. MaxChanges /\ acked' <= acked
      /\ overtaken => acked' <= data'
  BY <1>2, <1>4 DEF Larger
<1>6. ~overtaken => acked' = acked /\ acked <= dump.ver
  BY <1>1, <1>2 DEF VersionsSound, SavedSurvives, FilesSound
<1>11. TypeOK'
  BY <1>1, <1>2, <1>5 DEF TypeOK, Saving
<1>12. WaitersHaveAChild'
  BY <1>1, <1>2 DEF WaitersHaveAChild
<1>13. ProcsSound'
  BY <1>1, <1>2, <1>3 DEF ProcsSound
<1>14. FilesSound'
  <2>1. \A q \in Procs : TempSound(q)'
    BY <1>1, <1>2, <1>3 DEF FilesSound, TempSound, Content
  <2> QED
    BY <1>1, <1>2, <2>1 DEF FilesSound, DumpIsWhole
<1>15. NothingNewer'
  BY <1>1, <1>2, <1>3, <1>5 DEF NothingNewer
<1>16. \A c \in Children : ~LiveDiskChild(c)' /\ ~DoneDiskChild(c)'
  BY <1>2, <1>3 DEF LiveDiskChild, DoneDiskChild
<1>17. VersionsSound'
  <2>1. SavedSurvives'
    BY <1>1, <1>2, <1>6 DEF VersionsSound, SavedSurvives
  <2>2. up' => acked' <= data'
    BY <1>4, <1>5, <1>6
  <2> QED
    BY <1>2, <1>3, <1>5, <1>16, <2>1, <2>2 DEF VersionsSound
<1>18. CounterSound'
  <2>1. MadeAfter(made', dump'.ver) = {}
    BY <1>2, <1>3 DEF MadeAfter
  <2> QED
    BY <1>1, <1>2, <1>3, <1>16, <2>1, FS_EmptySet DEF CounterSound, CounterCovers
<1> QED
  BY <1>11, <1>12, <1>13, <1>14, <1>15, <1>17, <1>18, IInvParts DEF IInv

-----------------------------------------------------------------------------
(* The theorems. *)

LEMMA SaveStepKeeps ==
  ASSUME IInv, NEW p \in Procs, SaveStep(p)
  PROVE  IInv'
  BY OpenKeeps, WriteKeeps, FlushKeeps, RenameKeeps, SyncDirKeeps DEF SaveStep

LEMMA StepIInv == IInv /\ [Next]_vars => IInv'
<1> SUFFICES ASSUME IInv, [Next]_vars PROVE IInv'
  OBVIOUS
<1>1. CASE SaveStep(Server)
  BY <1>1, SaveStepKeeps
<1>2. ASSUME NEW c \in Children, ChildStep(c) \/ ChildDies(c) PROVE IInv'
  BY <1>2, SaveStepKeeps, StreamKeeps, HoldKeeps, ChildDiesKeeps DEF ChildStep
<1>3. CASE Change \/ SaveCommand \/ ScheduledSave \/ OtherChild
  BY <1>3, ChangeKeeps, SaveCommandKeeps, ScheduledKeeps, OtherChildKeeps
<1>4. ASSUME NEW schedule \in BOOLEAN, NEW inExec \in BOOLEAN,
             BgsaveCommand(schedule, inExec)
      PROVE  IInv'
  BY <1>4, BgsaveKeeps
<1>5. ASSUME NEW removes \in 0 .. 1, NEW savePoints \in BOOLEAN,
             FlushAll(removes, savePoints)
      PROVE  IInv'
  BY <1>5, FlushAllKeeps
<1>6. ASSUME NEW r \in Replicas, Attach(r) \/ SaveToSlaves(ReqOf[r]) PROVE IInv'
  BY <1>6, AttachKeeps, SaveToSlavesKeeps
<1>7. CASE PipeEof \/ Reap
  BY <1>7, PipeEofKeeps, ReapKeeps
<1>8. CASE ServerCrash \/ MachineCrash \/ Restart
  BY <1>8, ServerCrashKeeps, MachineCrashKeeps, RestartKeeps
<1>9. CASE UNCHANGED vars
  <2>1. TypeOK /\ WaitersHaveAChild
    BY IInvParts
  <2>2. UNCHANGED <<up, memory, transfer, procs, files, bounds, ghosts>>
    BY <1>9 DEF vars
  <2>3. TypeOK' /\ WaitersHaveAChild'
    BY <2>1, <2>2 DEF TypeOK, WaitersHaveAChild, Saving, memory, transfer, procs, files,
                      bounds, ghosts
  <2>4. UNCHANGED <<up, data, made, dirty, childType, dirtyBefore, childPid, changes>>
    BY <2>2 DEF memory, bounds
  <2> QED
    BY <2>2, <2>3, <2>4, QuietKeeps
<1> QED
  BY <1>1, <1>2, <1>3, <1>4, <1>5, <1>6, <1>7, <1>8, <1>9 DEF Next

LEMMA SpecIInv == Spec => []IInv
  BY InitIInv, StepIInv, PTL DEF Spec

(***************************************************************************)
(* Every variable has its type, and the server that saves with a child     *)
(* knows its pid.                                                          *)
(***************************************************************************)
THEOREM TypeCorrect == Spec => []TypeOK
  BY SpecIInv, IInvParts, PTL

(***************************************************************************)
(* Whatever ends a child or a save of a server that lives, nothing of it   *)
(* is left behind: no temporary file without an owner but those of         *)
(* processes that died when no server waited for them, and no replica that *)
(* waits for nobody.                                                       *)
(***************************************************************************)
THEOREM NothingIsLeftCorrect == Spec => []NothingIsLeft
<1>1. IInv => NothingIsLeft
  <2> SUFFICES ASSUME IInv PROVE NothingIsLeft
    OBVIOUS
  <2>1. TypeOK /\ WaitersHaveAChild /\ ProcsSound /\ FilesSound
    BY IInvParts
  <2>2. TempIsOwned
    BY <2>1 DEF TempIsOwned, FilesSound, TempSound, ProcsSound, TypeOK, DiskStates
  <2> QED
    BY <2>1, <2>2 DEF NothingIsLeft
<1> QED
  BY <1>1, SpecIInv, PTL

(***************************************************************************)
(* Every dump that a restart may find is whole, and none is older than the *)
(* last save that was reported.                                            *)
(***************************************************************************)
THEOREM DumpSurvivesCorrect == Spec => []DumpSurvives
<1>1. IInv => DumpSurvives
  BY DEF IInv, FilesSound, VersionsSound, DumpSurvives
<1> QED
  BY <1>1, SpecIInv, PTL

(***************************************************************************)
(* The counter of changes covers what the dump lacks, unless changes were  *)
(* subtracted from it twice.                                               *)
(***************************************************************************)
THEOREM NoChangeForgottenCorrect == Spec => []NoChangeForgotten
<1>1. IInv => NoChangeForgotten
  BY DEF IInv, CounterSound, CounterCovers, NoChangeForgotten, MadeAfter, Ready
<1> QED
  BY <1>1, SpecIInv, PTL

\* Nothing but a rename and a crash of the machine touches the dump.
LEMMA DumpReplaced ==
  ASSUME Next
  PROVE  UNCHANGED dump \/ (\E p \in Procs : Replaced(p)) \/ MachineCrash
<1>1. ASSUME NEW p \in Procs, SaveStep(p) PROVE UNCHANGED dump \/ Replaced(p)
  BY <1>1, Zenon DEF SaveStep, Open, Write, Flush, Rename, SyncDir, Fails, Replaced
<1>2. ASSUME NEW c \in Children, Stream(c) \/ Hold(c) \/ ChildDies(c)
      PROVE  UNCHANGED dump
  BY <1>2 DEF Stream, Hold, ChildDies, files
<1>3. Change \/ SaveCommand \/ ScheduledSave \/ OtherChild => UNCHANGED dump
  BY DEF Change, SaveCommand, ScheduledSave, SaveBackground, OtherChild, files
<1>4. ASSUME NEW schedule \in BOOLEAN, NEW inExec \in BOOLEAN,
             BgsaveCommand(schedule, inExec)
      PROVE  UNCHANGED dump
  BY <1>4 DEF BgsaveCommand, SaveBackground, files
<1>5. ASSUME NEW removes \in 0 .. 1, NEW savePoints \in BOOLEAN,
             FlushAll(removes, savePoints)
      PROVE  UNCHANGED dump
  BY <1>5 DEF FlushAll, files
<1>6. ASSUME NEW r \in Replicas, Attach(r) \/ SaveToSlaves(ReqOf[r])
      PROVE  UNCHANGED dump
  BY <1>6 DEF Attach, SaveToSlaves, files
<1>7. PipeEof \/ Reap \/ ServerCrash \/ Restart => UNCHANGED dump
  BY DEF PipeEof, Reap, ServerCrash, Restart, files
<1> QED
  BY <1>1, <1>2, <1>3, <1>4, <1>5, <1>6, <1>7 DEF Next, ChildStep

(***************************************************************************)
(* While the server runs no dump is replaced by an older one: only a       *)
(* rename replaces the dump, and the one it puts in place is of the data   *)
(* or of a child forked after the dump was made, unless the child is that  *)
(* of a dead server or one that was told to end.                           *)
(***************************************************************************)
THEOREM NewerDumpStaysCorrect == Spec => NewerDumpStays
<1> DEFINE A == up /\ up' /\ ~overtaken' => dump'.ver >= dump.ver
<1>1. IInv /\ [Next]_vars => [A]_vars
  <2> SUFFICES ASSUME IInv, Next PROVE A
    OBVIOUS
  <2>1. TypeOK
    BY IInvParts
  <2>2. dump.ver \in Int
    BY <2>1, VersionTyped
  <2>3. CASE UNCHANGED dump
    BY <2>2, <2>3
  <2>4. CASE \E p \in Procs : Replaced(p)
    BY <2>2, <2>4, ReplacedFacts
  <2>5. CASE MachineCrash
    BY <2>5 DEF MachineCrash, Lost
  <2> QED
    BY <2>3, <2>4, <2>5, DumpReplaced
<1> QED
  BY <1>1, SpecIInv, PTL DEF NewerDumpStays, Spec

-----------------------------------------------------------------------------
(* Induction over the naturals, and positions.                             *)

HIDE PersistenceAssumption DEF Procs, Server

LEMMA LeastOf ==
  ASSUME NEW T, T \subseteq Nat, T # {}
  PROVE  \E n \in T : \A m \in T : ~(m < n)
<1> DEFINE R == OpToRel(<, Nat)
<1>1. IsWellFoundedOn(R, Nat)
  BY NatLessThanWellFounded, Zenon
<1>2. \E n \in T : \A m \in T : ~(<<m, n>> \in R)
  BY <1>1, WFMin
<1> QED
  BY <1>2 DEF OpToRel

LEMMA InductionOver ==
  ASSUME NEW P, 0 \in P, \A n \in Nat : n \in P => n + 1 \in P
  PROVE  Nat \subseteq P
<1> SUFFICES ASSUME Nat \ P # {} PROVE FALSE
  OBVIOUS
<1>1. PICK n \in Nat \ P : \A m \in Nat \ P : ~(m < n)
  <2> Nat \ P \subseteq Nat
    OBVIOUS
  <2> QED
    BY LeastOf
<1>2. n # 0 /\ n - 1 \in Nat /\ n - 1 \in P /\ n = (n - 1) + 1
  BY <1>1
<1> QED
  BY <1>1, <1>2


\* A set of positions of a sequence has a last one.
LEMMA LastPosition ==
  ASSUME NEW n \in Nat, NEW s \in SUBSET (1 .. n), s # {}
  PROVE  Max(s) \in s /\ \A x \in s : x <= Max(s)
<1> DEFINE T == {n - x : x \in s}
<1>1. T \subseteq Nat /\ T # {}
  <2>1. \A x \in s : x \in 1 .. n /\ n - x \in Nat
    OBVIOUS
  <2>2. PICK x \in s : TRUE
    OBVIOUS
  <2> QED
    BY <2>1, <2>2
<1>2. PICK k \in T : \A m \in T : ~(m < k)
  BY <1>1, LeastOf
<1>3. PICK x \in s : k = n - x
  OBVIOUS
<1>4. \A y \in s : y <= x
  <2> TAKE y \in s
  <2>1. n - y \in T /\ ~(n - y < n - x)
    BY <1>2, <1>3
  <2> QED
    BY <2>1
<1>5. \E z \in s : \A y \in s : z >= y
  BY <1>4
<1> QED
  BY <1>5 DEF Max

LEMMA FirstPositions ==
  ASSUME NEW n \in Nat, NEW k \in 1 .. n
  PROVE  /\ 1 .. k # {} /\ Max(1 .. k) = k /\ (1 .. k) \ {k} = 1 .. k - 1
         /\ 1 .. k \in SUBSET (1 .. n) /\ 1 .. k - 1 \in SUBSET (1 .. n)
<1>1. 1 .. k \in SUBSET (1 .. n) /\ k \in 1 .. k
  OBVIOUS
<1>2. Max(1 .. k) \in 1 .. k /\ \A x \in 1 .. k : x <= Max(1 .. k)
  BY <1>1, LastPosition
<1> QED
  BY <1>1, <1>2

-----------------------------------------------------------------------------
(* A dump that is loaded, record by record.  The fold over its records     *)
(* exists whatever the states are.                                         *)

Play(a, t, stream, c) == FoldLeft(LAMBDA acc, r : LoadRecord(acc, r, stream, c), a, t)

PlayFold(it, a, n, t, stream, c) ==
  it = [s \in SUBSET (1 .. n) |->
          IF s = {} THEN a ELSE LoadRecord(it[s \ {Max(s)}], t[Max(s)], stream, c)]

LEMMA PlayFoldExists ==
  ASSUME NEW a, NEW n \in Nat, NEW t, NEW stream, NEW c
  PROVE  \E it : PlayFold(it, a, n, t, stream, c)
<1> DEFINE D == SUBSET (1 .. n)
           Body(g, s) == IF s = {} THEN a ELSE LoadRecord(g[s \ {Max(s)}], t[Max(s)], stream, c)
           P == {k \in Nat : \E g : /\ g = [s \in D |-> g[s]]
                                    /\ \A s \in D : s \subseteq 1 .. k => g[s] = Body(g, s)}
<1>1. 0 \in P
  <2> DEFINE g == [s \in D |-> a]
  <2>1. g = [s \in D |-> g[s]]
    OBVIOUS
  <2>2. ASSUME NEW s \in D, s \subseteq 1 .. 0
        PROVE  g[s] = Body(g, s)
    <3>1. s = {}
      BY <2>2
    <3> QED
      BY <3>1
  <2> HIDE DEF Body, g
  <2> QED
    BY <2>1, <2>2
<1>2. ASSUME NEW k \in Nat, k \in P
      PROVE  k + 1 \in P
  <2>1. PICK g : g = [s \in D |-> g[s]] /\ \A s \in D : s \subseteq 1 .. k => g[s] = Body(g, s)
    BY <1>2
  <2> DEFINE h == [s \in D |-> Body(g, s)]
  <2>2. h = [s \in D |-> h[s]]
    OBVIOUS
  <2>3. ASSUME NEW s \in D, s \subseteq 1 .. k + 1
        PROVE  h[s] = Body(h, s)
    <3>1. CASE s = {}
      BY <3>1
    <3>2. CASE s # {}
      <4> DEFINE r == s \ {Max(s)}
      <4>1. r \in D /\ r \subseteq 1 .. k
        <5>1. Max(s) \in s /\ \A x \in s : x <= Max(s)
          BY <3>2, LastPosition
        <5> HIDE DEF D
        <5>2. ASSUME NEW x \in r PROVE x \in 1 .. k
          <6>1. x \in 1 .. k + 1 /\ Max(s) \in 1 .. k + 1 /\ x <= Max(s) /\ x # Max(s)
            BY <2>3, <5>1
          <6> QED
            BY <6>1
        <5> QED
          BY <5>2 DEF D
      <4>2. h[r] = Body(g, r) /\ g[r] = Body(g, r)
        BY <2>1, <4>1
      <4>3. /\ h[s] = LoadRecord(g[r], t[Max(s)], stream, c)
            /\ Body(h, s) = LoadRecord(h[r], t[Max(s)], stream, c)
        BY <3>2
      <4> QED
        BY <4>2, <4>3
    <3> QED
      BY <3>1, <3>2
  <2> HIDE DEF Body, h, D
  <2>4. \E f : f = [s \in D |-> f[s]] /\ \A s \in D : s \subseteq 1 .. k + 1 => f[s] = Body(f, s)
    BY <2>2, <2>3
  <2> QED
    BY <2>4
<1>3. n \in P
  <2> HIDE DEF P
  <2>1. Nat \subseteq P
    BY <1>1, <1>2, InductionOver
  <2> QED
    BY <2>1
<1>4. PICK g : g = [s \in D |-> g[s]] /\ \A s \in D : s \subseteq 1 .. n => g[s] = Body(g, s)
  BY <1>3
<1>5. g = [s \in D |-> Body(g, s)]
  <2>1. \A s \in D : s \subseteq 1 .. n
    OBVIOUS
  <2> HIDE DEF Body, D
  <2>2. \A s \in D : g[s] = Body(g, s)
    BY <1>4, <2>1
  <2>3. [s \in D |-> g[s]] = [s \in D |-> Body(g, s)]
    BY <2>2
  <2> QED
    BY <1>4, <2>3
<1> QED
  BY <1>5 DEF PlayFold

\* The states after each of the first records.
IsPlay(r, a, t, stream, c) ==
  /\ DOMAIN r = 0 .. Len(t) /\ r[0] = a
  /\ \A k \in 1 .. Len(t) : r[k] = LoadRecord(r[k - 1], t[k], stream, c)

LEMMA RecordsPlayed ==
  ASSUME NEW a, NEW S, NEW t \in Seq(S), NEW stream, NEW c
  PROVE  \E r : IsPlay(r, a, t, stream, c) /\ Play(a, t, stream, c) = r[Len(t)]
<1> DEFINE n == Len(t)
           it == CHOOSE f : PlayFold(f, a, n, t, stream, c)
<1>0. n \in Nat /\ DOMAIN t = 1 .. n
  OBVIOUS
<1>1. PlayFold(it, a, n, t, stream, c)
  BY <1>0, PlayFoldExists
<1>2. Play(a, t, stream, c) = it[1 .. n]
  <2>1. it = CHOOSE f : f = [s \in SUBSET (1 .. n) |->
               IF s = {} THEN a ELSE LoadRecord(f[s \ {Max(s)}], t[Max(s)], stream, c)]
    BY DEF PlayFold
  <2> HIDE DEF it, n
  <2> QED
    BY <1>0, <2>1 DEF Play, FoldLeft, MapThenFoldSet
<1> HIDE DEF it, n
<1> DEFINE r == [k \in 0 .. n |-> it[1 .. k]]
<1>3. r[0] = a /\ r[n] = it[1 .. n]
  <2>1. 1 .. 0 = {} /\ {} \in SUBSET (1 .. n) /\ 0 \in 0 .. n /\ n \in 0 .. n
    BY <1>0
  <2> QED
    BY <1>1, <2>1 DEF PlayFold
<1>4. ASSUME NEW k \in 1 .. n PROVE r[k] = LoadRecord(r[k - 1], t[k], stream, c)
  <2>1. /\ 1 .. k # {} /\ Max(1 .. k) = k /\ (1 .. k) \ {k} = 1 .. k - 1
        /\ 1 .. k \in SUBSET (1 .. n)
    BY <1>0, FirstPositions
  <2>2. it[1 .. k] = LoadRecord(it[1 .. k - 1], t[k], stream, c)
    BY <1>1, <2>1 DEF PlayFold
  <2>3. k - 1 \in 0 .. n /\ k \in 0 .. n
    BY <1>0
  <2> QED
    BY <2>2, <2>3
<1>5. IsPlay(r, a, t, stream, c)
  <2>1. DOMAIN r = 0 .. n
    OBVIOUS
  <2> HIDE DEF r
  <2> QED
    BY <1>3, <1>4, <2>1 DEF IsPlay, n
<1> HIDE DEF r
<1> QED
  BY <1>2, <1>3, <1>5 DEF n

\* Two plays of the same first records go through the same states.
SameBeginning(t, u, m) == \A i \in 1 .. m : t[i] = u[i]

LEMMA PlaysAgree ==
  ASSUME NEW a, NEW S, NEW t \in Seq(S), NEW T, NEW u \in Seq(T), NEW stream, NEW c, NEW q, NEW r,
         IsPlay(q, a, t, stream, c), IsPlay(r, a, u, stream, c), NEW m \in Nat,
         m <= Len(t), m <= Len(u), SameBeginning(t, u, m)
  PROVE  q[m] = r[m]
<1> DEFINE P == {k \in Nat : k <= m => q[k] = r[k]}
<1>0. Len(t) \in Nat /\ Len(u) \in Nat
  OBVIOUS
<1>1. 0 \in P
  BY DEF IsPlay
<1>2. ASSUME NEW k \in Nat, k \in P PROVE k + 1 \in P
  <2> SUFFICES ASSUME k + 1 <= m PROVE q[k + 1] = r[k + 1]
    OBVIOUS
  <2>1. /\ k + 1 \in 1 .. Len(t) /\ k + 1 \in 1 .. Len(u) /\ k + 1 \in 1 .. m
        /\ (k + 1) - 1 = k /\ q[k] = r[k]
    BY <1>0, <1>2
  <2> QED
    BY <2>1 DEF IsPlay, SameBeginning
<1>3. m \in P
  <2> HIDE DEF P
  <2>1. Nat \subseteq P
    BY <1>1, <1>2, InductionOver
  <2> QED
    BY <2>1
<1> QED
  BY <1>3

LEMMA PlayIsLast ==
  ASSUME NEW a, NEW S, NEW t \in Seq(S), NEW stream, NEW c, NEW r, IsPlay(r, a, t, stream, c)
  PROVE  Play(a, t, stream, c) = r[Len(t)]
<1>1. PICK q : IsPlay(q, a, t, stream, c) /\ Play(a, t, stream, c) = q[Len(t)]
  BY RecordsPlayed
<1>2. Len(t) \in Nat /\ SameBeginning(t, t, Len(t))
  BY DEF SameBeginning
<1>3. q[Len(t)] = r[Len(t)]
  BY <1>1, <1>2, PlaysAgree
<1> QED
  BY <1>1, <1>3

LEMMA PlayNone ==
  ASSUME NEW a, NEW stream, NEW c
  PROVE  Play(a, << >>, stream, c) = a
<1>1. << >> \in Seq({}) /\ Len(<< >>) = 0
  OBVIOUS
<1>2. PICK r : IsPlay(r, a, << >>, stream, c) /\ Play(a, << >>, stream, c) = r[Len(<< >>)]
  BY <1>1, RecordsPlayed
<1> QED
  BY <1>1, <1>2 DEF IsPlay

\* A stream is loaded beginning first.
LEMMA PlayTwo ==
  ASSUME NEW a, NEW S, NEW t \in Seq(S), NEW u \in Seq(S), NEW stream, NEW c
  PROVE  Play(a, t \o u, stream, c) = Play(Play(a, t, stream, c), u, stream, c)
<1> DEFINE n == Len(t)
           m == Len(u)
           b == Play(a, t, stream, c)
<1>0. /\ n \in Nat /\ m \in Nat /\ t \o u \in Seq(S) /\ Len(t \o u) = n + m
      /\ \A i \in 1 .. n : (t \o u)[i] = t[i]
      /\ \A i \in 1 .. m : (t \o u)[n + i] = u[i]
  OBVIOUS
<1>1. PICK r : IsPlay(r, a, t \o u, stream, c) /\ Play(a, t \o u, stream, c) = r[Len(t \o u)]
  <2> DEFINE v == t \o u
  <2>1. v \in Seq(S)
    BY <1>0
  <2> HIDE DEF v
  <2>2. \E r : IsPlay(r, a, v, stream, c) /\ Play(a, v, stream, c) = r[Len(v)]
    BY <2>1, RecordsPlayed
  <2> QED
    BY <2>2 DEF v
<1>2. PICK q : IsPlay(q, a, t, stream, c) /\ b = q[n]
  BY RecordsPlayed
<1>3. PICK p : IsPlay(p, b, u, stream, c) /\ Play(b, u, stream, c) = p[Len(u)]
  <2> HIDE DEF b
  <2> QED
    BY RecordsPlayed
<1>4. r[n] = b
  <2> DEFINE v == t \o u
  <2>1. /\ n <= Len(t) /\ n <= Len(v) /\ v \in Seq(S) /\ n \in Nat
        /\ \A i \in 1 .. n : t[i] = v[i]
    BY <1>0
  <2>2. IsPlay(q, a, t, stream, c) /\ IsPlay(r, a, v, stream, c)
    BY <1>1, <1>2
  <2>3. q[n] = r[n]
    <3> HIDE DEF n, b, v
    <3>1. t \in Seq(S) /\ v \in Seq(S) /\ n \in Nat /\ n <= Len(t) /\ n <= Len(v)
      BY <2>1
    <3>2. SameBeginning(t, v, n)
      BY <2>1 DEF SameBeginning
    <3> QED
      BY <2>2, <3>1, <3>2, PlaysAgree
  <2> QED
    BY <1>2, <2>3
<1> HIDE DEF n, m, b
<1> DEFINE P == {k \in Nat : k <= m => r[n + k] = p[k]}
<1>5. 0 \in P
  BY <1>0, <1>3, <1>4 DEF IsPlay
<1>6. ASSUME NEW k \in Nat, k \in P PROVE k + 1 \in P
  <2> SUFFICES ASSUME k + 1 <= m PROVE r[n + (k + 1)] = p[k + 1]
    OBVIOUS
  <2>1. /\ k + 1 \in 1 .. m /\ (k + 1) - 1 = k /\ r[n + k] = p[k]
        /\ n + (k + 1) \in 1 .. n + m /\ (n + (k + 1)) - 1 = n + k
    BY <1>0, <1>6, SMTT(30)
  <2>2. r[n + (k + 1)] = LoadRecord(r[n + k], u[k + 1], stream, c)
    BY <1>0, <1>1, <2>1 DEF IsPlay
  <2>3. p[k + 1] = LoadRecord(p[k], u[k + 1], stream, c)
    BY <1>3, <2>1 DEF IsPlay, m
  <2> QED
    BY <2>1, <2>2, <2>3
<1>7. m \in P
  <2> HIDE DEF P
  <2>1. Nat \subseteq P
    BY <1>5, <1>6, InductionOver
  <2> QED
    BY <1>0, <2>1
<1>8. r[n + m] = p[m]
  BY <1>0, <1>7
<1> QED
  BY <1>0, <1>1, <1>3, <1>8 DEF b, m

LEMMA PlayOne ==
  ASSUME NEW a, NEW x, NEW stream, NEW c
  PROVE  Play(a, <<x>>, stream, c) = LoadRecord(a, x, stream, c)
<1>1. <<x>> \in Seq({x}) /\ Len(<<x>>) = 1 /\ <<x>>[1] = x
  OBVIOUS
<1>2. PICK r : IsPlay(r, a, <<x>>, stream, c) /\ Play(a, <<x>>, stream, c) = r[Len(<<x>>)]
  BY <1>1, RecordsPlayed
<1>3. r[1] = LoadRecord(r[0], x, stream, c) /\ r[0] = a
  <2>1. 1 \in 1 .. Len(<<x>>) /\ 1 - 1 = 0
    BY <1>1
  <2> QED
    BY <1>1, <1>2, <2>1 DEF IsPlay
<1> QED
  BY <1>1, <1>2, <1>3

LEMMA PlayPair ==
  ASSUME NEW a, NEW x, NEW y, NEW stream, NEW c
  PROVE  Play(a, <<x, y>>, stream, c) = LoadRecord(LoadRecord(a, x, stream, c), y, stream, c)
<1> DEFINE t == <<x, y>>
<1>1. t \in Seq({x, y}) /\ Len(t) = 2 /\ t[1] = x /\ t[2] = y
  OBVIOUS
<1> HIDE DEF t
<1>2. PICK r : IsPlay(r, a, t, stream, c) /\ Play(a, t, stream, c) = r[Len(t)]
  BY <1>1, RecordsPlayed
<1>3. 1 \in 1 .. Len(t) /\ 1 - 1 = 0 /\ 2 \in 1 .. Len(t) /\ 2 - 1 = 1
  BY <1>1
<1>4. r[1] = LoadRecord(a, x, stream, c) /\ r[2] = LoadRecord(r[1], y, stream, c)
  BY <1>1, <1>2, <1>3 DEF IsPlay
<1> QED
  BY <1>1, <1>2, <1>4 DEF t

\* A load that has ended stays as it is.
LEMMA EndedPlay ==
  ASSUME NEW a, a.ended # "no", NEW S, NEW t \in Seq(S), NEW stream, NEW c
  PROVE  Play(a, t, stream, c) = a
<1>1. PICK r : IsPlay(r, a, t, stream, c) /\ Play(a, t, stream, c) = r[Len(t)]
  BY RecordsPlayed
<1> DEFINE n == Len(t)
           P == {k \in Nat : k <= n => r[k] = a}
<1>0. n \in Nat
  OBVIOUS
<1>2. 0 \in P
  BY <1>1 DEF IsPlay
<1>3. ASSUME NEW k \in Nat, k \in P PROVE k + 1 \in P
  <2> SUFFICES ASSUME k + 1 <= n PROVE r[k + 1] = a
    OBVIOUS
  <2>1. k + 1 \in 1 .. n /\ (k + 1) - 1 = k /\ r[k] = a
    BY <1>0, <1>3
  <2>2. r[k + 1] = LoadRecord(a, t[k + 1], stream, c)
    BY <1>1, <2>1 DEF IsPlay
  <2>3. \A x : LoadRecord(a, x, stream, c) = a
    BY DEF LoadRecord
  <2> QED
    BY <2>2, <2>3
<1>4. n \in P
  <2> HIDE DEF P
  <2>1. Nat \subseteq P
    BY <1>2, <1>3, InductionOver
  <2> QED
    BY <1>0, <2>1
<1> QED
  BY <1>0, <1>1, <1>4

-----------------------------------------------------------------------------
(* A database, a sequence of entries with different keys.                  *)

Distinct(db) == \A i, j \in DOMAIN db : db[i].key = db[j].key => i = j
DropKey(db, k) == RemoveFirstMatch(db, LAMBDA e : e.key = k)

LEMMA KeyDropped ==
  ASSUME NEW S, NEW db \in Seq(S), Distinct(db), NEW k
  PROVE  /\ DropKey(db, k) \in Seq(S) /\ Distinct(DropKey(db, k))
         /\ Elements(DropKey(db, k)) = {e \in Elements(db) : e.key # k}
<1> DEFINE n == Len(db)
           I == {i \in 1 .. n : db[i].key = k}
<1>0. n \in Nat /\ DOMAIN db = 1 .. n /\ \A i \in 1 .. n : db[i] \in S
  OBVIOUS
<1>1. DropKey(db, k) = IF I # {} THEN RemoveAt(db, Min(I)) ELSE db
  BY <1>0 DEF DropKey, RemoveFirstMatch, SelectInSeq
<1>2. CASE I = {}
  <2>1. DropKey(db, k) = db
    BY <1>1, <1>2
  <2>2. \A i \in 1 .. n : db[i].key # k
    BY <1>2
  <2>3. Elements(db) = {e \in Elements(db) : e.key # k}
    BY <1>0, <2>2 DEF Elements
  <2> QED
    BY <2>1, <2>3
<1>3. CASE I # {}
  <2>1. PICK p \in 1 .. n : db[p].key = k
    BY <1>3
  <2>2. I = {p}
    BY <1>0, <2>1 DEF Distinct
  <2>3. Min(I) = p
    BY <2>2 DEF Min
  <2> DEFINE w == RemoveAt(db, p)
  <2>4. DropKey(db, k) = w
    BY <1>1, <1>3, <2>3
  <2>5. /\ w \in Seq(S) /\ Len(w) = n - 1 /\ DOMAIN w = 1 .. n - 1
        /\ \A i \in 1 .. n - 1 : w[i] = IF i < p THEN db[i] ELSE db[i + 1]
    <3>1. /\ SubSeq(db, 1, p - 1) \in Seq(S) /\ Len(SubSeq(db, 1, p - 1)) = p - 1
          /\ \A i \in 1 .. p - 1 : SubSeq(db, 1, p - 1)[i] = db[i]
      BY <1>0
    <3>2. /\ SubSeq(db, p + 1, n) \in Seq(S) /\ Len(SubSeq(db, p + 1, n)) = n - p
          /\ \A i \in 1 .. n - p : SubSeq(db, p + 1, n)[i] = db[p + i]
      <4> HIDE DEF n
      <4>1. \A i \in p + 1 .. n : db[i] \in S
        BY <1>0
      <4>2. p + 1 \in Int /\ n \in Int /\ p + 1 <= n + 1
        BY <1>0
      <4>3. SubSeq(db, p + 1, n) \in Seq(S)
        BY <4>1, <4>2
      <4>4. Len(SubSeq(db, p + 1, n)) = n - p
        BY <1>0, <4>2
      <4>5. ASSUME NEW i \in 1 .. n - p PROVE SubSeq(db, p + 1, n)[i] = db[p + i]
        <5>1. i \in 1 .. n + 1 - (p + 1) /\ (p + 1) + i - 1 = p + i
          BY <1>0
        <5> QED
          BY <4>2, <5>1
      <4> QED
        BY <4>3, <4>4, <4>5
    <3> DEFINE x == SubSeq(db, 1, p - 1)
               y == SubSeq(db, p + 1, n)
    <3>3. w = x \o y
      BY DEF RemoveAt
    <3> HIDE DEF x, y, w, n
    <3>4. w \in Seq(S) /\ Len(w) = (p - 1) + (n - p) /\ DOMAIN w = 1 .. Len(w)
      BY <3>1, <3>2, <3>3 DEF x, y
    <3>5. ASSUME NEW i \in 1 .. n - 1 PROVE w[i] = IF i < p THEN db[i] ELSE db[i + 1]
      <4>1. CASE i < p
        <5>1. i \in 1 .. p - 1 /\ i \in 1 .. Len(x)
          BY <1>0, <3>1, <4>1 DEF x
        <5> QED
          BY <3>1, <3>2, <3>3, <4>1, <5>1 DEF x, y
      <4>2. CASE ~(i < p)
        <5>1. i - (p - 1) \in 1 .. n - p /\ i > p - 1 /\ i <= (p - 1) + (n - p)
              /\ p + (i - (p - 1)) = i + 1
          BY <1>0, <4>2
        <5>2. w[i] = y[i - (p - 1)]
          <6>1. x \in Seq(S) /\ y \in Seq(S) /\ Len(x) = p - 1 /\ Len(y) = n - p
            BY <3>1, <3>2 DEF x, y
          <6>2. i \in 1 .. Len(x) + Len(y) /\ ~(i <= Len(x))
            BY <1>0, <4>2, <6>1
          <6>3. w[i] = y[i - Len(x)]
            BY <3>3, <6>1, <6>2
          <6> QED
            BY <6>1, <6>3
        <5> QED
          BY <3>2, <4>2, <5>1, <5>2 DEF y
      <4> QED
        BY <4>1, <4>2
    <3>6. Len(w) = n - 1
      BY <1>0, <3>4
    <3> QED
      BY <3>4, <3>5, <3>6
  <2> HIDE DEF w, n, I
  <2>6. Distinct(w)
    <3> SUFFICES ASSUME NEW i \in 1 .. n - 1, NEW j \in 1 .. n - 1, w[i].key = w[j].key
                 PROVE  i = j
      BY <2>5 DEF Distinct
    <3>1. /\ i \in 1 .. n /\ j \in 1 .. n /\ i + 1 \in 1 .. n /\ j + 1 \in 1 .. n
      BY <1>0
    <3>2. PICK k1 \in 1 .. n : w[i] = db[k1] /\ k1 = IF i < p THEN i ELSE i + 1
      BY <2>5, <3>1
    <3>3. PICK k2 \in 1 .. n : w[j] = db[k2] /\ k2 = IF j < p THEN j ELSE j + 1
      BY <2>5, <3>1
    <3>4. k1 = k2
      BY <1>0, <3>2, <3>3 DEF Distinct
    <3> QED
      BY <3>2, <3>3, <3>4
  <2>7. Elements(w) = {e \in Elements(db) : e.key # k}
    <3>1. ASSUME NEW e \in Elements(w) PROVE e \in Elements(db) /\ e.key # k
      <4>1. PICK i \in 1 .. n - 1 : e = w[i]
        BY <2>5 DEF Elements
      <4>2. PICK m \in 1 .. n : m # p /\ e = db[m]
        <5>1. CASE i < p
          BY <1>0, <2>5, <4>1, <5>1
        <5>2. CASE ~(i < p)
          <6>1. i + 1 \in 1 .. n /\ i + 1 # p
            BY <1>0, <5>2
          <6> QED
            BY <2>5, <4>1, <5>2, <6>1
        <5> QED
          BY <5>1, <5>2
      <4> QED
        BY <1>0, <2>1, <4>2 DEF Elements, Distinct
    <3>2. ASSUME NEW e \in Elements(db), e.key # k PROVE e \in Elements(w)
      <4>1. PICK m \in 1 .. n : e = db[m]
        BY <1>0 DEF Elements
      <4>2. m # p
        BY <2>1, <3>2, <4>1
      <4>3. PICK i \in 1 .. n - 1 : e = w[i]
        <5>1. CASE m < p
          <6>1. m \in 1 .. n - 1
            BY <1>0, <5>1
          <6> QED
            BY <2>5, <4>1, <5>1, <6>1
        <5>2. CASE ~(m < p)
          <6>1. m - 1 \in 1 .. n - 1 /\ ~(m - 1 < p) /\ (m - 1) + 1 = m
            BY <1>0, <4>2, <5>2
          <6> QED
            BY <2>5, <4>1, <6>1
        <5> QED
          BY <5>1, <5>2
      <4> QED
        BY <2>5, <4>3 DEF Elements
    <3> QED
      BY <3>1, <3>2
  <2> QED
    BY <2>4, <2>5, <2>6, <2>7
<1> QED
  BY <1>2, <1>3

LEMMA EntryAppended ==
  ASSUME NEW S, NEW db \in Seq(S), Distinct(db), NEW e \in S, \A d \in Elements(db) : d.key # e.key
  PROVE  /\ Append(db, e) \in Seq(S) /\ Distinct(Append(db, e))
         /\ Elements(Append(db, e)) = Elements(db) \cup {e}
<1> DEFINE n == Len(db)
           w == Append(db, e)
<1>1. /\ n \in Nat /\ DOMAIN db = 1 .. n /\ w \in Seq(S) /\ DOMAIN w = 1 .. n + 1
      /\ \A i \in 1 .. n : w[i] = db[i] /\ w[n + 1] = e
  OBVIOUS
<1>2. w[n + 1] = e
  OBVIOUS
<1> HIDE DEF n, w
<1>3. \A i \in 1 .. n : db[i].key # e.key
  BY <1>1 DEF Elements
<1>4. Distinct(w)
  <2> SUFFICES ASSUME NEW i \in 1 .. n + 1, NEW j \in 1 .. n + 1, w[i].key = w[j].key
               PROVE  i = j
    BY <1>1 DEF Distinct
  <2>1. (i \in 1 .. n \/ i = n + 1) /\ (j \in 1 .. n \/ j = n + 1)
    BY <1>1
  <2> QED
    BY <1>1, <1>2, <1>3, <2>1 DEF Distinct
<1>5. Elements(w) = Elements(db) \cup {e}
  <2>1. ASSUME NEW d \in Elements(w) PROVE d \in Elements(db) \cup {e}
    <3>1. PICK i \in 1 .. n + 1 : d = w[i]
      BY <1>1 DEF Elements
    <3>2. i \in 1 .. n \/ i = n + 1
      BY <1>1
    <3> QED
      BY <1>1, <1>2, <3>1, <3>2 DEF Elements
  <2>2. ASSUME NEW d \in Elements(db) PROVE d \in Elements(w)
    <3>1. PICK i \in 1 .. n : d = db[i]
      BY <1>1 DEF Elements
    <3>2. i \in 1 .. n + 1
      BY <1>1
    <3> QED
      BY <1>1, <3>1, <3>2 DEF Elements
  <2>3. e \in Elements(w)
    <3>1. n + 1 \in 1 .. n + 1
      BY <1>1
    <3> QED
      BY <1>1, <1>2, <3>1 DEF Elements
  <2> QED
    BY <2>1, <2>2, <2>3
<1> QED
  BY <1>1, <1>4, <1>5 DEF w

\* A database has as many entries as keys.
LEMMA DistinctCounted ==
  ASSUME NEW S, NEW db \in Seq(S), Distinct(db)
  PROVE  Len(db) = Cardinality(Elements(db))
<1> DEFINE n == Len(db)
<1>1. n \in Nat /\ DOMAIN db = 1 .. n
  OBVIOUS
<1> DEFINE f == [i \in 1 .. n |-> db[i]]
<1>2. f \in Bijection(1 .. n, Elements(db))
  <2>1. f \in [1 .. n -> Elements(db)]
    BY <1>1 DEF Elements
  <2>2. \A i, j \in 1 .. n : f[i] = f[j] => i = j
    BY <1>1 DEF Distinct
  <2>3. \A e \in Elements(db) : \E i \in 1 .. n : f[i] = e
    BY <1>1 DEF Elements
  <2> HIDE DEF f, n
  <2> QED
    BY <2>1, <2>2, <2>3 DEF Bijection, Injection, Surjection, IsInjective
<1> HIDE DEF f, n
<1>3. Cardinality(Elements(db)) = n
  BY <1>1, <1>2, FS_CountingElements DEF ExistsBijection
<1> QED
  BY <1>3 DEF n

LEMMA OwnElements ==
  ASSUME NEW S, NEW t \in Seq(S)
  PROVE  t \in Seq(Elements(t)) /\ Elements(t) \subseteq S
<1>1. DOMAIN t = 1 .. Len(t) /\ Len(t) \in Nat /\ \A i \in 1 .. Len(t) : t[i] \in S
  OBVIOUS
<1>2. \A i \in 1 .. Len(t) : t[i] \in Elements(t)
  BY <1>1 DEF Elements
<1>3. t = [i \in 1 .. Len(t) |-> t[i]]
  BY <1>1
<1>4. t \in Seq(Elements(t))
  <2> DEFINE n == Len(t)
             E == Elements(t)
  <2>1. t = [i \in 1 .. n |-> t[i]] /\ n \in Nat /\ \A i \in 1 .. n : t[i] \in E
    BY <1>1, <1>2, <1>3
  <2> HIDE DEF n, E
  <2>2. [i \in 1 .. n |-> t[i]] \in Seq(E)
    BY <2>1
  <2> QED
    BY <2>1, <2>2 DEF E
<1>5. Elements(t) \subseteq S
  BY <1>1 DEF Elements
<1> QED
  BY <1>4, <1>5

-----------------------------------------------------------------------------
(* What one record does to the state of a load, field by field.            *)

Shaped(a) ==
  /\ DOMAIN a = {"ended", "dbid", "attr", "dbs", "libraries", "replid", "offset", "streamdb",
                 "fed", "read"}
  /\ DOMAIN a.attr = {"expire", "idle", "freq"} /\ DOMAIN a.dbs = 1 .. DbNum /\ a.read \in Nat
SamePosition(z, a) == z.replid = a.replid /\ z.offset = a.offset /\ z.streamdb = a.streamdb
SameData(z, a) == z.dbs = a.dbs /\ z.dbid = a.dbid /\ z.fed = a.fed
GoesOn(z, a) == Shaped(z) /\ z.ended = "no" /\ z.read = a.read + 1

LEMMA AttributeLoaded ==
  ASSUME NEW a, Shaped(a), a.ended = "no", NEW stream, NEW c,
         NEW r, r.op \in {"expiretime", "idle", "freq"}
  PROVE  LET z == LoadRecord(a, r, stream, c)
         IN /\ GoesOn(z, a) /\ SamePosition(z, a) /\ SameData(z, a) /\ z.libraries = a.libraries
            /\ z.attr.expire = IF r.op = "expiretime" THEN r.ms ELSE a.attr.expire
            /\ z.attr.idle = IF r.op = "idle" THEN r.seconds ELSE a.attr.idle
            /\ z.attr.freq = IF r.op = "freq" THEN r.counter ELSE a.attr.freq
<1> DEFINE next == [a EXCEPT !.read = @ + 1]
           z == LoadRecord(a, r, stream, c)
<1>1. /\ DOMAIN next = DOMAIN a /\ next.ended = "no" /\ next.read = a.read + 1 /\ next.attr = a.attr
      /\ SamePosition(next, a) /\ SameData(next, a) /\ next.libraries = a.libraries
      /\ next.read \in Nat
  BY DEF Shaped, SamePosition, SameData
<1>2. CASE r.op = "expiretime"
  <2>1. z = [next EXCEPT !.attr.expire = r.ms]
    BY <1>2 DEF LoadRecord
  <2> HIDE DEF next, z
  <2>2. /\ DOMAIN z = DOMAIN a /\ z.ended = "no" /\ z.read = a.read + 1
        /\ SamePosition(z, a) /\ SameData(z, a) /\ z.libraries = a.libraries
        /\ z.attr = [a.attr EXCEPT !.expire = r.ms]
    BY <1>1, <2>1 DEF Shaped, SamePosition, SameData
  <2> QED
    BY <1>1, <1>2, <2>2 DEF Shaped, GoesOn, SameData, z
<1>3. CASE r.op = "idle"
  <2>1. z = [next EXCEPT !.attr.idle = r.seconds]
    BY <1>3 DEF LoadRecord
  <2> HIDE DEF next, z
  <2>2. /\ DOMAIN z = DOMAIN a /\ z.ended = "no" /\ z.read = a.read + 1
        /\ SamePosition(z, a) /\ SameData(z, a) /\ z.libraries = a.libraries
        /\ z.attr = [a.attr EXCEPT !.idle = r.seconds]
    BY <1>1, <2>1 DEF Shaped, SamePosition, SameData
  <2> QED
    BY <1>1, <1>3, <2>2 DEF Shaped, GoesOn, SameData, z
<1>4. CASE r.op = "freq"
  <2>1. z = [next EXCEPT !.attr.freq = r.counter]
    BY <1>4 DEF LoadRecord
  <2> HIDE DEF next, z
  <2>2. /\ DOMAIN z = DOMAIN a /\ z.ended = "no" /\ z.read = a.read + 1
        /\ SamePosition(z, a) /\ SameData(z, a) /\ z.libraries = a.libraries
        /\ z.attr = [a.attr EXCEPT !.freq = r.counter]
    BY <1>1, <2>1 DEF Shaped, SamePosition, SameData
  <2> QED
    BY <1>1, <1>4, <2>2 DEF Shaped, GoesOn, SameData, z
<1> QED
  BY <1>2, <1>3, <1>4

LEMMA HintLoaded ==
  ASSUME NEW a, Shaped(a), a.ended = "no", NEW stream, NEW c, NEW r, r.op \in {"resizedb", "eof"}
  PROVE  LET z == LoadRecord(a, r, stream, c)
         IN /\ GoesOn(z, a) /\ SamePosition(z, a) /\ SameData(z, a) /\ z.libraries = a.libraries
            /\ z.attr = a.attr
<1>1. LoadRecord(a, r, stream, c) = [a EXCEPT !.read = @ + 1]
  BY DEF LoadRecord
<1> QED
  BY <1>1 DEF Shaped, GoesOn, SamePosition, SameData

LEMMA DatabaseSelected ==
  ASSUME NEW a, Shaped(a), a.ended = "no", NEW stream, NEW c,
         NEW r, r.op = "selectdb", r.db \in Nat
  PROVE  LET z == LoadRecord(a, r, stream, c)
         IN /\ Shaped(z) /\ SamePosition(z, a) /\ z.libraries = a.libraries
            /\ z.dbs = a.dbs /\ z.fed = a.fed /\ z.attr = a.attr
            /\ r.db < DbNum => GoesOn(z, a) /\ z.dbid = r.db
            /\ r.db >= DbNum => z.ended = "exit"
<1>0. DbNum \in Nat
  BY FormatAssumption
<1>1. LoadRecord(a, r, stream, c) =
        IF r.db >= DbNum THEN [a EXCEPT !.ended = "exit"]
        ELSE [[a EXCEPT !.read = @ + 1] EXCEPT !.dbid = r.db]
  BY DEF LoadRecord
<1>2. CASE r.db >= DbNum
  BY <1>0, <1>1, <1>2 DEF Shaped, GoesOn, SamePosition
<1>3. CASE ~(r.db >= DbNum)
  BY <1>0, <1>1, <1>3 DEF Shaped, GoesOn, SamePosition
<1> QED
  BY <1>2, <1>3

\* What is loaded of an entry.
FormOf(e, from, to) ==
  [key |-> e.key, val |-> e.val, expire |-> e.expire,
   idle |-> UsageKept(e, from, to).idle, freq |-> UsageKept(e, from, to).freq]
HasAttributes(a, e, from) ==
  /\ a.attr.expire = e.expire
  /\ a.attr.idle = IF from = "LRU" THEN e.idle \div 1000 ELSE -1
  /\ a.attr.freq = IF from = "LFU" THEN e.freq ELSE -1
ValueRecord(e) == [op |-> "value", key |-> e.key, val |-> e.val]
IsTaken(db, k) == \E d \in Elements(db) : d.key = k
Refusing(e, db, c) == /\ e.val # EMPTY /\ ~Expires(e, c) /\ IsTaken(db, e.key) /\ "dup" \notin c.flags
LeftOut(e, c) == e.val = EMPTY \/ Expires(e, c)
Announced(e, c) == e.val # EMPTY /\ Expires(e, c) /\ "feed" \in c.flags

\* Between two keys of a database.
Between(a, j) == Shaped(a) /\ a.ended = "no" /\ a.attr = NoAttributes /\ a.dbid = j - 1

\* The state z a key makes of a.
AfterKey(z, a, e, from, c, j) ==
  /\ Shaped(z) /\ SamePosition(z, a) /\ z.libraries = a.libraries
  /\ Refusing(e, a.dbs[j], c) => z.ended = "panic"
  /\ ~Refusing(e, a.dbs[j], c) =>
       /\ Between(z, j) /\ \A i \in 1 .. DbNum : i # j => z.dbs[i] = a.dbs[i]
       /\ z.dbs[j] = IF LeftOut(e, c) THEN a.dbs[j]
                     ELSE Append(DropKey(a.dbs[j], e.key), FormOf(e, from, c.policy))
       /\ z.fed = IF Announced(e, c) THEN a.fed \cup {<<j - 1, e.key>>} ELSE a.fed

LEMMA UsageFromAttributes ==
  ASSUME NEW a, NEW e, e.idle \in Nat, NEW from, NEW to, HasAttributes(a, e, from)
  PROVE  Usage(a.attr, to) = [idle |-> UsageKept(e, from, to).idle, freq |-> UsageKept(e, from, to).freq]
<1> DEFINE q == e.idle \div 1000
<1>1. q \in Nat /\ q # -1 /\ q * 1000 = e.idle - (e.idle % 1000)
  <2> DEFINE x == e.idle
  <2>1. x \in Nat
    OBVIOUS
  <2> HIDE DEF x
  <2>2. /\ x \div 1000 \in Nat /\ x = 1000 * (x \div 1000) + (x % 1000)
        /\ x % 1000 \in Nat
    BY <2>1, SMTT(60)
  <2>3. (x \div 1000) * 1000 = x - (x % 1000)
    BY <2>1, <2>2
  <2> QED
    BY <2>2, <2>3 DEF x
<1> HIDE DEF q
<1>2. a.attr.idle = (IF from = "LRU" THEN q ELSE -1) /\ a.attr.freq = IF from = "LFU" THEN e.freq ELSE -1
  BY DEF HasAttributes, q
<1>3. (IF to = "LFU" \/ a.attr.idle = -1 THEN -1 ELSE a.attr.idle * 1000) =
        IF from = "LRU" /\ to # "LFU" THEN e.idle - (e.idle % 1000) ELSE -1
  BY <1>1, <1>2
<1>4. (IF to = "LFU" THEN a.attr.freq ELSE -1) =
        IF from = "LFU" /\ to = "LFU" THEN e.freq ELSE -1
  BY <1>2
<1> QED
  BY <1>3, <1>4 DEF Usage, UsageKept

LEMMA ValueLoaded ==
  ASSUME NEW j \in 1 .. DbNum, NEW a, Shaped(a), a.ended = "no", a.dbid = j - 1,
         NEW e, e.idle \in Nat, NEW from, HasAttributes(a, e, from),
         NEW stream, NEW c
  PROVE  AfterKey(LoadRecord(a, ValueRecord(e), stream, c), a, e, from, c, j)
<1> DEFINE r == ValueRecord(e)
           z == LoadRecord(a, r, stream, c)
           next == [a EXCEPT !.read = @ + 1]
           reset == [next EXCEPT !.attr = NoAttributes]
<1>0. DbNum \in Nat /\ j \in Nat /\ (j - 1) + 1 = j
  BY FormatAssumption
<1>1. r.op = "value" /\ r.key = e.key /\ r.val = e.val
  BY DEF ValueRecord
<1>2. z = LoadValue(next, r, c)
  <2> HIDE DEF r, next
  <2>1. z = IF a.ended # "no" THEN a
            ELSE LoadValue([a EXCEPT !.read = @ + 1], r, c)
    BY <1>1 DEF LoadRecord
  <2> QED
    BY <2>1 DEF next
<1>3. /\ DOMAIN next = DOMAIN a /\ next.ended = "no" /\ next.read = a.read + 1 /\ next.attr = a.attr
      /\ SamePosition(next, a) /\ SameData(next, a) /\ next.libraries = a.libraries
      /\ next.read \in Nat
  BY DEF Shaped, SamePosition, SameData
<1>4. Shaped(next)
  BY <1>3 DEF Shaped, SameData
<1>5. /\ Between(reset, j) /\ SamePosition(reset, a)
      /\ reset.libraries = a.libraries /\ SameData(reset, a)
  <2> HIDE DEF next
  <2>1. DOMAIN NoAttributes = {"expire", "idle", "freq"}
    BY DEF NoAttributes
  <2> QED
    BY <1>3, <1>4, <2>1 DEF Shaped, Between, SamePosition, SameData
<1>6. Skipped(next, r, c) <=> Expires(e, c)
  BY <1>3 DEF Skipped, Expires, HasAttributes
<1>7. Taken(next, r) <=> IsTaken(a.dbs[j], e.key)
  BY <1>0, <1>1, <1>3 DEF Taken, IsTaken, Elements, SameData
<1> HIDE DEF r, next, z
<1>8. CASE e.val = EMPTY
  <2>1. z = reset
    BY <1>1, <1>2, <1>8 DEF LoadValue
  <2>2. LeftOut(e, c) /\ ~Announced(e, c) /\ ~Refusing(e, a.dbs[j], c)
    BY <1>8 DEF LeftOut, Announced, Refusing
  <2> HIDE DEF reset
  <2> QED
    BY <1>5, <2>1, <2>2 DEF AfterKey, Between, SameData, z, r
<1>9. CASE e.val # EMPTY /\ Expires(e, c)
  <2>1. z = IF "feed" \in c.flags THEN [reset EXCEPT !.fed = @ \cup {<<next.dbid, r.key>>}] ELSE reset
    BY <1>1, <1>2, <1>6, <1>9 DEF LoadValue
  <2>2. LeftOut(e, c) /\ (Announced(e, c) <=> "feed" \in c.flags) /\ ~Refusing(e, a.dbs[j], c)
    BY <1>9 DEF LeftOut, Announced, Refusing
  <2>3. next.dbid = j - 1
    BY <1>3 DEF SameData
  <2> HIDE DEF reset
  <2>4. /\ Between(z, j) /\ SamePosition(z, a)
        /\ z.libraries = a.libraries /\ z.dbs = a.dbs
        /\ z.fed = IF Announced(e, c) THEN a.fed \cup {<<j - 1, e.key>>} ELSE a.fed
    BY <1>1, <1>5, <2>1, <2>2, <2>3 DEF Between, Shaped, SamePosition, SameData
  <2> QED
    BY <2>2, <2>4 DEF AfterKey, Between, z, r
<1>10. CASE Refusing(e, a.dbs[j], c)
  <2>1. z = [next EXCEPT !.ended = "panic"]
    BY <1>1, <1>2, <1>6, <1>7, <1>10 DEF LoadValue, Refusing
  <2>2. /\ Shaped(z) /\ SamePosition(z, a) /\ z.libraries = a.libraries /\ z.ended = "panic"
    BY <1>3, <1>4, <2>1 DEF Shaped, SamePosition
  <2> QED
    BY <1>10, <2>2 DEF AfterKey, z, r
<1>11. CASE e.val # EMPTY /\ ~Expires(e, c) /\ ~Refusing(e, a.dbs[j], c)
  <2>1. z = [Added(next, r, c.policy) EXCEPT !.attr = NoAttributes]
    BY <1>1, <1>2, <1>6, <1>7, <1>11 DEF LoadValue, Refusing
  <2> DEFINE f == FormOf(e, from, c.policy)
             w == Append(DropKey(a.dbs[j], e.key), f)
             l == Added(next, r, c.policy)
  <2>2. l = [next EXCEPT !.dbs[j] = w]
    <3> DEFINE usage == Usage(next.attr, c.policy)
    <3>1. usage.idle = UsageKept(e, from, c.policy).idle /\ usage.freq = UsageKept(e, from, c.policy).freq
      <4>1. usage = [idle |-> UsageKept(e, from, c.policy).idle, freq |-> UsageKept(e, from, c.policy).freq]
        BY <1>3, UsageFromAttributes
      <4> HIDE DEF usage
      <4> QED
        BY <4>1
    <3>2. next.dbid + 1 = j /\ next.dbs = a.dbs /\ next.attr.expire = e.expire
      BY <1>0, <1>3 DEF SameData, HasAttributes
    <3> HIDE DEF usage
    <3>3. l = [next EXCEPT !.dbs[j] =
                 Append(DropKey(@, r.key),
                        [key |-> r.key, val |-> r.val, expire |-> next.attr.expire,
                         idle |-> usage.idle, freq |-> usage.freq])]
      BY <3>2 DEF Added, usage, DropKey
    <3>4. [key |-> r.key, val |-> r.val, expire |-> next.attr.expire,
           idle |-> usage.idle, freq |-> usage.freq] = f
      BY <1>1, <3>1, <3>2 DEF FormOf
    <3> HIDE DEF f
    <3> QED
      BY <1>1, <3>2, <3>3, <3>4
  <2> HIDE DEF l, w
  <2>3. /\ Between(z, j) /\ SamePosition(z, a)
        /\ z.libraries = a.libraries /\ z.fed = a.fed /\ z.dbs = [a.dbs EXCEPT ![j] = w]
    <3>1. /\ DOMAIN l = DOMAIN a /\ l.ended = "no" /\ l.read \in Nat
          /\ SamePosition(l, a) /\ l.dbid = j - 1
          /\ l.libraries = a.libraries /\ l.fed = a.fed /\ l.dbs = [a.dbs EXCEPT ![j] = w]
      BY <1>3, <2>2 DEF Shaped, SamePosition, SameData
    <3>2. DOMAIN NoAttributes = {"expire", "idle", "freq"}
      BY DEF NoAttributes
    <3> QED
      BY <2>1, <3>1, <3>2 DEF Shaped, Between, SamePosition, l
  <2>4. ~LeftOut(e, c) /\ ~Announced(e, c)
    BY <1>11 DEF LeftOut, Announced
  <2>5. z.dbs[j] = w /\ \A i \in 1 .. DbNum : i # j => z.dbs[i] = a.dbs[i]
    BY <2>3 DEF Shaped
  <2> QED
    BY <1>11, <2>3, <2>4, <2>5 DEF AfterKey, Between, z, r, w
<1> QED
  BY <1>8, <1>9, <1>10, <1>11 DEF Refusing

\* The records of a key.
KeyRecords(e) == {[op |-> "expiretime", ms |-> e.expire], [op |-> "idle", seconds |-> e.idle \div 1000],
                  [op |-> "freq", counter |-> e.freq], ValueRecord(e)}

LEMMA KeySaved ==
  ASSUME NEW e, NEW from
  PROVE  SaveKey(e, from) \in Seq(KeyRecords(e))
<1> DEFINE x == [op |-> "expiretime", ms |-> e.expire]
           y == [op |-> "idle", seconds |-> e.idle \div 1000]
           w == [op |-> "freq", counter |-> e.freq]
           v == ValueRecord(e)
           S == {x, y, w, v}
           X == IF e.expire # -1 THEN <<x>> ELSE << >>
           Y == CASE from = "LRU" -> <<y>> [] from = "LFU" -> <<w>> [] OTHER -> << >>
<1>1. X \in Seq(S) /\ Y \in Seq(S) /\ <<v>> \in Seq(S) /\ X \o Y \in Seq(S)
  <2> HIDE DEF x, y, w, v
  <2>1. X \in Seq(S) /\ <<v>> \in Seq(S)
    <3>1. CASE e.expire # -1
      BY <3>1
    <3>2. CASE e.expire = -1
      BY <3>2
    <3> QED
      BY <3>1, <3>2
  <2>2. Y \in Seq(S)
    <3>1. CASE from = "LRU"
      BY <3>1
    <3>2. CASE from = "LFU"
      BY <3>2
    <3>3. CASE from \notin {"LRU", "LFU"}
      BY <3>3
    <3> QED
      BY <3>1, <3>2, <3>3
  <2> HIDE DEF X, Y
  <2> QED
    BY <2>1, <2>2
<1>2. SaveKey(e, from) = (X \o Y) \o <<v>>
  BY Zenon DEF SaveKey, ValueRecord
<1> HIDE DEF x, y, w, v, X, Y
<1>3. SaveKey(e, from) \in Seq(S)
  BY <1>1, <1>2
<1> QED
  BY <1>3 DEF x, y, w, v, KeyRecords

\* The records of a key make of a state between keys what AfterKey says.
LEMMA KeyPlayed ==
  ASSUME NEW j \in 1 .. DbNum, NEW a, Between(a, j),
         NEW e, e.idle \in Nat, NEW from, NEW stream, NEW c
  PROVE  AfterKey(Play(a, SaveKey(e, from), stream, c), a, e, from, c, j)
<1> DEFINE x == [op |-> "expiretime", ms |-> e.expire]
           y == [op |-> "idle", seconds |-> e.idle \div 1000]
           w == [op |-> "freq", counter |-> e.freq]
           v == ValueRecord(e)
           S == {x, y, w, v}
           X == IF e.expire # -1 THEN <<x>> ELSE << >>
           Y == CASE from = "LRU" -> <<y>> [] from = "LFU" -> <<w>> [] OTHER -> << >>
<1>1. X \in Seq(S) /\ Y \in Seq(S) /\ <<v>> \in Seq(S) /\ X \o Y \in Seq(S)
  <2> HIDE DEF x, y, w, v
  <2>1. X \in Seq(S) /\ <<v>> \in Seq(S)
    <3>1. CASE e.expire # -1
      BY <3>1
    <3>2. CASE e.expire = -1
      BY <3>2
    <3> QED
      BY <3>1, <3>2
  <2>2. Y \in Seq(S)
    <3>1. CASE from = "LRU"
      BY <3>1
    <3>2. CASE from = "LFU"
      BY <3>2
    <3>3. CASE from \notin {"LRU", "LFU"}
      BY <3>3
    <3> QED
      BY <3>1, <3>2, <3>3
  <2> HIDE DEF X, Y
  <2> QED
    BY <2>1, <2>2
<1>2. SaveKey(e, from) = (X \o Y) \o <<v>>
  BY Zenon DEF SaveKey, ValueRecord
<1> DEFINE b == Play(a, X, stream, c)
           d == Play(b, Y, stream, c)
<1>3. Play(a, SaveKey(e, from), stream, c) = LoadRecord(d, v, stream, c)
  <2> HIDE DEF X, Y, v, S
  <2>1. Play(a, (X \o Y) \o <<v>>, stream, c) = Play(Play(a, X \o Y, stream, c), <<v>>, stream, c)
    <3> DEFINE t == X \o Y
               u == <<v>>
    <3>1. t \in Seq(S) /\ u \in Seq(S)
      BY <1>1
    <3> HIDE DEF t, u
    <3>2. Play(a, t \o u, stream, c) = Play(Play(a, t, stream, c), u, stream, c)
      BY <3>1, PlayTwo
    <3> QED
      BY <3>2 DEF t, u
  <2>2. Play(a, X \o Y, stream, c) = d
    BY <1>1, PlayTwo
  <2> QED
    BY <1>2, <2>1, <2>2, PlayOne
<1>4. /\ SamePosition(b, a) /\ SameData(b, a) /\ b.libraries = a.libraries
      /\ Shaped(b) /\ b.ended = "no"
      /\ b.attr.expire = e.expire /\ b.attr.idle = -1 /\ b.attr.freq = -1
  <2>0. Shaped(a) /\ a.ended = "no" /\ a.attr.expire = -1 /\ a.attr.idle = -1 /\ a.attr.freq = -1
    BY DEF Between, NoAttributes
  <2>1. CASE e.expire # -1
    <3>1. b = LoadRecord(a, x, stream, c)
      <4>1. X = <<x>>
        BY <2>1
      <4> HIDE DEF X, x
      <4> QED
        BY <4>1, PlayOne
    <3>2. x.op = "expiretime" /\ x.ms = e.expire
      OBVIOUS
    <3> HIDE DEF x, b
    <3> QED
      BY <2>0, <3>1, <3>2, AttributeLoaded DEF GoesOn
  <2>2. CASE e.expire = -1
    <3>1. b = a
      <4>1. X = << >>
        BY <2>2
      <4> HIDE DEF X
      <4> QED
        BY <4>1, PlayNone
    <3> HIDE DEF b
    <3> QED
      BY <2>0, <2>2, <3>1 DEF SamePosition, SameData
  <2> QED
    BY <2>1, <2>2
<1>5. /\ SamePosition(d, a) /\ SameData(d, a) /\ d.libraries = a.libraries
      /\ Shaped(d) /\ d.ended = "no" /\ HasAttributes(d, e, from)
  <2> HIDE DEF b
  <2>1. CASE from = "LRU"
    <3>1. d = LoadRecord(b, y, stream, c)
      <4>1. Y = <<y>>
        BY <2>1
      <4> HIDE DEF Y, y
      <4> QED
        BY <4>1, PlayOne
    <3>2. y.op = "idle" /\ y.seconds = e.idle \div 1000
      OBVIOUS
    <3> HIDE DEF y, d
    <3> QED
      BY <1>4, <2>1, <3>1, <3>2, AttributeLoaded DEF GoesOn, HasAttributes, SamePosition, SameData
  <2>2. CASE from = "LFU"
    <3>1. d = LoadRecord(b, w, stream, c)
      <4>1. Y = <<w>>
        BY <2>2
      <4> HIDE DEF Y, w
      <4> QED
        BY <4>1, PlayOne
    <3>2. w.op = "freq" /\ w.counter = e.freq
      OBVIOUS
    <3> HIDE DEF w, d
    <3> QED
      BY <1>4, <2>2, <3>1, <3>2, AttributeLoaded DEF GoesOn, HasAttributes, SamePosition, SameData
  <2>3. CASE from \notin {"LRU", "LFU"}
    <3>1. d = b
      <4>1. Y = << >>
        BY <2>3
      <4> HIDE DEF Y
      <4> QED
        BY <4>1, PlayNone
    <3> HIDE DEF d
    <3> QED
      BY <1>4, <2>3, <3>1 DEF HasAttributes
  <2> QED
    BY <2>1, <2>2, <2>3
<1> HIDE DEF d, v
<1> DEFINE z == LoadRecord(d, v, stream, c)
<1>6. d.dbid = j - 1
  BY <1>5 DEF SameData, Between
<1>7. AfterKey(z, d, e, from, c, j)
  BY <1>5, <1>6, ValueLoaded DEF v
<1> HIDE DEF z
<1>8. AfterKey(z, a, e, from, c, j)
  BY <1>5, <1>7 DEF AfterKey, SamePosition, SameData
<1> QED
  BY <1>3, <1>8 DEF z

-----------------------------------------------------------------------------
(* The sequences that FlattenSeq() joins are played one after the other.   *)

FlattenBody(f, w, i) == IF i = 1 THEN w[i] ELSE f[i - 1] \o w[i]

LEMMA FlattenExists ==
  ASSUME NEW n \in Nat, NEW w
  PROVE  \E f : f = [i \in 1 .. n |-> FlattenBody(f, w, i)]
<1> DEFINE D == 1 .. n
           P == {k \in Nat : \E g : /\ g = [i \in D |-> g[i]]
                                    /\ \A i \in D : i <= k => g[i] = FlattenBody(g, w, i)}
<1>1. 0 \in P
  <2> DEFINE g == [i \in D |-> << >>]
  <2>1. g = [i \in D |-> g[i]] /\ \A i \in D : ~(i <= 0)
    OBVIOUS
  <2> HIDE DEF g, D
  <2> QED
    BY <2>1
<1>2. ASSUME NEW k \in Nat, k \in P PROVE k + 1 \in P
  <2>1. PICK g : g = [i \in D |-> g[i]] /\ \A i \in D : i <= k => g[i] = FlattenBody(g, w, i)
    BY <1>2
  <2> DEFINE h == [i \in D |-> FlattenBody(g, w, i)]
  <2>2. h = [i \in D |-> h[i]]
    OBVIOUS
  <2>3. ASSUME NEW i \in D, i <= k + 1 PROVE h[i] = FlattenBody(h, w, i)
    <3>1. h[i] = FlattenBody(g, w, i)
      OBVIOUS
    <3>2. CASE i = 1
      BY <3>1, <3>2 DEF FlattenBody
    <3>3. CASE i # 1
      <4>1. i - 1 \in D /\ i - 1 <= k
        BY <2>3, <3>3
      <4>2. h[i - 1] = FlattenBody(g, w, i - 1) /\ g[i - 1] = FlattenBody(g, w, i - 1)
        BY <2>1, <4>1
      <4> HIDE DEF h, D
      <4> QED
        BY <3>1, <3>3, <4>2 DEF FlattenBody
    <3> QED
      BY <3>2, <3>3
  <2> HIDE DEF h, D
  <2>4. \E f : f = [i \in D |-> f[i]] /\ \A i \in D : i <= k + 1 => f[i] = FlattenBody(f, w, i)
    BY <2>2, <2>3
  <2> QED
    BY <2>4
<1>3. n \in P
  <2> HIDE DEF P
  <2>1. Nat \subseteq P
    BY <1>1, <1>2, InductionOver
  <2> QED
    BY <2>1
<1>4. PICK g : g = [i \in D |-> g[i]] /\ \A i \in D : i <= n => g[i] = FlattenBody(g, w, i)
  BY <1>3
<1>5. \A i \in D : g[i] = FlattenBody(g, w, i)
  BY <1>4
<1>6. [i \in D |-> g[i]] = [i \in D |-> FlattenBody(g, w, i)]
  <2> HIDE DEF D
  <2> QED
    BY <1>5
<1> QED
  BY <1>4, <1>6

LEMMA FlattenSums ==
  ASSUME NEW S, NEW w \in Seq(Seq(S))
  PROVE  \E f : /\ f[0] = << >> /\ \A i \in 1 .. Len(w) : f[i] = f[i - 1] \o w[i]
                /\ \A i \in 0 .. Len(w) : f[i] \in Seq(S)
                /\ FlattenSeq(w) = f[Len(w)]
<1> DEFINE n == Len(w)
<1>0. n \in Nat /\ \A i \in 1 .. n : w[i] \in Seq(S)
  OBVIOUS
<1> DEFINE B(f) == f = [i \in 1 .. n |-> FlattenBody(f, w, i)]
           g == CHOOSE f : B(f)
<1>1. g = [i \in 1 .. n |-> FlattenBody(g, w, i)]
  <2>1. \E f : B(f)
    BY <1>0, FlattenExists, Zenon
  <2> HIDE DEF B
  <2>2. B(g)
    BY <2>1, Zenon
  <2> QED
    BY <2>2 DEF B
<1>2. FlattenSeq(w) = IF n = 0 THEN w ELSE g[n]
  BY DEF FlattenSeq, FlattenBody
<1> HIDE DEF g
<1> DEFINE h == [i \in 0 .. n |-> IF i = 0 THEN << >> ELSE g[i]]
           P == {k \in Nat : k <= n => h[k] \in Seq(S)}
<1>3. h[0] = << >> /\ \A i \in 1 .. n : h[i] = g[i]
  BY <1>0
<1> HIDE DEF h, n
<1>4. ASSUME NEW i \in 1 .. n, h[i - 1] \in Seq(S) PROVE h[i] = h[i - 1] \o w[i]
  <2>1. h[i] = FlattenBody(g, w, i)
    BY <1>1, <1>3
  <2>2. CASE i = 1
    <3>1. << >> \o w[1] = w[1]
      BY <1>0, <2>2
    <3>2. h[i] = w[1] /\ i - 1 = 0
      BY <2>1, <2>2 DEF FlattenBody
    <3>3. h[i - 1] = << >>
      BY <1>3, <3>2
    <3> QED
      BY <2>2, <3>1, <3>2, <3>3
  <2>3. CASE i # 1
    <3>1. i - 1 \in 1 .. n
      BY <1>0, <2>3
    <3> QED
      BY <1>3, <2>1, <2>3, <3>1 DEF FlattenBody
  <2> QED
    BY <2>2, <2>3
<1>5. 0 \in P
  <2>1. << >> \in Seq(S)
    OBVIOUS
  <2>2. h[0] \in Seq(S)
    BY <1>3, <2>1, Zenon
  <2> QED
    BY <2>2
<1>6. ASSUME NEW k \in Nat, k \in P PROVE k + 1 \in P
  <2> SUFFICES ASSUME k + 1 <= n PROVE h[k + 1] \in Seq(S)
    OBVIOUS
  <2>1. k + 1 \in 1 .. n /\ (k + 1) - 1 = k /\ h[k] \in Seq(S)
    BY <1>0, <1>6
  <2>2. h[k + 1] = h[k] \o w[k + 1] /\ w[k + 1] \in Seq(S)
    BY <1>0, <1>4, <2>1
  <2> QED
    BY <2>1, <2>2
<1>7. \A k \in Nat : k <= n => h[k] \in Seq(S)
  <2> HIDE DEF P
  <2>1. Nat \subseteq P
    BY <1>5, <1>6, InductionOver
  <2> QED
    BY <2>1 DEF P
<1>8. \A i \in 0 .. n : h[i] \in Seq(S)
  BY <1>0, <1>7
<1>9. \A i \in 1 .. n : h[i] = h[i - 1] \o w[i]
  <2> TAKE i \in 1 .. n
  <2>1. i - 1 \in 0 .. n
    BY <1>0
  <2> QED
    BY <1>4, <1>8, <2>1
<1>10. FlattenSeq(w) = h[n]
  <2>1. CASE n = 0
    <3>1. w = << >>
      BY <1>0, <2>1 DEF n
    <3> QED
      BY <1>2, <1>3, <2>1, <3>1
  <2>2. CASE n # 0
    <3>1. n \in 1 .. n
      BY <1>0, <2>2
    <3> QED
      BY <1>2, <1>3, <2>2, <3>1
  <2> QED
    BY <2>1, <2>2
<1> QED
  BY <1>3, <1>8, <1>9, <1>10 DEF n

\* The states between the sequences.
IsPlayOfAll(q, a, w, stream, c) ==
  q[0] = a /\ \A i \in 1 .. Len(w) : q[i] = Play(q[i - 1], w[i], stream, c)

PlayedAsOne(a, w, S, stream, c) ==
  \E q : /\ IsPlayOfAll(q, a, w, stream, c)
         /\ FlattenSeq(w) \in Seq(S)
         /\ Play(a, FlattenSeq(w), stream, c) = q[Len(w)]

LEMMA FlattenPlayed ==
  ASSUME NEW a, NEW S, NEW w \in Seq(Seq(S)), NEW stream, NEW c
  PROVE  PlayedAsOne(a, w, S, stream, c)
<1> DEFINE n == Len(w)
<1>0. n \in Nat /\ \A i \in 1 .. n : w[i] \in Seq(S)
  OBVIOUS
<1>1. PICK f : /\ f[0] = << >> /\ \A i \in 1 .. n : f[i] = f[i - 1] \o w[i]
               /\ \A i \in 0 .. n : f[i] \in Seq(S)
               /\ FlattenSeq(w) = f[n]
  BY FlattenSums
<1> HIDE DEF n
<1> DEFINE q == [i \in 0 .. n |-> Play(a, f[i], stream, c)]
<1>2. q[0] = a
  <2>1. 0 \in 0 .. n
    BY <1>0
  <2> QED
    BY <1>1, <2>1, PlayNone
<1>3. ASSUME NEW i \in 1 .. n PROVE q[i] = Play(q[i - 1], w[i], stream, c)
  <2>1. i \in 0 .. n /\ i - 1 \in 0 .. n
    BY <1>0
  <2>2. /\ q[i] = Play(a, f[i - 1] \o w[i], stream, c) /\ q[i - 1] = Play(a, f[i - 1], stream, c)
        /\ f[i - 1] \in Seq(S) /\ w[i] \in Seq(S)
    BY <1>0, <1>1, <2>1
  <2> HIDE DEF q
  <2>3. Play(a, f[i - 1] \o w[i], stream, c) = Play(Play(a, f[i - 1], stream, c), w[i], stream, c)
    <3> DEFINE t == f[i - 1]
               u == w[i]
    <3>1. t \in Seq(S) /\ u \in Seq(S)
      BY <2>2
    <3> HIDE DEF t, u
    <3>2. Play(a, t \o u, stream, c) = Play(Play(a, t, stream, c), u, stream, c)
      BY <3>1, PlayTwo
    <3> QED
      BY <3>2 DEF t, u
  <2> QED
    BY <2>2, <2>3
<1>4. n \in 0 .. n
  BY <1>0
<1>5. Play(a, FlattenSeq(w), stream, c) = q[n] /\ FlattenSeq(w) \in Seq(S)
  BY <1>1, <1>4
<1> HIDE DEF q
<1> QED
  BY <1>2, <1>3, <1>5 DEF n, IsPlayOfAll, PlayedAsOne

LEMMA FlattenIn ==
  ASSUME NEW S, NEW w \in Seq(Seq(S))
  PROVE  FlattenSeq(w) \in Seq(S)
<1>1. Len(w) \in 0 .. Len(w)
  OBVIOUS
<1>2. PICK f : /\ \A i \in 0 .. Len(w) : f[i] \in Seq(S)
               /\ FlattenSeq(w) = f[Len(w)]
  BY FlattenSums, Zenon
<1> QED
  BY <1>1, <1>2, Zenon

-----------------------------------------------------------------------------
(* The keys of a database.                                                 *)

\* What the first k keys of db bring, what they make of the entries there were, and what is told
\* to the replicas; and whether the load must stop at one of them.
Brought(db, k, from, c) == {FormOf(db[i], from, c.policy) : i \in {n \in 1 .. k : ~LeftOut(db[n], c)}}
Merged(old, new) == new \cup {d \in old : d.key \notin KeyNames(new)}
Besides(S, f) == {d \in S : d.key # f.key}
Told(db, k, c, j) == {<<j - 1, db[i].key>> : i \in {n \in 1 .. k : Announced(db[n], c)}}
Clashing(db, k, old, c) ==
  "dup" \notin c.flags /\ \E i \in 1 .. k : ~LeftOut(db[i], c) /\ IsTaken(old, db[i].key)
Filled(db, S) == db \in Seq(S) /\ Distinct(db)

AfterKeys(z, a, db, k, from, c, j) ==
  /\ Shaped(z) /\ SamePosition(z, a) /\ z.libraries = a.libraries
  /\ Clashing(db, k, a.dbs[j], c) => z.ended = "panic"
  /\ ~Clashing(db, k, a.dbs[j], c) =>
       /\ Between(z, j) /\ \A i \in 1 .. DbNum : i # j => z.dbs[i] = a.dbs[i]
       /\ Filled(z.dbs[j], Elements(z.dbs[j]))
       /\ Elements(z.dbs[j]) = Merged(Elements(a.dbs[j]), Brought(db, k, from, c))
       /\ z.fed = a.fed \cup Told(db, k, c, j)

MergesOne(old, new, f) == Merged(old, new \cup {f}) = Besides(Merged(old, new), f) \cup {f}

LEMMA MergedMore ==
  ASSUME NEW old, NEW new, NEW f, f.key \notin KeyNames(new)
  PROVE  MergesOne(old, new, f)
<1>1. KeyNames(new \cup {f}) = KeyNames(new) \cup {f.key}
  BY DEF KeyNames
<1>2. \A d \in new : d.key \in KeyNames(new)
  BY DEF KeyNames
<1> QED
  BY <1>1, <1>2 DEF Merged, Besides, MergesOne

\* One more key is brought, dropped or refused.
OneMore(db, k, from, c, j) ==
  /\ Brought(db, k, from, c) = IF LeftOut(db[k], c) THEN Brought(db, k - 1, from, c)
       ELSE Brought(db, k - 1, from, c) \cup {FormOf(db[k], from, c.policy)}
  /\ FormOf(db[k], from, c.policy).key = db[k].key
  /\ db[k].key \notin KeyNames(Brought(db, k - 1, from, c))
  /\ Told(db, k, c, j) = IF Announced(db[k], c) THEN Told(db, k - 1, c, j) \cup {<<j - 1, db[k].key>>}
                         ELSE Told(db, k - 1, c, j)

LEMMA BroughtMore ==
  ASSUME NEW db, NEW n \in Nat, DOMAIN db = 1 .. n, Distinct(db), NEW k \in 1 .. n, NEW from, NEW c, NEW j
  PROVE  OneMore(db, k, from, c, j)
<1>0. 1 .. k = (1 .. k - 1) \cup {k}
  OBVIOUS
<1>1. \A i \in 1 .. n : FormOf(db[i], from, c.policy).key = db[i].key
  BY DEF FormOf
<1>2. \A i \in 1 .. k - 1 : i \in 1 .. n /\ db[i].key # db[k].key
  BY DEF Distinct
<1>3. db[k].key \notin KeyNames(Brought(db, k - 1, from, c))
  BY <1>1, <1>2 DEF KeyNames, Brought
<1>4. Brought(db, k, from, c) = IF LeftOut(db[k], c) THEN Brought(db, k - 1, from, c)
                                ELSE Brought(db, k - 1, from, c) \cup {FormOf(db[k], from, c.policy)}
  <2> DEFINE I == {m \in 1 .. k : ~LeftOut(db[m], c)}
             H == {m \in 1 .. k - 1 : ~LeftOut(db[m], c)}
  <2>1. I = IF LeftOut(db[k], c) THEN H ELSE H \cup {k}
    BY <1>0
  <2> HIDE DEF I, H
  <2>2. Brought(db, k, from, c) = {FormOf(db[i], from, c.policy) : i \in I}
    BY DEF Brought, I
  <2>3. Brought(db, k - 1, from, c) = {FormOf(db[i], from, c.policy) : i \in H}
    BY DEF Brought, H
  <2> QED
    BY <2>1, <2>2, <2>3
<1>5. Told(db, k, c, j) = IF Announced(db[k], c) THEN Told(db, k - 1, c, j) \cup {<<j - 1, db[k].key>>}
                          ELSE Told(db, k - 1, c, j)
  <2> DEFINE I == {m \in 1 .. k : Announced(db[m], c)}
             H == {m \in 1 .. k - 1 : Announced(db[m], c)}
  <2>1. I = IF Announced(db[k], c) THEN H \cup {k} ELSE H
    BY <1>0
  <2> HIDE DEF I, H
  <2>2. Told(db, k, c, j) = {<<j - 1, db[i].key>> : i \in I}
    BY DEF Told, I
  <2>3. Told(db, k - 1, c, j) = {<<j - 1, db[i].key>> : i \in H}
    BY DEF Told, H
  <2> QED
    BY <2>1, <2>2, <2>3
<1> QED
  BY <1>1, <1>3, <1>4, <1>5 DEF OneMore

LEMMA ClashingMore ==
  ASSUME NEW db, NEW k \in Nat \ {0}, NEW old, NEW c
  PROVE  Clashing(db, k, old, c) <=>
           \/ Clashing(db, k - 1, old, c)
           \/ "dup" \notin c.flags /\ ~LeftOut(db[k], c) /\ IsTaken(old, db[k].key)
<1>1. 1 .. k = (1 .. k - 1) \cup {k}
  OBVIOUS
<1> QED
  BY <1>1 DEF Clashing

LEMMA OneMoreKey ==
  ASSUME NEW j \in 1 .. DbNum, NEW a, NEW db, NEW n \in Nat, DOMAIN db = 1 .. n, Distinct(db),
         NEW k \in 1 .. n, db[k].idle \in Nat, NEW from, NEW stream, NEW c,
         NEW y, AfterKeys(y, a, db, k - 1, from, c, j)
  PROVE  AfterKeys(Play(y, SaveKey(db[k], from), stream, c), a, db, k, from, c, j)
<1>a. OneMore(db, k, from, c, j)
  BY BroughtMore, Zenon
<1> DEFINE e == db[k]
           f == FormOf(e, from, c.policy)
           old == Elements(a.dbs[j])
           new == Brought(db, k - 1, from, c)
           z == Play(y, SaveKey(e, from), stream, c)
<1>0. /\ Brought(db, k, from, c) = IF LeftOut(e, c) THEN new ELSE new \cup {f}
      /\ f.key = e.key /\ e.key \notin KeyNames(new)
      /\ Told(db, k, c, j) = IF Announced(e, c) THEN Told(db, k - 1, c, j) \cup {<<j - 1, e.key>>}
                             ELSE Told(db, k - 1, c, j)
  BY <1>a DEF OneMore
<1>1. k \in Nat \ {0}
  OBVIOUS
<1>2. Clashing(db, k, a.dbs[j], c) <=>
        \/ Clashing(db, k - 1, a.dbs[j], c)
        \/ "dup" \notin c.flags /\ ~LeftOut(e, c) /\ IsTaken(a.dbs[j], e.key)
  BY <1>1, ClashingMore
<1> HIDE DEF new, f, old
<1>b. MergesOne(old, new, f)
  <2>1. f.key \notin KeyNames(new)
    BY <1>0
  <2> QED
    BY <2>1, MergedMore
<1> USE DEF old
<1>3. CASE Clashing(db, k - 1, a.dbs[j], c)
  <2>1. y.ended = "panic"
    BY <1>3 DEF AfterKeys
  <2>2. z = y
    <3>1. SaveKey(e, from) \in Seq(KeyRecords(e))
      BY KeySaved
    <3> QED
      BY <2>1, <3>1, EndedPlay
  <2> HIDE DEF z
  <2>3. AfterKeys(z, a, db, k, from, c, j)
    BY <1>2, <1>3, <2>1, <2>2 DEF AfterKeys
  <2> QED
    BY <2>3 DEF z
<1>4. CASE ~Clashing(db, k - 1, a.dbs[j], c)
  <2>1. /\ Shaped(y) /\ SamePosition(y, a) /\ y.libraries = a.libraries
        /\ Between(y, j) /\ \A i \in 1 .. DbNum : i # j => y.dbs[i] = a.dbs[i]
        /\ Filled(y.dbs[j], Elements(y.dbs[j]))
        /\ Elements(y.dbs[j]) = Merged(old, new)
        /\ y.fed = a.fed \cup Told(db, k - 1, c, j)
    BY <1>4 DEF AfterKeys, new
  <2>2. AfterKey(z, y, e, from, c, j)
    BY <2>1, KeyPlayed
  <2>3. IsTaken(y.dbs[j], e.key) <=> IsTaken(a.dbs[j], e.key)
    <3>1. \A d \in new : d.key # e.key
      BY <1>0 DEF KeyNames
    <3> QED
      BY <1>0, <2>1, <3>1 DEF IsTaken, Merged
  <2>4. Refusing(e, y.dbs[j], c) <=> Clashing(db, k, a.dbs[j], c)
    BY <1>2, <1>4, <2>3 DEF Refusing, LeftOut
  <2> HIDE DEF z, e
  <2>5. CASE Clashing(db, k, a.dbs[j], c)
    BY <2>1, <2>2, <2>4, <2>5 DEF AfterKey, AfterKeys, SamePosition, z, e
  <2>6. CASE ~Clashing(db, k, a.dbs[j], c)
    <3>1. /\ Shaped(z) /\ SamePosition(z, a) /\ z.libraries = a.libraries
          /\ Between(z, j) /\ \A i \in 1 .. DbNum : i # j => z.dbs[i] = a.dbs[i]
          /\ z.dbs[j] = IF LeftOut(e, c) THEN y.dbs[j] ELSE Append(DropKey(y.dbs[j], e.key), f)
          /\ z.fed = IF Announced(e, c) THEN y.fed \cup {<<j - 1, e.key>>} ELSE y.fed
      BY <2>1, <2>2, <2>4, <2>6 DEF AfterKey, SamePosition, f
    <3>2. z.fed = a.fed \cup Told(db, k, c, j)
      BY <1>0, <2>1, <3>1
    <3>3. /\ Filled(z.dbs[j], Elements(z.dbs[j]))
          /\ Elements(z.dbs[j]) = Merged(old, Brought(db, k, from, c))
      <4>1. CASE LeftOut(e, c)
        BY <1>0, <2>1, <3>1, <4>1
      <4>2. CASE ~LeftOut(e, c)
        <5> DEFINE w == y.dbs[j]
                   u == DropKey(w, e.key)
                   S == Elements(w) \cup {f}
        <5>1. w \in Seq(S) /\ Distinct(w) /\ f \in S
          <6>1. w \in Seq(Elements(w)) /\ Distinct(w)
            BY <2>1 DEF Filled
          <6> HIDE DEF w
          <6>2. DOMAIN w = 1 .. Len(w) /\ Len(w) \in Nat /\ \A i \in 1 .. Len(w) : w[i] \in S
            BY <6>1
          <6>3. w \in Seq(S)
            BY <6>1, <6>2
          <6> QED
            BY <6>1, <6>3
        <5> HIDE DEF w
        <5>2. /\ u \in Seq(S) /\ Distinct(u)
              /\ Elements(u) = {d \in Elements(w) : d.key # e.key}
          <6> HIDE DEF S
          <6> QED
            BY <5>1, KeyDropped
        <5>3. \A d \in Elements(u) : d.key # f.key
          BY <1>0, <5>2 DEF e
        <5> HIDE DEF u, S
        <5>4. /\ Append(u, f) \in Seq(S) /\ Distinct(Append(u, f))
              /\ Elements(Append(u, f)) = Elements(u) \cup {f}
          BY <5>1, <5>2, <5>3, EntryAppended
        <5>5. z.dbs[j] = Append(u, f)
          BY <3>1, <4>2 DEF u, w
        <5>6. Filled(z.dbs[j], Elements(z.dbs[j]))
          BY <5>4, <5>5, OwnElements DEF Filled
        <5>7. Elements(z.dbs[j]) = Besides(Merged(old, new), f) \cup {f}
          BY <1>0, <2>1, <5>2, <5>4, <5>5 DEF w, e, Besides
        <5>8. Merged(old, new \cup {f}) = Besides(Merged(old, new), f) \cup {f}
          BY <1>b DEF MergesOne
        <5> QED
          BY <1>0, <4>2, <5>6, <5>7, <5>8 DEF e
      <4> QED
        BY <4>1, <4>2
    <3> QED
      BY <2>6, <3>1, <3>2, <3>3 DEF AfterKeys, z, e
  <2> QED
    BY <2>5, <2>6
<1> QED
  BY <1>3, <1>4

-----------------------------------------------------------------------------
(* The databases of a dump.                                                *)

KeysSaved(db, from) == [i \in DOMAIN db |-> SaveKey(db[i], from)]
DatabaseRecords(dbs) ==
       {[op |-> "selectdb", db |-> i] : i \in Nat}
  \cup {[op |-> "resizedb", keys |-> Len(db),
         expires |-> Cardinality({i \in DOMAIN db : db[i].expire # -1})] : db \in Elements(dbs)}
  \cup UNION {KeyRecords(e) : e \in UNION {Elements(db) : db \in Elements(dbs)}}

LEMMA WiderSeq ==
  ASSUME NEW S, NEW T, S \subseteq T, NEW t \in Seq(S)
  PROVE  t \in Seq(T)
<1>1. Len(t) \in Nat /\ t = [i \in 1 .. Len(t) |-> t[i]] /\ \A i \in 1 .. Len(t) : t[i] \in T
  OBVIOUS
<1> DEFINE n == Len(t)
<1> HIDE DEF n
<1>2. [i \in 1 .. n |-> t[i]] \in Seq(T)
  BY <1>1 DEF n
<1> QED
  BY <1>1, <1>2 DEF n

LEMMA KeysAreSaved ==
  ASSUME NEW dbs, NEW db \in Elements(dbs), db \in Seq(Elements(db)), NEW from
  PROVE  KeysSaved(db, from) \in Seq(Seq(DatabaseRecords(dbs)))
<1> DEFINE n == Len(db)
           S == DatabaseRecords(dbs)
           w == KeysSaved(db, from)
<1>1. n \in Nat /\ DOMAIN db = 1 .. n
  OBVIOUS
<1>2. ASSUME NEW i \in 1 .. n PROVE SaveKey(db[i], from) \in Seq(S)
  <2>1. db[i] \in Elements(db)
    BY <1>1 DEF Elements
  <2>2. KeyRecords(db[i]) \subseteq S
    BY <2>1 DEF DatabaseRecords
  <2> HIDE DEF S
  <2> QED
    BY <2>2, KeySaved, WiderSeq
<1>3. w = [i \in 1 .. n |-> SaveKey(db[i], from)]
  BY <1>1 DEF KeysSaved
<1> HIDE DEF S, n, w
<1>4. [i \in 1 .. n |-> SaveKey(db[i], from)] \in Seq(Seq(S))
  BY <1>1, <1>2
<1> QED
  BY <1>3, <1>4 DEF w, S

\* All keys of a database.
LEMMA KeysPlayed ==
  ASSUME NEW j \in 1 .. DbNum, NEW a, Between(a, j), Filled(a.dbs[j], Elements(a.dbs[j])),
         NEW dbs, NEW db \in Elements(dbs), db \in Seq(Elements(db)), Distinct(db),
         \A e \in Elements(db) : e.idle \in Nat, NEW from, NEW stream, NEW c
  PROVE  /\ AfterKeys(Play(a, FlattenSeq(KeysSaved(db, from)), stream, c), a, db, Len(db), from, c, j)
         /\ FlattenSeq(KeysSaved(db, from)) \in Seq(DatabaseRecords(dbs))
<1> DEFINE n == Len(db)
           S == DatabaseRecords(dbs)
           w == KeysSaved(db, from)
<1>1. n \in Nat /\ DOMAIN db = 1 .. n
  OBVIOUS
<1>2. w \in Seq(Seq(S)) /\ Len(w) = n /\ \A i \in 1 .. n : w[i] = SaveKey(db[i], from)
  <2>1. w \in Seq(Seq(S))
    BY KeysAreSaved
  <2>2. DOMAIN w = 1 .. n /\ \A i \in 1 .. n : w[i] = SaveKey(db[i], from)
    BY <1>1 DEF KeysSaved
  <2> HIDE DEF w, S, n
  <2>3. Len(w) = n
    BY <1>1, <2>1, <2>2
  <2> QED
    BY <2>1, <2>2, <2>3
<1> HIDE DEF S, w
<1>3. PICK q : /\ IsPlayOfAll(q, a, w, stream, c) /\ FlattenSeq(w) \in Seq(S)
               /\ Play(a, FlattenSeq(w), stream, c) = q[Len(w)]
  <2>1. w \in Seq(Seq(S))
    BY <1>2
  <2>2. PlayedAsOne(a, w, S, stream, c)
    BY <2>1, FlattenPlayed, Zenon
  <2> QED
    BY <2>2 DEF PlayedAsOne
<1> HIDE DEF n
<1> DEFINE P == {k \in Nat : k <= n => AfterKeys(q[k], a, db, k, from, c, j)}
<1>4. 0 \in P
  <2>1. q[0] = a
    BY <1>3 DEF IsPlayOfAll
  <2>2. /\ Brought(db, 0, from, c) = {} /\ Told(db, 0, c, j) = {}
        /\ ~Clashing(db, 0, a.dbs[j], c)
    BY DEF Brought, Told, Clashing
  <2>3. Merged(Elements(a.dbs[j]), {}) = Elements(a.dbs[j])
    BY DEF Merged, KeyNames
  <2>4. AfterKeys(a, a, db, 0, from, c, j)
    BY <2>2, <2>3 DEF AfterKeys, Between, SamePosition
  <2> QED
    BY <2>1, <2>4
<1>5. ASSUME NEW k \in Nat, k \in P PROVE k + 1 \in P
  <2> SUFFICES ASSUME k + 1 <= n PROVE AfterKeys(q[k + 1], a, db, k + 1, from, c, j)
    OBVIOUS
  <2>1. k + 1 \in 1 .. n /\ (k + 1) - 1 = k
    BY <1>1
  <2>2. q[k + 1] = Play(q[k], SaveKey(db[k + 1], from), stream, c)
    BY <1>2, <1>3, <2>1 DEF IsPlayOfAll
  <2>3. AfterKeys(q[k], a, db, k, from, c, j)
    BY <1>1, <1>5
  <2>4. db[k + 1].idle \in Nat
    BY <1>1, <2>1 DEF Elements
  <2> DEFINE m == k + 1
             y == q[k]
  <2>5. m \in 1 .. n /\ AfterKeys(y, a, db, m - 1, from, c, j) /\ db[m].idle \in Nat
    BY <2>1, <2>3, <2>4
  <2> HIDE DEF m, y
  <2>6. AfterKeys(Play(y, SaveKey(db[m], from), stream, c), a, db, m, from, c, j)
    BY <1>1, <2>5, OneMoreKey
  <2> QED
    BY <2>2, <2>6 DEF m, y
<1>6. n \in P
  <2> HIDE DEF P
  <2>1. Nat \subseteq P
    BY <1>4, <1>5, InductionOver
  <2> QED
    BY <1>1, <2>1
<1>7. AfterKeys(q[n], a, db, n, from, c, j)
  BY <1>1, <1>6
<1> QED
  BY <1>2, <1>3, <1>7 DEF n, w, S

\* Between two databases.
AtRest(a) == Shaped(a) /\ a.ended = "no" /\ a.attr = NoAttributes

LEMMA DatabaseSaved ==
  ASSUME NEW dbs, NEW db \in Elements(dbs), db \in Seq(Elements(db)), Distinct(db),
         NEW from, NEW dbid \in Nat
  PROVE  SaveDb(dbid, db, from) \in Seq(DatabaseRecords(dbs))
<1> DEFINE S == DatabaseRecords(dbs)
           x == [op |-> "selectdb", db |-> dbid]
           y == [op |-> "resizedb", keys |-> Len(db),
                 expires |-> Cardinality({i \in DOMAIN db : db[i].expire # -1})]
           F == FlattenSeq(KeysSaved(db, from))
<1>1. x \in S /\ y \in S
  BY DEF DatabaseRecords
<1>2. F \in Seq(S)
  <2>1. KeysSaved(db, from) \in Seq(Seq(S))
    BY KeysAreSaved
  <2> QED
    BY <2>1, FlattenIn, Zenon
<1>3. SaveDb(dbid, db, from) = IF db = << >> THEN << >> ELSE <<x, y>> \o F
  BY DEF SaveDb, KeysSaved
<1> HIDE DEF S, x, y, F
<1>4. <<x, y>> \o F \in Seq(S) /\ << >> \in Seq(S)
  BY <1>1, <1>2
<1> QED
  BY <1>3, <1>4 DEF S

LEMMA DatabasePlayed ==
  ASSUME NEW j \in Nat \ {0}, NEW a, AtRest(a),
         j <= DbNum => Filled(a.dbs[j], Elements(a.dbs[j])),
         NEW dbs, NEW db \in Elements(dbs), db \in Seq(Elements(db)), Distinct(db), db # << >>,
         \A e \in Elements(db) : e.idle \in Nat, NEW from, NEW stream, NEW c
  PROVE  LET z == Play(a, SaveDb(j - 1, db, from), stream, c)
         IN /\ j <= DbNum => AfterKeys(z, a, db, Len(db), from, c, j)
            /\ j > DbNum => /\ Shaped(z) /\ SamePosition(z, a) /\ z.libraries = a.libraries
                            /\ z.ended = "exit"
<1> DEFINE S == DatabaseRecords(dbs)
           x == [op |-> "selectdb", db |-> j - 1]
           y == [op |-> "resizedb", keys |-> Len(db),
                 expires |-> Cardinality({i \in DOMAIN db : db[i].expire # -1})]
           F == FlattenSeq(KeysSaved(db, from))
           z == Play(a, SaveDb(j - 1, db, from), stream, c)
           b == LoadRecord(a, x, stream, c)
           d == LoadRecord(b, y, stream, c)
<1>0. DbNum \in Nat /\ j - 1 \in Nat
  BY FormatAssumption
<1>1. x \in S /\ y \in S /\ <<x>> \in Seq(S) /\ <<y>> \in Seq(S) /\ <<x, y>> \in Seq(S)
  <2>1. x \in S /\ y \in S
    BY <1>0 DEF DatabaseRecords
  <2> HIDE DEF S, x, y
  <2> QED
    BY <2>1
<1>2. F \in Seq(S)
  <2>1. KeysSaved(db, from) \in Seq(Seq(S))
    BY KeysAreSaved
  <2> QED
    BY <2>1, FlattenIn, Zenon
<1>3. SaveDb(j - 1, db, from) = <<x, y>> \o F
  BY DEF SaveDb, KeysSaved
<1>4. x.op = "selectdb" /\ x.db = j - 1 /\ y.op = "resizedb"
  OBVIOUS
<1>5. z = Play(d, F, stream, c)
  <2> HIDE DEF S, x, y, F
  <2>1. z = Play(Play(a, <<x, y>>, stream, c), F, stream, c)
    <3> DEFINE t == <<x, y>>
    <3>1. t \in Seq(S)
      BY <1>1
    <3> HIDE DEF t
    <3>2. Play(a, t \o F, stream, c) = Play(Play(a, t, stream, c), F, stream, c)
      BY <1>2, <3>1, PlayTwo
    <3> QED
      BY <1>3, <3>2 DEF t
  <2>2. Play(a, <<x, y>>, stream, c) = d
    BY PlayPair
  <2> QED
    BY <2>1, <2>2
<1> HIDE DEF x, y, S, F, z
<1>6. /\ Shaped(b) /\ SamePosition(b, a) /\ b.libraries = a.libraries
      /\ b.dbs = a.dbs /\ b.fed = a.fed /\ b.attr = a.attr
      /\ x.db < DbNum => GoesOn(b, a) /\ b.dbid = x.db
      /\ x.db >= DbNum => b.ended = "exit"
  BY <1>0, <1>4, DatabaseSelected DEF AtRest
<1> HIDE DEF b
<1>7. CASE j <= DbNum
  <2>1. b.ended = "no" /\ b.dbid = j - 1
    BY <1>0, <1>4, <1>6, <1>7 DEF GoesOn
  <2>2. /\ GoesOn(d, b) /\ SamePosition(d, b) /\ SameData(d, b) /\ d.libraries = b.libraries
        /\ d.attr = b.attr
    BY <1>4, <1>6, <2>1, HintLoaded
  <2> HIDE DEF d
  <2>3. /\ Between(d, j) /\ SamePosition(d, a) /\ d.libraries = a.libraries
        /\ d.dbs = a.dbs /\ d.fed = a.fed
    BY <1>6, <2>1, <2>2 DEF GoesOn, Between, AtRest, SamePosition, SameData
  <2>4. j \in 1 .. DbNum
    BY <1>0, <1>7
  <2>5. AfterKeys(z, d, db, Len(db), from, c, j)
    BY <1>5, <1>7, <2>3, <2>4, KeysPlayed DEF F
  <2>6. AfterKeys(z, a, db, Len(db), from, c, j)
    BY <2>3, <2>5 DEF AfterKeys, SamePosition
  <2> QED
    BY <1>0, <1>7, <2>6 DEF z
<1>8. CASE j > DbNum
  <2>1. b.ended = "exit"
    BY <1>0, <1>4, <1>6, <1>8
  <2>2. d = b
    BY <2>1 DEF LoadRecord
  <2>3. z = b
    <3> HIDE DEF d
    <3> QED
      BY <1>2, <1>5, <2>1, <2>2, EndedPlay
  <2> QED
    BY <1>0, <1>6, <1>8, <2>1, <2>3 DEF z
<1> QED
  BY <1>0, <1>7, <1>8

\* All databases of a server.
Saveable(db) == Filled(db, Elements(db)) /\ \A e \in Elements(db) : e.idle \in Nat
ClashUpTo(dbs, k, old, c) == \E j \in 1 .. DbNum : j <= k /\ Clashing(dbs[j], Len(dbs[j]), old[j], c)
Beyond(dbs, k) == \E j \in DbNum + 1 .. k : dbs[j] # << >>
AllTold(dbs, k, c) ==
  UNION {Told(dbs[j], Len(dbs[j]), c, j) : j \in {i \in 1 .. DbNum : i <= k}}
LoadedDb(z, a, db, j, from, c) ==
  /\ Filled(z.dbs[j], Elements(z.dbs[j]))
  /\ Elements(z.dbs[j]) = Merged(Elements(a.dbs[j]), Brought(db, Len(db), from, c))
LoadedDbs(z, a, dbs, k, from, c) ==
  /\ AtRest(z) /\ z.fed = a.fed \cup AllTold(dbs, k, c)
  /\ \A j \in 1 .. DbNum : /\ j <= k => LoadedDb(z, a, dbs[j], j, from, c)
                           /\ j > k => z.dbs[j] = a.dbs[j]

AfterDatabases(z, a, dbs, k, from, c) ==
  /\ Shaped(z) /\ SamePosition(z, a) /\ z.libraries = a.libraries
  /\ ClashUpTo(dbs, k, a.dbs, c) => z.ended = "panic"
  /\ ~ClashUpTo(dbs, k, a.dbs, c) /\ Beyond(dbs, k) => z.ended = "exit"
  /\ ~ClashUpTo(dbs, k, a.dbs, c) /\ ~Beyond(dbs, k) => LoadedDbs(z, a, dbs, k, from, c)

LEMMA UpToMore ==
  ASSUME NEW dbs, NEW k \in Nat \ {0}, NEW old, NEW c
  PROVE  /\ k <= DbNum => /\ ClashUpTo(dbs, k, old, c) <=>
                               \/ ClashUpTo(dbs, k - 1, old, c)
                               \/ Clashing(dbs[k], Len(dbs[k]), old[k], c)
                          /\ ~Beyond(dbs, k) /\ ~Beyond(dbs, k - 1)
                          /\ AllTold(dbs, k, c) = AllTold(dbs, k - 1, c) \cup Told(dbs[k], Len(dbs[k]), c, k)
         /\ k > DbNum => /\ ClashUpTo(dbs, k, old, c) <=> ClashUpTo(dbs, k - 1, old, c)
                         /\ Beyond(dbs, k) <=> Beyond(dbs, k - 1) \/ dbs[k] # << >>
                         /\ AllTold(dbs, k, c) = AllTold(dbs, k - 1, c)
<1>0. DbNum \in Nat
  BY FormatAssumption
<1>1. CASE k <= DbNum
  <2>1. k \in 1 .. DbNum /\ \A j \in 1 .. DbNum : j <= k <=> j <= k - 1 \/ j = k
    BY <1>0, <1>1
  <2>2. DbNum + 1 .. k = {} /\ DbNum + 1 .. k - 1 = {}
    BY <1>0, <1>1
  <2>3. {i \in 1 .. DbNum : i <= k} = {i \in 1 .. DbNum : i <= k - 1} \cup {k}
    BY <2>1
  <2>4. ClashUpTo(dbs, k, old, c) <=> \/ ClashUpTo(dbs, k - 1, old, c)
                                      \/ Clashing(dbs[k], Len(dbs[k]), old[k], c)
    BY <2>1 DEF ClashUpTo
  <2>5. ~Beyond(dbs, k) /\ ~Beyond(dbs, k - 1)
    BY <2>2 DEF Beyond
  <2>6. AllTold(dbs, k, c) = AllTold(dbs, k - 1, c) \cup Told(dbs[k], Len(dbs[k]), c, k)
    <3> DEFINE I == {i \in 1 .. DbNum : i <= k}
               H == {i \in 1 .. DbNum : i <= k - 1}
    <3>1. I = H \cup {k}
      BY <2>3
    <3> HIDE DEF I, H
    <3>2. UNION {Told(dbs[j], Len(dbs[j]), c, j) : j \in I} =
            (UNION {Told(dbs[j], Len(dbs[j]), c, j) : j \in H}) \cup Told(dbs[k], Len(dbs[k]), c, k)
      BY <3>1
    <3> QED
      BY <3>2 DEF AllTold, I, H
  <2> QED
    BY <1>0, <1>1, <2>4, <2>5, <2>6
<1>2. CASE k > DbNum
  <2>1. \A j \in 1 .. DbNum : j <= k /\ j <= k - 1
    BY <1>0, <1>2
  <2>2. DbNum + 1 .. k = (DbNum + 1 .. k - 1) \cup {k}
    BY <1>0, <1>2
  <2>3. {i \in 1 .. DbNum : i <= k} = {i \in 1 .. DbNum : i <= k - 1}
    BY <2>1
  <2>4. ClashUpTo(dbs, k, old, c) <=> ClashUpTo(dbs, k - 1, old, c)
    BY <2>1 DEF ClashUpTo
  <2>5. Beyond(dbs, k) <=> Beyond(dbs, k - 1) \/ dbs[k] # << >>
    BY <2>2 DEF Beyond
  <2>6. AllTold(dbs, k, c) = AllTold(dbs, k - 1, c)
    BY <2>3 DEF AllTold
  <2> QED
    BY <1>0, <1>2, <2>4, <2>5, <2>6
<1> QED
  BY <1>0, <1>1, <1>2

LEMMA EmptyDatabase ==
  ASSUME NEW db, db = << >>, NEW old, NEW from, NEW c, NEW j
  PROVE  /\ Brought(db, Len(db), from, c) = {} /\ Told(db, Len(db), c, j) = {}
         /\ ~Clashing(db, Len(db), old, c)
<1>1. Len(db) = 0 /\ 1 .. 0 = {}
  OBVIOUS
<1> QED
  BY <1>1 DEF Brought, Told, Clashing

LEMMA OneMoreDatabase ==
  ASSUME NEW dbs, NEW n \in Nat, DOMAIN dbs = 1 .. n, \A j \in 1 .. n : Saveable(dbs[j]),
         NEW a, \A j \in 1 .. DbNum : Filled(a.dbs[j], Elements(a.dbs[j])),
         NEW k \in 1 .. n, NEW from, NEW stream, NEW c,
         NEW y, AfterDatabases(y, a, dbs, k - 1, from, c)
  PROVE  AfterDatabases(Play(y, SaveDb(k - 1, dbs[k], from), stream, c), a, dbs, k, from, c)
<1> DEFINE db == dbs[k]
           z == Play(y, SaveDb(k - 1, db, from), stream, c)
<1>0. DbNum \in Nat /\ k \in Nat \ {0} /\ k - 1 \in Nat
  BY FormatAssumption
<1>1. db \in Elements(dbs) /\ Saveable(db)
  BY DEF Elements
<1>2. db \in Seq(Elements(db)) /\ Distinct(db) /\ \A e \in Elements(db) : e.idle \in Nat
  BY <1>1 DEF Saveable, Filled
<1>3. /\ k <= DbNum => /\ ClashUpTo(dbs, k, a.dbs, c) <=>
                            \/ ClashUpTo(dbs, k - 1, a.dbs, c)
                            \/ Clashing(dbs[k], Len(dbs[k]), a.dbs[k], c)
                       /\ ~Beyond(dbs, k) /\ ~Beyond(dbs, k - 1)
                       /\ AllTold(dbs, k, c) = AllTold(dbs, k - 1, c) \cup Told(dbs[k], Len(dbs[k]), c, k)
      /\ k > DbNum => /\ ClashUpTo(dbs, k, a.dbs, c) <=> ClashUpTo(dbs, k - 1, a.dbs, c)
                      /\ Beyond(dbs, k) <=> Beyond(dbs, k - 1) \/ dbs[k] # << >>
                      /\ AllTold(dbs, k, c) = AllTold(dbs, k - 1, c)
  BY <1>0, UpToMore
<1>4. SaveDb(k - 1, db, from) \in Seq(DatabaseRecords(dbs))
  BY <1>0, <1>1, <1>2, DatabaseSaved
<1>5. CASE ClashUpTo(dbs, k - 1, a.dbs, c) \/ Beyond(dbs, k - 1)
  <2>1. y.ended # "no"
    BY <1>5 DEF AfterDatabases
  <2>2. z = y
    BY <1>4, <2>1, EndedPlay
  <2> HIDE DEF z
  <2>3. /\ Beyond(dbs, k - 1) => Beyond(dbs, k)
        /\ ClashUpTo(dbs, k - 1, a.dbs, c) => ClashUpTo(dbs, k, a.dbs, c)
        /\ Beyond(dbs, k - 1) => (ClashUpTo(dbs, k, a.dbs, c) <=> ClashUpTo(dbs, k - 1, a.dbs, c))
    BY <1>0, <1>3
  <2>4. AfterDatabases(z, a, dbs, k, from, c)
    BY <1>5, <2>2, <2>3 DEF AfterDatabases
  <2> QED
    BY <2>4 DEF z
<1>6. CASE ~ClashUpTo(dbs, k - 1, a.dbs, c) /\ ~Beyond(dbs, k - 1)
  <2>1. /\ Shaped(y) /\ SamePosition(y, a) /\ y.libraries = a.libraries
        /\ LoadedDbs(y, a, dbs, k - 1, from, c)
    BY <1>6 DEF AfterDatabases
  <2>2. /\ AtRest(y) /\ y.fed = a.fed \cup AllTold(dbs, k - 1, c)
        /\ \A j \in 1 .. DbNum : /\ j <= k - 1 => LoadedDb(y, a, dbs[j], j, from, c)
                                 /\ j > k - 1 => y.dbs[j] = a.dbs[j]
    BY <2>1 DEF LoadedDbs
  <2>3. k <= DbNum => y.dbs[k] = a.dbs[k] /\ Filled(a.dbs[k], Elements(a.dbs[k]))
    <3> SUFFICES ASSUME k <= DbNum PROVE y.dbs[k] = a.dbs[k] /\ Filled(a.dbs[k], Elements(a.dbs[k]))
      OBVIOUS
    <3>1. k \in 1 .. DbNum /\ k > k - 1
      BY <1>0
    <3> QED
      BY <2>2, <3>1
  <2>4. CASE db = << >>
    <3>1. z = y
      <4>1. SaveDb(k - 1, db, from) = << >>
        BY <2>4 DEF SaveDb
      <4> QED
        BY <4>1, PlayNone
    <3> HIDE DEF z
    <3>2. /\ Brought(db, Len(db), from, c) = {} /\ Told(db, Len(db), c, k) = {}
          /\ ~Clashing(db, Len(db), a.dbs[k], c)
      <4> HIDE DEF db
      <4> QED
        BY <2>4, EmptyDatabase
    <3>3. ~ClashUpTo(dbs, k, a.dbs, c) /\ ~Beyond(dbs, k)
      BY <1>0, <1>3, <1>6, <2>4, <3>2
    <3>4. z.fed = a.fed \cup AllTold(dbs, k, c)
      BY <1>0, <1>3, <2>2, <3>1, <3>2
    <3>5. ASSUME NEW j \in 1 .. DbNum
          PROVE  /\ j <= k => LoadedDb(z, a, dbs[j], j, from, c)
                 /\ j > k => z.dbs[j] = a.dbs[j]
      <4>1. CASE j < k
        <5>1. j <= k - 1
          BY <1>0, <4>1
        <5>2. LoadedDb(z, a, dbs[j], j, from, c)
          BY <2>2, <3>1, <5>1
        <5> QED
          BY <1>0, <4>1, <5>2
      <4>2. CASE j = k
        <5>1. Merged(Elements(a.dbs[k]), {}) = Elements(a.dbs[k])
          BY DEF Merged, KeyNames
        <5>2. k <= DbNum
          BY <1>0, <4>2
        <5>3. LoadedDb(z, a, db, k, from, c)
          BY <2>3, <3>1, <3>2, <5>1, <5>2 DEF LoadedDb
        <5> QED
          BY <1>0, <4>2, <5>3
      <4>3. CASE j > k
        <5>1. j > k - 1
          BY <1>0, <4>3
        <5> QED
          BY <1>0, <2>2, <3>1, <4>3, <5>1
      <4> QED
        BY <1>0, <4>1, <4>2, <4>3
    <3>6. LoadedDbs(z, a, dbs, k, from, c)
      BY <2>2, <3>1, <3>4, <3>5 DEF LoadedDbs
    <3>7. AfterDatabases(z, a, dbs, k, from, c)
      BY <2>1, <3>1, <3>3, <3>6 DEF AfterDatabases
    <3> QED
      BY <3>7 DEF z
  <2>5. CASE db # << >>
    <3>1. k <= DbNum => Filled(y.dbs[k], Elements(y.dbs[k]))
      BY <2>3
    <3>2. /\ k <= DbNum => AfterKeys(z, y, db, Len(db), from, c, k)
          /\ k > DbNum => /\ Shaped(z) /\ SamePosition(z, y) /\ z.libraries = y.libraries
                          /\ z.ended = "exit"
      BY <1>0, <1>1, <1>2, <2>2, <2>5, <3>1, DatabasePlayed
    <3> HIDE DEF z
    <3>3. CASE k > DbNum
      <4>1. Beyond(dbs, k) /\ ~ClashUpTo(dbs, k, a.dbs, c)
        BY <1>3, <1>6, <2>5, <3>3
      <4>2. AfterDatabases(z, a, dbs, k, from, c)
        BY <2>1, <3>2, <3>3, <4>1 DEF AfterDatabases, SamePosition
      <4> QED
        BY <4>2 DEF z
    <3>4. CASE k <= DbNum
      <4>1. AfterKeys(z, y, db, Len(db), from, c, k) /\ y.dbs[k] = a.dbs[k] /\ k \in 1 .. DbNum
        BY <1>0, <2>3, <3>2, <3>4
      <4>2. ClashUpTo(dbs, k, a.dbs, c) <=> Clashing(db, Len(db), a.dbs[k], c)
        BY <1>3, <1>6, <3>4
      <4>3. ~Beyond(dbs, k)
        BY <1>3, <3>4
      <4> HIDE DEF db
      <4>4. Shaped(z) /\ SamePosition(z, a) /\ z.libraries = a.libraries
        BY <2>1, <4>1 DEF AfterKeys, SamePosition
      <4>5. CASE Clashing(db, Len(db), a.dbs[k], c)
        <5>1. z.ended = "panic"
          BY <4>1, <4>5 DEF AfterKeys
        <5>2. AfterDatabases(z, a, dbs, k, from, c)
          BY <4>2, <4>4, <4>5, <5>1 DEF AfterDatabases
        <5> QED
          BY <5>2 DEF z, db
      <4>6. CASE ~Clashing(db, Len(db), a.dbs[k], c)
        <5>1. /\ Between(z, k) /\ \A i \in 1 .. DbNum : i # k => z.dbs[i] = y.dbs[i]
              /\ Filled(z.dbs[k], Elements(z.dbs[k]))
              /\ Elements(z.dbs[k]) = Merged(Elements(a.dbs[k]), Brought(db, Len(db), from, c))
              /\ z.fed = y.fed \cup Told(db, Len(db), c, k)
          BY <4>1, <4>6 DEF AfterKeys
        <5>2. AllTold(dbs, k, c) = AllTold(dbs, k - 1, c) \cup Told(db, Len(db), c, k)
          BY <1>3, <3>4 DEF db
        <5>3. z.fed = a.fed \cup AllTold(dbs, k, c)
          BY <2>2, <5>1, <5>2
        <5>4. ASSUME NEW j \in 1 .. DbNum
              PROVE  /\ j <= k => LoadedDb(z, a, dbs[j], j, from, c)
                     /\ j > k => z.dbs[j] = a.dbs[j]
          <6>1. CASE j < k
            <7>1. j <= k - 1 /\ j # k
              BY <1>0, <6>1
            <7>2. LoadedDb(z, a, dbs[j], j, from, c)
              BY <2>2, <5>1, <7>1 DEF LoadedDb
            <7> QED
              BY <1>0, <6>1, <7>2
          <6>2. CASE j = k
            <7>1. LoadedDb(z, a, db, k, from, c)
              BY <5>1 DEF LoadedDb
            <7> QED
              BY <1>0, <6>2, <7>1 DEF db
          <6>3. CASE j > k
            <7>1. j > k - 1 /\ j # k
              BY <1>0, <6>3
            <7>2. z.dbs[j] = a.dbs[j]
              BY <2>2, <5>1, <7>1
            <7> QED
              BY <1>0, <6>3, <7>2
          <6> QED
            BY <1>0, <6>1, <6>2, <6>3
        <5>5. LoadedDbs(z, a, dbs, k, from, c)
          BY <5>1, <5>3, <5>4 DEF LoadedDbs, AtRest, Between
        <5>6. AfterDatabases(z, a, dbs, k, from, c)
          BY <4>2, <4>3, <4>4, <4>6, <5>5 DEF AfterDatabases
        <5> QED
          BY <5>6 DEF z, db
      <4> QED
        BY <4>5, <4>6
    <3> QED
      BY <1>0, <3>3, <3>4
  <2> QED
    BY <2>4, <2>5
<1> QED
  BY <1>5, <1>6


\* All of them.
DatabasesSaved(dbs, from) == [j \in 1 .. Len(dbs) |-> SaveDb(j - 1, dbs[j], from)]

LEMMA DatabasesAreSaved ==
  ASSUME NEW dbs, dbs \in Seq(Elements(dbs)), \A db \in Elements(dbs) : Saveable(db), NEW from
  PROVE  /\ DatabasesSaved(dbs, from) \in Seq(Seq(DatabaseRecords(dbs)))
         /\ Len(DatabasesSaved(dbs, from)) = Len(dbs)
         /\ \A j \in 1 .. Len(dbs) : DatabasesSaved(dbs, from)[j] = SaveDb(j - 1, dbs[j], from)
<1> DEFINE n == Len(dbs)
           S == DatabaseRecords(dbs)
           w == DatabasesSaved(dbs, from)
<1>1. n \in Nat /\ DOMAIN dbs = 1 .. n
  OBVIOUS
<1>2. ASSUME NEW j \in 1 .. n PROVE SaveDb(j - 1, dbs[j], from) \in Seq(S)
  <2>1. dbs[j] \in Elements(dbs) /\ j - 1 \in Nat
    BY <1>1 DEF Elements
  <2>2. dbs[j] \in Seq(Elements(dbs[j])) /\ Distinct(dbs[j])
    BY <2>1 DEF Saveable, Filled
  <2> QED
    BY <2>1, <2>2, DatabaseSaved
<1>3. w = [j \in 1 .. n |-> SaveDb(j - 1, dbs[j], from)]
  BY DEF DatabasesSaved
<1> HIDE DEF S, n, w
<1>4. [j \in 1 .. n |-> SaveDb(j - 1, dbs[j], from)] \in Seq(Seq(S))
  BY <1>1, <1>2
<1>5. w \in Seq(Seq(S))
  BY <1>3, <1>4
<1>6. DOMAIN w = 1 .. n /\ \A j \in 1 .. n : w[j] = SaveDb(j - 1, dbs[j], from)
  BY <1>3
<1>7. Len(w) = n
  BY <1>1, <1>5, <1>6
<1> QED
  BY <1>5, <1>6, <1>7 DEF n, w, S

LEMMA DatabasesPlayed ==
  ASSUME NEW dbs, dbs \in Seq(Elements(dbs)), \A db \in Elements(dbs) : Saveable(db), NEW from,
         NEW a, AtRest(a), \A j \in 1 .. DbNum : Filled(a.dbs[j], Elements(a.dbs[j])),
         NEW stream, NEW c
  PROVE  /\ AfterDatabases(Play(a, FlattenSeq(DatabasesSaved(dbs, from)), stream, c),
                           a, dbs, Len(dbs), from, c)
         /\ FlattenSeq(DatabasesSaved(dbs, from)) \in Seq(DatabaseRecords(dbs))
<1> DEFINE n == Len(dbs)
           S == DatabaseRecords(dbs)
           w == DatabasesSaved(dbs, from)
<1>0. DbNum \in Nat
  BY FormatAssumption
<1>1. n \in Nat /\ DOMAIN dbs = 1 .. n
  OBVIOUS
<1>2. w \in Seq(Seq(S)) /\ Len(w) = n /\ \A j \in 1 .. n : w[j] = SaveDb(j - 1, dbs[j], from)
  BY DatabasesAreSaved
<1> HIDE DEF S, w
<1>3. PICK q : /\ IsPlayOfAll(q, a, w, stream, c) /\ FlattenSeq(w) \in Seq(S)
               /\ Play(a, FlattenSeq(w), stream, c) = q[Len(w)]
  <2>1. w \in Seq(Seq(S))
    BY <1>2
  <2>2. PlayedAsOne(a, w, S, stream, c)
    BY <2>1, FlattenPlayed, Zenon
  <2> QED
    BY <2>2 DEF PlayedAsOne
<1>4. \A j \in 1 .. n : Saveable(dbs[j])
  BY <1>1 DEF Elements
<1> HIDE DEF n
<1> DEFINE P == {k \in Nat : k <= n => AfterDatabases(q[k], a, dbs, k, from, c)}
<1>5. 0 \in P
  <2>1. q[0] = a
    BY <1>3 DEF IsPlayOfAll
  <2>2. ~ClashUpTo(dbs, 0, a.dbs, c) /\ ~Beyond(dbs, 0)
    <3>1. \A j \in 1 .. DbNum : ~(j <= 0)
      BY <1>0
    <3>2. DbNum + 1 .. 0 = {}
      BY <1>0
    <3> QED
      BY <3>1, <3>2 DEF ClashUpTo, Beyond
  <2>3. AllTold(dbs, 0, c) = {}
    <3>1. {i \in 1 .. DbNum : i <= 0} = {}
      BY <1>0
    <3> QED
      BY <3>1 DEF AllTold
  <2>4. LoadedDbs(a, a, dbs, 0, from, c)
    <3>1. \A j \in 1 .. DbNum : ~(j <= 0)
      BY <1>0
    <3> QED
      BY <2>3, <3>1 DEF LoadedDbs
  <2>5. AfterDatabases(a, a, dbs, 0, from, c)
    BY <2>2, <2>4 DEF AfterDatabases, AtRest, SamePosition
  <2> QED
    BY <2>1, <2>5
<1>6. ASSUME NEW k \in Nat, k \in P PROVE k + 1 \in P
  <2> SUFFICES ASSUME k + 1 <= n PROVE AfterDatabases(q[k + 1], a, dbs, k + 1, from, c)
    OBVIOUS
  <2>1. k + 1 \in 1 .. n /\ (k + 1) - 1 = k
    BY <1>1
  <2>2. q[k + 1] = Play(q[k], SaveDb(k, dbs[k + 1], from), stream, c)
    BY <1>2, <1>3, <2>1 DEF IsPlayOfAll
  <2>3. AfterDatabases(q[k], a, dbs, k, from, c)
    BY <1>1, <1>6
  <2> DEFINE m == k + 1
             y == q[k]
  <2>4. m \in 1 .. n /\ AfterDatabases(y, a, dbs, m - 1, from, c) /\ m - 1 = k
    BY <2>1, <2>3
  <2> HIDE DEF m, y
  <2>5. AfterDatabases(Play(y, SaveDb(m - 1, dbs[m], from), stream, c), a, dbs, m, from, c)
    BY <1>1, <1>4, <2>4, OneMoreDatabase
  <2> QED
    BY <2>2, <2>4, <2>5 DEF m, y
<1>7. n \in P
  <2> HIDE DEF P
  <2>1. Nat \subseteq P
    BY <1>5, <1>6, InductionOver
  <2> QED
    BY <1>1, <2>1
<1>8. AfterDatabases(q[n], a, dbs, n, from, c)
  BY <1>1, <1>7
<1> QED
  BY <1>2, <1>3, <1>8 DEF n, w, S

-----------------------------------------------------------------------------
(* The fields and the libraries before the databases.                      *)

LEMMA FieldLoaded ==
  ASSUME NEW a, AtRest(a), NEW stream, NEW c, NEW r, r.op = "aux"
  PROVE  LET z == LoadRecord(a, r, stream, c)
         IN /\ AtRest(z) /\ SameData(z, a) /\ z.libraries = a.libraries
            /\ z.replid = IF c.rsi /\ r.name = "repl-id" THEN r.val ELSE a.replid
            /\ z.offset = IF c.rsi /\ r.name = "repl-offset" THEN r.val ELSE a.offset
            /\ z.streamdb = IF c.rsi /\ r.name = "repl-stream-db" THEN r.val ELSE a.streamdb
<1> DEFINE next == [a EXCEPT !.read = @ + 1]
           z == LoadRecord(a, r, stream, c)
<1>1. z = LoadAux(next, r, c.rsi)
  BY DEF LoadRecord, AtRest
<1>2. /\ DOMAIN next = DOMAIN a /\ next.ended = "no" /\ next.read \in Nat /\ next.attr = a.attr
      /\ SamePosition(next, a) /\ SameData(next, a) /\ next.libraries = a.libraries
  BY DEF Shaped, AtRest, SamePosition, SameData
<1> HIDE DEF next, z
<1>3. CASE ~c.rsi \/ r.name \notin {"repl-id", "repl-offset", "repl-stream-db"}
  <2>1. z = next
    BY <1>1, <1>3 DEF LoadAux
  <2> QED
    BY <1>2, <1>3, <2>1 DEF Shaped, AtRest, SamePosition, SameData, z
<1>4. CASE c.rsi /\ r.name = "repl-id"
  <2>1. z = [next EXCEPT !.replid = r.val]
    BY <1>1, <1>4 DEF LoadAux
  <2> QED
    BY <1>2, <1>4, <2>1 DEF Shaped, AtRest, SamePosition, SameData, z
<1>5. CASE c.rsi /\ r.name = "repl-offset"
  <2>1. z = [next EXCEPT !.offset = r.val]
    BY <1>1, <1>5 DEF LoadAux
  <2> QED
    BY <1>2, <1>5, <2>1 DEF Shaped, AtRest, SamePosition, SameData, z
<1>6. CASE c.rsi /\ r.name = "repl-stream-db"
  <2>1. z = [next EXCEPT !.streamdb = r.val]
    BY <1>1, <1>6 DEF LoadAux
  <2> QED
    BY <1>2, <1>6, <2>1 DEF Shaped, AtRest, SamePosition, SameData, z
<1> QED
  BY <1>3, <1>4, <1>5, <1>6

\* The fields of a dump.
Field(name, val) == [op |-> "aux", name |-> name, val |-> val]
FieldRecords(s, rsi) ==
  {Field("ctime", Now), Field("aof-base", s.preamble), Field("repl-stream-db", rsi.db),
   Field("repl-id", s.replid), Field("repl-offset", s.offset)}
PositionOf(z, a, s, rsi, c) ==
  IF rsi # NoInfo /\ c.rsi
  THEN z.replid = s.replid /\ z.offset = s.offset /\ z.streamdb = rsi.db
  ELSE SamePosition(z, a)

LEMMA FieldsPlayed ==
  ASSUME NEW a, AtRest(a), NEW s, NEW rsi, NEW stream, NEW c
  PROVE  /\ SaveAux(s, rsi) \in Seq(FieldRecords(s, rsi))
         /\ LET z == Play(a, SaveAux(s, rsi), stream, c)
            IN AtRest(z) /\ SameData(z, a) /\ z.libraries = a.libraries /\ PositionOf(z, a, s, rsi, c)
<1> DEFINE f1 == Field("ctime", Now)
           f2 == Field("repl-stream-db", rsi.db)
           f3 == Field("repl-id", s.replid)
           f4 == Field("repl-offset", s.offset)
           f5 == Field("aof-base", s.preamble)
           p1 == <<f1>>
           p2 == <<f2>>
           p3 == <<f3>>
           p4 == <<f4>>
           p5 == <<f5>>
           S == FieldRecords(s, rsi)
           F == p2 \o p3
           G == F \o p4
           Middle == IF rsi = NoInfo THEN << >> ELSE G
           H == p1 \o Middle
           z == Play(a, SaveAux(s, rsi), stream, c)
           b == LoadRecord(a, f1, stream, c)
           d == Play(b, Middle, stream, c)
<1>1. SaveAux(s, rsi) = H \o p5
  BY Zenon DEF SaveAux, Aux, Field
<1>2. /\ f1 \in S /\ f2 \in S /\ f3 \in S /\ f4 \in S /\ f5 \in S
  BY DEF FieldRecords
<1>3. /\ f1.op = "aux" /\ f1.name = "ctime" /\ f2.op = "aux" /\ f2.name = "repl-stream-db"
      /\ f3.op = "aux" /\ f3.name = "repl-id" /\ f4.op = "aux" /\ f4.name = "repl-offset"
      /\ f5.op = "aux" /\ f5.name = "aof-base"
      /\ f2.val = rsi.db /\ f3.val = s.replid /\ f4.val = s.offset
  BY DEF Field
<1> HIDE DEF f1, f2, f3, f4, f5, S
<1>4. p1 \in Seq(S) /\ p2 \in Seq(S) /\ p3 \in Seq(S) /\ p4 \in Seq(S) /\ p5 \in Seq(S)
  BY <1>2
<1>5. /\ Play(a, p1, stream, c) = b
      /\ \A y : /\ Play(y, p2, stream, c) = LoadRecord(y, f2, stream, c)
                /\ Play(y, p3, stream, c) = LoadRecord(y, f3, stream, c)
                /\ Play(y, p4, stream, c) = LoadRecord(y, f4, stream, c)
                /\ Play(y, p5, stream, c) = LoadRecord(y, f5, stream, c)
  BY PlayOne, Zenon
<1> HIDE DEF p1, p2, p3, p4, p5, Middle, H, F, G, b, d, z
<1>6. F \in Seq(S)
  BY <1>4 DEF F
<1>7. G \in Seq(S)
  BY <1>4, <1>6 DEF G
<1>8. Middle \in Seq(S)
  BY <1>7 DEF Middle
<1>9. H \in Seq(S)
  BY <1>4, <1>8 DEF H
<1>10. SaveAux(s, rsi) \in Seq(S)
  BY <1>1, <1>4, <1>9
<1>11. AtRest(b) /\ SameData(b, a) /\ b.libraries = a.libraries /\ SamePosition(b, a)
  BY <1>3, FieldLoaded DEF SamePosition, b
<1>12. AtRest(d) /\ SameData(d, a) /\ d.libraries = a.libraries /\ PositionOf(d, a, s, rsi, c)
  <2>1. CASE rsi = NoInfo
    <3>1. d = b
      BY <2>1, PlayNone DEF Middle, d
    <3> QED
      BY <1>11, <2>1, <3>1 DEF PositionOf
  <2>2. CASE rsi # NoInfo
    <3> DEFINE u == LoadRecord(b, f2, stream, c)
               v == LoadRecord(u, f3, stream, c)
               w == LoadRecord(v, f4, stream, c)
    <3>1. d = w
      <4>1. Play(b, F \o p4, stream, c) = Play(Play(b, F, stream, c), p4, stream, c)
        BY <1>4, <1>6, PlayTwo
      <4>2. Play(b, p2 \o p3, stream, c) = Play(Play(b, p2, stream, c), p3, stream, c)
        BY <1>4, PlayTwo
      <4>3. d = Play(b, F \o p4, stream, c)
        BY <2>2 DEF d, Middle, G
      <4>4. Play(b, F, stream, c) = v
        BY <1>5, <4>2, Zenon DEF F
      <4> QED
        BY <1>5, <4>1, <4>3, <4>4, Zenon
    <3>2. /\ AtRest(u) /\ SameData(u, b) /\ u.libraries = b.libraries
          /\ u.replid = b.replid /\ u.offset = b.offset
          /\ u.streamdb = IF c.rsi THEN rsi.db ELSE b.streamdb
      BY <1>3, <1>11, FieldLoaded
    <3> HIDE DEF u
    <3>3. /\ AtRest(v) /\ SameData(v, u) /\ v.libraries = u.libraries
          /\ v.replid = (IF c.rsi THEN s.replid ELSE u.replid) /\ v.offset = u.offset
          /\ v.streamdb = u.streamdb
      BY <1>3, <3>2, FieldLoaded
    <3> HIDE DEF v
    <3>4. /\ AtRest(w) /\ SameData(w, v) /\ w.libraries = v.libraries
          /\ w.replid = v.replid /\ w.offset = (IF c.rsi THEN s.offset ELSE v.offset)
          /\ w.streamdb = v.streamdb
      BY <1>3, <3>3, FieldLoaded
    <3> HIDE DEF w
    <3> QED
      BY <1>11, <2>2, <3>1, <3>2, <3>3, <3>4 DEF SameData, SamePosition, PositionOf
  <2> QED
    BY <2>1, <2>2
<1>13. z = LoadRecord(d, f5, stream, c)
  <2>1. Play(a, H \o p5, stream, c) = Play(Play(a, H, stream, c), p5, stream, c)
    BY <1>4, <1>9, PlayTwo
  <2>2. Play(a, p1 \o Middle, stream, c) = Play(Play(a, p1, stream, c), Middle, stream, c)
    BY <1>4, <1>8, PlayTwo
  <2>3. Play(a, H, stream, c) = d
    BY <1>5, <2>2, Zenon DEF H, d
  <2> QED
    BY <1>1, <1>5, <2>1, <2>3, Zenon DEF z
<1>14. /\ AtRest(z) /\ SameData(z, d) /\ z.libraries = d.libraries
       /\ z.replid = d.replid /\ z.offset = d.offset /\ z.streamdb = d.streamdb
  BY <1>3, <1>12, <1>13, FieldLoaded
<1>15. AtRest(z) /\ SameData(z, a) /\ z.libraries = a.libraries /\ PositionOf(z, a, s, rsi, c)
  BY <1>12, <1>14 DEF SameData, SamePosition, PositionOf
<1> QED
  BY <1>10, <1>15 DEF z, S

\* The libraries of a dump.
FunctionRecord(lib) == [op |-> "function", code |-> lib]

LEMMA FunctionLoaded ==
  ASSUME NEW a, AtRest(a), NEW S, a.libraries \in Seq(S), NEW lib,
         \A i \in DOMAIN a.libraries : a.libraries[i] # lib, NEW stream, NEW c
  PROVE  LET z == LoadRecord(a, FunctionRecord(lib), stream, c)
         IN /\ AtRest(z) /\ SameData(z, a) /\ SamePosition(z, a)
            /\ z.libraries = Append(a.libraries, lib)
<1> DEFINE r == FunctionRecord(lib)
           next == [a EXCEPT !.read = @ + 1]
           z == LoadRecord(a, r, stream, c)
           l == Append(a.libraries, lib)
<1>1. r.op = "function" /\ r.code = lib
  BY DEF FunctionRecord
<1>2. /\ DOMAIN next = DOMAIN a /\ next.ended = "no" /\ next.read \in Nat /\ next.attr = a.attr
      /\ SamePosition(next, a) /\ SameData(next, a) /\ next.libraries = a.libraries
  BY DEF Shaped, AtRest, SamePosition, SameData
<1>3. RemoveFirst(a.libraries, lib) = a.libraries
  <2>1. DOMAIN a.libraries = 1 .. Len(a.libraries)
    OBVIOUS
  <2> QED
    BY <2>1 DEF RemoveFirst
<1> HIDE DEF r
<1>4. z = [next EXCEPT !.libraries = Append(RemoveFirst(@, r.code), r.code)]
  BY <1>1 DEF LoadRecord, AtRest
<1> HIDE DEF next, z
<1>5. z = [next EXCEPT !.libraries = l]
  <2>1. Append(RemoveFirst(next.libraries, r.code), r.code) = l
    BY <1>1, <1>2, <1>3
  <2> QED
    BY <1>4, <2>1
<1> HIDE DEF l
<1>6. AtRest(z) /\ SameData(z, a) /\ SamePosition(z, a) /\ z.libraries = l
  BY <1>2, <1>5 DEF Shaped, AtRest, SamePosition, SameData
<1> QED
  BY <1>6 DEF z, r, l

AreLibraries(libs) == /\ libs \in Seq(Elements(libs))
                      /\ \A i, j \in DOMAIN libs : libs[i] = libs[j] => i = j
AfterLibraries(z, a, libs) == AtRest(z) /\ SameData(z, a) /\ SamePosition(z, a) /\ z.libraries = libs

LEMMA LibrariesPlayed ==
  ASSUME NEW a, AtRest(a), a.libraries = << >>, NEW libs, AreLibraries(libs), NEW stream, NEW c
  PROVE  /\ SaveFunctions(libs) \in Seq({FunctionRecord(x) : x \in Elements(libs)})
         /\ AfterLibraries(Play(a, SaveFunctions(libs), stream, c), a, libs)
<1> DEFINE n == Len(libs)
           E == Elements(libs)
           S == {FunctionRecord(x) : x \in E}
           t == SaveFunctions(libs)
<1>0. libs \in Seq(E) /\ \A i, j \in DOMAIN libs : libs[i] = libs[j] => i = j
  BY DEF AreLibraries
<1>1. n \in Nat /\ DOMAIN libs = 1 .. n /\ \A i \in 1 .. n : libs[i] \in E
  BY <1>0 DEF Elements
<1>2. t \in Seq(S) /\ Len(t) = n /\ \A i \in 1 .. n : t[i] = FunctionRecord(libs[i])
  <2>1. t = [i \in 1 .. n |-> FunctionRecord(libs[i])]
    BY <1>1 DEF SaveFunctions, FunctionRecord
  <2>2. \A i \in 1 .. n : FunctionRecord(libs[i]) \in S
    BY <1>1
  <2> HIDE DEF t, n, S, E
  <2>3. [i \in 1 .. n |-> FunctionRecord(libs[i])] \in Seq(S)
    BY <1>1, <2>2
  <2>4. t \in Seq(S)
    BY <2>1, <2>3
  <2>5. DOMAIN t = 1 .. n /\ \A i \in 1 .. n : t[i] = FunctionRecord(libs[i])
    BY <2>1
  <2>6. Len(t) = n
    BY <1>1, <2>4, <2>5
  <2> QED
    BY <2>4, <2>5, <2>6
<1> HIDE DEF t, S
<1>3. PICK r : IsPlay(r, a, t, stream, c) /\ Play(a, t, stream, c) = r[Len(t)]
  BY <1>2, RecordsPlayed
<1> DEFINE FirstLoaded(y, k) == /\ AtRest(y) /\ SameData(y, a) /\ SamePosition(y, a)
                           /\ y.libraries \in Seq(E) /\ Len(y.libraries) = k
                           /\ \A i \in 1 .. k : y.libraries[i] = libs[i]
           P == {k \in Nat : k <= n => FirstLoaded(r[k], k)}
<1> HIDE DEF n, E
<1>4. 0 \in P
  <2>1. r[0] = a
    BY <1>3 DEF IsPlay
  <2>2. a.libraries \in Seq(E) /\ Len(a.libraries) = 0
    OBVIOUS
  <2>3. SameData(a, a) /\ SamePosition(a, a)
    BY DEF SameData, SamePosition
  <2>4. FirstLoaded(a, 0)
    BY <2>2, <2>3
  <2> QED
    BY <2>1, <2>4
<1>5. ASSUME NEW k \in Nat, k \in P PROVE k + 1 \in P
  <2> SUFFICES ASSUME k + 1 <= n PROVE FirstLoaded(r[k + 1], k + 1)
    OBVIOUS
  <2>1. k + 1 \in 1 .. n /\ (k + 1) - 1 = k /\ FirstLoaded(r[k], k)
    BY <1>1, <1>5
  <2> DEFINE y == r[k]
             x == libs[k + 1]
             z == r[k + 1]
  <2>2. z = LoadRecord(y, FunctionRecord(x), stream, c)
    BY <1>2, <1>3, <2>1 DEF IsPlay
  <2>3. /\ AtRest(y) /\ SameData(y, a) /\ SamePosition(y, a)
        /\ y.libraries \in Seq(E) /\ Len(y.libraries) = k
        /\ \A i \in 1 .. k : y.libraries[i] = libs[i]
    BY <2>1
  <2>4. x \in E
    BY <1>1, <2>1
  <2>5. DOMAIN y.libraries = 1 .. k /\ \A i \in 1 .. k : y.libraries[i] # x
    <3>1. DOMAIN y.libraries = 1 .. k
      BY <2>3
    <3>2. ASSUME NEW i \in 1 .. k PROVE libs[i] # x
      <4>1. i \in 1 .. n /\ i # k + 1
        BY <1>1, <2>1
      <4> QED
        BY <1>0, <1>1, <2>1, <4>1
    <3> QED
      BY <2>3, <3>1, <3>2
  <2> HIDE DEF y, x, z
  <2>6. /\ AtRest(z) /\ SameData(z, y) /\ SamePosition(z, y)
        /\ z.libraries = Append(y.libraries, x)
    BY <2>2, <2>3, <2>5, FunctionLoaded
  <2> DEFINE m == y.libraries
  <2>7. /\ Append(m, x) \in Seq(E) /\ Len(Append(m, x)) = k + 1
        /\ \A i \in 1 .. k + 1 : Append(m, x)[i] = libs[i]
    <3>1. m \in Seq(E) /\ Len(m) = k /\ \A i \in 1 .. k : m[i] = libs[i]
      BY <2>3
    <3> HIDE DEF m
    <3>2. Append(m, x) \in Seq(E) /\ Len(Append(m, x)) = k + 1
      BY <2>4, <3>1
    <3>3. ASSUME NEW i \in 1 .. k PROVE Append(m, x)[i] = libs[i]
      BY <3>1
    <3>4. Append(m, x)[k + 1] = x
      BY <3>1
    <3> QED
      BY <3>2, <3>3, <3>4 DEF x
  <2>8. FirstLoaded(z, k + 1)
    BY <2>3, <2>6, <2>7 DEF SameData, SamePosition
  <2> QED
    BY <2>8 DEF z
<1>6. n \in P
  <2> HIDE DEF P
  <2>1. Nat \subseteq P
    BY <1>4, <1>5, InductionOver
  <2> QED
    BY <1>1, <2>1
<1> DEFINE z == r[n]
<1>7. FirstLoaded(z, n)
  BY <1>1, <1>6
<1>8. z.libraries = libs
  <2> DEFINE m == z.libraries
  <2>1. m \in Seq(E) /\ Len(m) = n /\ \A i \in 1 .. n : m[i] = libs[i]
    BY <1>7
  <2>2. libs \in Seq(E) /\ Len(libs) = n
    BY <1>0 DEF n
  <2> HIDE DEF m
  <2>3. m = [i \in 1 .. n |-> m[i]] /\ libs = [i \in 1 .. n |-> libs[i]]
    BY <2>1, <2>2
  <2>4. m = libs
    BY <2>1, <2>3
  <2> QED
    BY <2>4 DEF m
<1> QED
  BY <1>2, <1>3, <1>7, <1>8 DEF AfterLibraries, S, t, E

-----------------------------------------------------------------------------
(* What was read, and the checksum.                                        *)

Fields == {"ended", "dbid", "attr", "dbs", "libraries", "replid", "offset", "streamdb", "fed", "read"}
Unsummed(a, k) == DOMAIN a = Fields /\ a.ended # "ok" /\ (a.ended = "no" => a.read = k)

LEMMA OneMoreRead ==
  ASSUME NEW k \in Nat, NEW a, Unsummed(a, k), NEW r, r.op # "checksum", NEW stream, NEW c
  PROVE  Unsummed(LoadRecord(a, r, stream, c), k + 1)
<1> DEFINE next == [a EXCEPT !.read = @ + 1]
           z == LoadRecord(a, r, stream, c)
<1>1. CASE a.ended # "no"
  <2>1. z = a
    BY <1>1 DEF LoadRecord
  <2> QED
    BY <1>1, <2>1 DEF Unsummed
<1>2. CASE a.ended = "no"
  <2>1. DOMAIN next = Fields /\ next.ended = "no" /\ next.read = k + 1
    BY <1>2 DEF Unsummed, Fields
  <2> HIDE DEF next
  <2>2. \/ z = [next EXCEPT !.attr.expire = r.ms]
        \/ z = [next EXCEPT !.attr.freq = r.counter]
        \/ z = [next EXCEPT !.attr.idle = r.seconds]
        \/ z = [a EXCEPT !.ended = "exit"]
        \/ z = [next EXCEPT !.dbid = r.db]
        \/ z = LoadAux(next, r, c.rsi)
        \/ z = [a EXCEPT !.ended = "eof"]
        \/ z = [next EXCEPT !.libraries = Append(RemoveFirst(@, r.code), r.code)]
        \/ z = LoadValue(next, r, c)
        \/ z = next
    BY <1>2 DEF LoadRecord, next
  <2> HIDE DEF z
  <2>3. CASE z = LoadAux(next, r, c.rsi)
    <3>1. \/ z = next \/ z = [next EXCEPT !.streamdb = r.val]
          \/ z = [next EXCEPT !.replid = r.val] \/ z = [next EXCEPT !.offset = r.val]
      BY <2>3 DEF LoadAux
    <3> QED
      BY <2>1, <3>1 DEF Unsummed, Fields, z
  <2>4. CASE z = LoadValue(next, r, c)
    <3> DEFINE reset == [next EXCEPT !.attr = NoAttributes]
               added == Added(next, r, c.policy)
    <3>1. DOMAIN reset = Fields /\ reset.ended = "no" /\ reset.read = k + 1
      BY <2>1 DEF Fields
    <3>2. \E w : added = [next EXCEPT !.dbs[next.dbid + 1] = w]
      BY DEF Added
    <3>3. DOMAIN added = Fields /\ added.ended = "no" /\ added.read = k + 1
      <4> HIDE DEF added
      <4> QED
        BY <2>1, <3>2 DEF Fields
    <3>4. \/ z = reset \/ z = [reset EXCEPT !.fed = @ \cup {<<next.dbid, r.key>>}]
          \/ z = [next EXCEPT !.ended = "panic"] \/ z = [added EXCEPT !.attr = NoAttributes]
      BY <2>4 DEF LoadValue
    <3> HIDE DEF reset, added
    <3> QED
      BY <2>1, <3>1, <3>3, <3>4 DEF Unsummed, Fields, z
  <2>5. CASE \/ z = [next EXCEPT !.attr.expire = r.ms]
             \/ z = [next EXCEPT !.attr.freq = r.counter]
             \/ z = [next EXCEPT !.attr.idle = r.seconds]
             \/ z = [next EXCEPT !.dbid = r.db]
             \/ z = [next EXCEPT !.libraries = Append(RemoveFirst(@, r.code), r.code)]
             \/ z = next
    BY <2>1, <2>5 DEF Unsummed, Fields, z
  <2>6. CASE z = [a EXCEPT !.ended = "exit"] \/ z = [a EXCEPT !.ended = "eof"]
    BY <2>6 DEF Unsummed, Fields, z
  <2> QED
    BY <2>2, <2>3, <2>4, <2>5, <2>6
<1> QED
  BY <1>1, <1>2

\* Records without a checksum among them.
LEMMA AllRead ==
  ASSUME NEW a, Unsummed(a, 0), NEW S, NEW t \in Seq(S),
         \A i \in 1 .. Len(t) : t[i].op # "checksum", NEW stream, NEW c
  PROVE  Unsummed(Play(a, t, stream, c), Len(t))
<1>1. PICK r : IsPlay(r, a, t, stream, c) /\ Play(a, t, stream, c) = r[Len(t)]
  BY RecordsPlayed
<1> DEFINE n == Len(t)
           P == {k \in Nat : k <= n => Unsummed(r[k], k)}
<1>0. n \in Nat
  OBVIOUS
<1>2. 0 \in P
  BY <1>1 DEF IsPlay
<1>3. ASSUME NEW k \in Nat, k \in P PROVE k + 1 \in P
  <2> SUFFICES ASSUME k + 1 <= n PROVE Unsummed(r[k + 1], k + 1)
    OBVIOUS
  <2>1. k + 1 \in 1 .. n /\ (k + 1) - 1 = k /\ Unsummed(r[k], k)
    BY <1>0, <1>3
  <2>2. r[k + 1] = LoadRecord(r[k], t[k + 1], stream, c)
    BY <1>1, <2>1 DEF IsPlay
  <2> QED
    BY <2>1, <2>2, OneMoreRead
<1>4. n \in P
  <2> HIDE DEF P
  <2>1. Nat \subseteq P
    BY <1>2, <1>3, InductionOver
  <2> QED
    BY <1>0, <2>1
<1> QED
  BY <1>0, <1>1, <1>4

LEMMA LoadingUnsummed == \A dbs : Unsummed(Loading(dbs), 0)
BY DEF Unsummed, Loading, Fields

\* The checksum after such records: of what was read, or of something else.
Checksum(of) == [op |-> "checksum", of |-> of]

LEMMA SumCompared ==
  ASSUME NEW k \in Nat, NEW a, Unsummed(a, k), NEW of, NEW stream, NEW c
  PROVE  LET z == LoadRecord(a, Checksum(of), stream, c)
         IN IF a.ended # "no" THEN z = a
            ELSE z = [a EXCEPT !.ended = IF c.checksum /\ of # << >> /\ of # SubSeq(stream, 1, k)
                                         THEN "crc" ELSE "ok"]
<1>1. Checksum(of).op = "checksum" /\ Checksum(of).of = of
  BY DEF Checksum
<1>2. CASE a.ended # "no"
  BY <1>2 DEF LoadRecord
<1>3. CASE a.ended = "no"
  <2>1. a.read = k
    BY <1>3 DEF Unsummed
  <2>2. LoadRecord(a, Checksum(of), stream, c) = LoadChecksum(a, Checksum(of), stream, c)
    BY <1>1, <1>3 DEF LoadRecord
  <2> QED
    BY <1>1, <1>3, <2>1, <2>2 DEF LoadChecksum
<1> QED
  BY <1>2, <1>3

-----------------------------------------------------------------------------
(* A whole dump, and what is loaded of it.                                 *)

SavedDbs(s) == IF "data" \in s.req THEN << >> ELSE s.dbs
SavedLibraries(s) == IF "functions" \in s.req THEN << >> ELSE s.libraries
Eof == [op |-> "eof"]
HeadOf(s, rsi) == SaveAux(s, rsi) \o SaveFunctions(SavedLibraries(s))
DataOf(s) == FlattenSeq(DatabasesSaved(SavedDbs(s), s.policy))
BodyOf(s, rsi) == (HeadOf(s, rsi) \o DataOf(s)) \o <<Eof>>
SumOf(s, rsi) == IF s.checksum THEN BodyOf(s, rsi) ELSE << >>
BodyRecords(s, rsi) ==
       FieldRecords(s, rsi) \cup {FunctionRecord(x) : x \in Elements(SavedLibraries(s))}
  \cup DatabaseRecords(SavedDbs(s)) \cup {Eof}

\* Who saves, and who loads.
IsSaver(s) ==
  /\ s.dbs \in Seq(Elements(s.dbs)) /\ \A db \in Elements(s.dbs) : Saveable(db)
  /\ AreLibraries(s.libraries)
IsLoader(c) == DOMAIN c.dbs = 1 .. DbNum /\ \A j \in 1 .. DbNum : Filled(c.dbs[j], Elements(c.dbs[j]))

LEMMA Inputs ==
  /\ \A s \in Servers : IsSaver(s)
  /\ \A c \in Loaders : IsLoader(c)
<1>1. \A db : IsDatabase(db) => Filled(db, Elements(db))
  BY DEF IsDatabase, Filled, Distinct
<1>2. ASSUME NEW s \in Servers PROVE IsSaver(s)
  <2>1. /\ s.dbs \in Seq(Elements(s.dbs)) /\ \A db \in Elements(s.dbs) : IsDatabase(db)
        /\ \A db \in Elements(s.dbs) : \A e \in Elements(db) : e.idle \in Nat
        /\ s.libraries \in Seq(Elements(s.libraries))
        /\ \A i, j \in DOMAIN s.libraries : s.libraries[i] = s.libraries[j] => i = j
    BY DumpInputsAssumption, Zenon
  <2> QED
    BY <1>1, <2>1 DEF IsSaver, Saveable, AreLibraries
<1>3. ASSUME NEW c \in Loaders PROVE IsLoader(c)
  <2>1. c.dbs = [j \in 1 .. DbNum |-> c.dbs[j]] /\ \A j \in 1 .. DbNum : IsDatabase(c.dbs[j])
    BY DumpInputsAssumption, Zenon
  <2>2. DOMAIN c.dbs = 1 .. DbNum
    <3> DEFINE g == c.dbs
    <3>1. g = [j \in 1 .. DbNum |-> g[j]]
      BY <2>1
    <3> HIDE DEF g
    <3>2. DOMAIN g = 1 .. DbNum
      BY <3>1
    <3> QED
      BY <3>2 DEF g
  <2> QED
    BY <1>1, <2>1, <2>2 DEF IsLoader
<1> QED
  BY <1>2, <1>3

LEMMA WhatIsSaved ==
  ASSUME NEW s, IsSaver(s)
  PROVE  /\ SavedDbs(s) \in Seq(Elements(SavedDbs(s)))
         /\ \A db \in Elements(SavedDbs(s)) : Saveable(db)
         /\ AreLibraries(SavedLibraries(s))
<1>1. /\ << >> \in Seq(Elements(<< >>)) /\ Elements(<< >>) = {} /\ AreLibraries(<< >>)
  BY DEF Elements, AreLibraries
<1>2. CASE "data" \in s.req
  <2>1. SavedDbs(s) = << >>
    BY <1>2 DEF SavedDbs
  <2>2. CASE "functions" \in s.req
    BY <1>1, <2>1, <2>2 DEF SavedLibraries
  <2>3. CASE "functions" \notin s.req
    BY <1>1, <2>1, <2>3 DEF SavedLibraries, IsSaver
  <2> QED
    BY <2>2, <2>3
<1>3. CASE "data" \notin s.req
  <2>1. SavedDbs(s) = s.dbs
    BY <1>3 DEF SavedDbs
  <2>2. CASE "functions" \in s.req
    BY <1>1, <2>1, <2>2 DEF SavedLibraries, IsSaver
  <2>3. CASE "functions" \notin s.req
    BY <2>1, <2>3 DEF SavedLibraries, IsSaver
  <2> QED
    BY <2>2, <2>3
<1> QED
  BY <1>2, <1>3

LEMMA NothingSaved ==
  /\ SaveFunctions(<< >>) = << >>
  /\ \A from : FlattenSeq(DatabasesSaved(<< >>, from)) = << >>
<1>1. SaveFunctions(<< >>) = << >>
  BY DEF SaveFunctions
<1>2. ASSUME NEW from PROVE FlattenSeq(DatabasesSaved(<< >>, from)) = << >>
  <2>1. DatabasesSaved(<< >>, from) = << >>
    BY DEF DatabasesSaved
  <2>2. << >> \in Seq(Seq({})) /\ Len(<< >>) = 0
    OBVIOUS
  <2>3. FlattenSeq(<< >>) = << >>
    <3> DEFINE e == << >>
    <3>1. e \in Seq(Seq({})) /\ Len(e) = 0
      BY <2>2
    <3> HIDE DEF e
    <3>2. PICK f : f[0] = << >> /\ FlattenSeq(e) = f[Len(e)]
      BY <3>1, FlattenSums
    <3>3. FlattenSeq(e) = << >>
      BY <3>1, <3>2
    <3> QED
      BY <3>3 DEF e
  <2> QED
    BY <2>1, <2>3
<1> QED
  BY <1>1, <1>2

LEMMA StreamSaved ==
  ASSUME NEW s, NEW rsi
  PROVE  SaveRio(s, s.req, rsi) = BodyOf(s, rsi) \o <<Checksum(SumOf(s, rsi))>>
<1>1. (IF "functions" \in s.req THEN << >> ELSE SaveFunctions(s.libraries)) = SaveFunctions(SavedLibraries(s))
  BY NothingSaved DEF SavedLibraries
<1>2. (IF "data" \in s.req THEN << >>
       ELSE FlattenSeq([j \in 1 .. Len(s.dbs) |-> SaveDb(j - 1, s.dbs[j], s.policy)])) = DataOf(s)
  <2>1. FlattenSeq([j \in 1 .. Len(s.dbs) |-> SaveDb(j - 1, s.dbs[j], s.policy)]) =
          FlattenSeq(DatabasesSaved(s.dbs, s.policy))
    BY Zenon DEF DatabasesSaved
  <2> QED
    BY <2>1, NothingSaved DEF DataOf, SavedDbs
<1> QED
  BY <1>1, <1>2, Zenon DEF SaveRio, BodyOf, HeadOf, Eof, Checksum, SumOf

LEMMA RecordKinds ==
  ASSUME NEW s, NEW rsi, NEW r \in BodyRecords(s, rsi)
  PROVE  r.op # "checksum" /\ (r.op = "value" => DOMAIN r = {"op", "key", "val"})
<1>1. CASE r \in FieldRecords(s, rsi)
  BY <1>1 DEF FieldRecords, Field
<1>2. CASE r \in {FunctionRecord(x) : x \in Elements(SavedLibraries(s))}
  BY <1>2 DEF FunctionRecord
<1>3. CASE r \in {[op |-> "selectdb", db |-> i] : i \in Nat}
  BY <1>3
<1>4. CASE \E db : r = [op |-> "resizedb", keys |-> Len(db),
                        expires |-> Cardinality({i \in DOMAIN db : db[i].expire # -1})]
  BY <1>4
<1>5. CASE \E e : r \in KeyRecords(e)
  BY <1>5 DEF KeyRecords, ValueRecord
<1>6. CASE r = Eof
  BY <1>6 DEF Eof
<1>7. r \in DatabaseRecords(SavedDbs(s)) =>
        \/ r \in {[op |-> "selectdb", db |-> i] : i \in Nat}
        \/ \E db : r = [op |-> "resizedb", keys |-> Len(db),
                        expires |-> Cardinality({i \in DOMAIN db : db[i].expire # -1})]
        \/ \E e : r \in KeyRecords(e)
  BY DEF DatabaseRecords
<1> QED
  BY <1>1, <1>2, <1>3, <1>4, <1>5, <1>6, <1>7 DEF BodyRecords

\* The state after the body, of a dump that s saved and c loads.
Outcome(z, s, c) ==
  LET dbs == SavedDbs(s)
      n == Len(dbs)
  IN /\ ClashUpTo(dbs, n, c.dbs, c) => z.ended = "panic"
     /\ ~ClashUpTo(dbs, n, c.dbs, c) /\ Beyond(dbs, n) => z.ended = "exit"
     /\ ~ClashUpTo(dbs, n, c.dbs, c) /\ ~Beyond(dbs, n) =>
          /\ z.ended = "no" /\ z.fed = AllTold(dbs, n, c)
          /\ \A j \in 1 .. DbNum :
               /\ j <= n => /\ Filled(z.dbs[j], Elements(z.dbs[j]))
                            /\ Elements(z.dbs[j]) =
                                 Merged(Elements(c.dbs[j]), Brought(dbs[j], Len(dbs[j]), s.policy, c))
               /\ j > n => z.dbs[j] = c.dbs[j]
AfterBody(z, s, rsi, c) ==
  /\ z.libraries = SavedLibraries(s) /\ PositionOf(z, Loading(c.dbs), s, rsi, c) /\ Outcome(z, s, c)

LEMMA BodyPlayed ==
  ASSUME NEW s, IsSaver(s), NEW c, IsLoader(c), NEW rsi, NEW stream
  PROVE  /\ BodyOf(s, rsi) \in Seq(BodyRecords(s, rsi))
         /\ AfterBody(Play(Loading(c.dbs), BodyOf(s, rsi), stream, c), s, rsi, c)
<1> DEFINE a == Loading(c.dbs)
           dbs == SavedDbs(s)
           n == Len(dbs)
           S == BodyRecords(s, rsi)
           F == SaveAux(s, rsi)
           L == SaveFunctions(SavedLibraries(s))
           H == HeadOf(s, rsi)
           D == DataOf(s)
           HD == H \o D
           E == <<Eof>>
           x == Play(a, F, stream, c)
           y == Play(x, L, stream, c)
           w == Play(y, D, stream, c)
           z == Play(a, BodyOf(s, rsi), stream, c)
<1>1. /\ AtRest(a) /\ a.dbs = c.dbs /\ a.fed = {} /\ a.libraries = << >>
  BY DEF IsLoader, Loading, AtRest, Shaped, NoAttributes
<1> HIDE DEF a
<1>2. F \in Seq(S) /\ L \in Seq(S) /\ D \in Seq(S) /\ E \in Seq(S)
  <2>1. F \in Seq(FieldRecords(s, rsi)) /\ FieldRecords(s, rsi) \subseteq S
    BY <1>1, FieldsPlayed DEF BodyRecords
  <2>2. /\ L \in Seq({FunctionRecord(q) : q \in Elements(SavedLibraries(s))})
        /\ {FunctionRecord(q) : q \in Elements(SavedLibraries(s))} \subseteq S
    BY <1>1, WhatIsSaved, LibrariesPlayed DEF BodyRecords
  <2>3. D \in Seq(DatabaseRecords(dbs)) /\ DatabaseRecords(dbs) \subseteq S
    <3>1. \A j \in 1 .. DbNum : Filled(a.dbs[j], Elements(a.dbs[j]))
      BY <1>1 DEF IsLoader
    <3>2. D = FlattenSeq(DatabasesSaved(dbs, s.policy))
      BY DEF DataOf
    <3>3. DatabaseRecords(dbs) \subseteq S
      BY DEF BodyRecords
    <3> HIDE DEF D, S
    <3> QED
      BY <1>1, <3>1, <3>2, <3>3, WhatIsSaved, DatabasesPlayed
  <2>4. E \in Seq(S)
    BY DEF BodyRecords
  <2> HIDE DEF S, F, L, D, E
  <2> QED
    BY <2>1, <2>2, <2>3, <2>4, WiderSeq
<1>3. AtRest(x) /\ SameData(x, a) /\ x.libraries = << >> /\ PositionOf(x, a, s, rsi, c)
  BY <1>1, FieldsPlayed
<1> HIDE DEF x
<1>4. AtRest(y) /\ SameData(y, x) /\ SamePosition(y, x) /\ y.libraries = SavedLibraries(s)
  <2>1. AfterLibraries(y, x, SavedLibraries(s))
    BY <1>3, WhatIsSaved, LibrariesPlayed, Zenon
  <2> QED
    BY <2>1 DEF AfterLibraries
<1> HIDE DEF y
<1>5. y.dbs = c.dbs /\ y.fed = {} /\ PositionOf(y, a, s, rsi, c)
  BY <1>1, <1>3, <1>4 DEF SameData, SamePosition, PositionOf
<1>6. AfterDatabases(w, y, dbs, n, s.policy, c)
  <2>1. \A j \in 1 .. DbNum : Filled(y.dbs[j], Elements(y.dbs[j]))
    BY <1>5 DEF IsLoader
  <2>2. D = FlattenSeq(DatabasesSaved(dbs, s.policy))
    BY DEF DataOf
  <2> QED
    BY <1>4, <2>1, <2>2, WhatIsSaved, DatabasesPlayed
<1>7. BodyOf(s, rsi) \in Seq(S) /\ z = LoadRecord(w, Eof, stream, c)
  <2>0. Play(w, E, stream, c) = LoadRecord(w, Eof, stream, c)
    BY PlayOne, ZenonT(60)
  <2>1. H = F \o L /\ BodyOf(s, rsi) = HD \o E
    BY DEF HeadOf, BodyOf
  <2> HIDE DEF F, L, D, E, S, H, w, z
  <2>2. H \in Seq(S)
    BY <1>2, <2>1
  <2>3. HD \in Seq(S)
    BY <1>2, <2>2
  <2> HIDE DEF HD
  <2>4. BodyOf(s, rsi) \in Seq(S)
    BY <1>2, <2>1, <2>3
  <2>5. Play(a, HD \o E, stream, c) = Play(Play(a, HD, stream, c), E, stream, c)
    BY <1>2, <2>3, PlayTwo
  <2>6. Play(a, H \o D, stream, c) = Play(Play(a, H, stream, c), D, stream, c)
    BY <1>2, <2>2, PlayTwo
  <2>7. Play(a, F \o L, stream, c) = Play(Play(a, F, stream, c), L, stream, c)
    BY <1>2, PlayTwo
  <2>8. Play(a, H, stream, c) = y
    BY <2>1, <2>7, Zenon DEF x, y
  <2>9. Play(a, HD, stream, c) = w
    BY <2>6, <2>8, Zenon DEF w, HD
  <2> QED
    BY <2>0, <2>1, <2>4, <2>5, <2>9, Zenon DEF z
<1> HIDE DEF w, z, S
<1>8. /\ w.libraries = SavedLibraries(s) /\ PositionOf(w, a, s, rsi, c) /\ Outcome(w, s, c)
      /\ w.ended = "no" => Shaped(w)
  <2>1. w.libraries = SavedLibraries(s) /\ SamePosition(w, y) /\ Shaped(w)
    BY <1>4, <1>6 DEF AfterDatabases
  <2>2. PositionOf(w, a, s, rsi, c)
    BY <1>5, <2>1 DEF PositionOf, SamePosition
  <2>3. /\ ClashUpTo(dbs, n, c.dbs, c) => w.ended = "panic"
        /\ ~ClashUpTo(dbs, n, c.dbs, c) /\ Beyond(dbs, n) => w.ended = "exit"
        /\ ~ClashUpTo(dbs, n, c.dbs, c) /\ ~Beyond(dbs, n) => LoadedDbs(w, y, dbs, n, s.policy, c)
    BY <1>5, <1>6 DEF AfterDatabases
  <2>4. Outcome(w, s, c)
    BY <1>5, <2>3 DEF Outcome, LoadedDbs, LoadedDb, AtRest
  <2> QED
    BY <2>1, <2>2, <2>4
<1>9. AfterBody(z, s, rsi, c)
  <2>1. CASE w.ended # "no"
    <3>1. z = w
      BY <1>7, <2>1 DEF LoadRecord
    <3> QED
      BY <1>8, <3>1 DEF AfterBody, a
  <2>2. CASE w.ended = "no"
    <3>1. Eof.op = "eof"
      BY DEF Eof
    <3>2. /\ GoesOn(z, w) /\ SamePosition(z, w) /\ SameData(z, w) /\ z.libraries = w.libraries
      BY <1>7, <1>8, <2>2, <3>1, HintLoaded
    <3>3. Outcome(z, s, c)
      BY <1>8, <2>2, <3>2 DEF Outcome, SameData, GoesOn
    <3>4. PositionOf(z, a, s, rsi, c)
      BY <1>8, <3>2 DEF PositionOf, SamePosition
    <3> QED
      BY <1>8, <3>2, <3>3, <3>4 DEF AfterBody, a
  <2> QED
    BY <2>1, <2>2
<1> QED
  BY <1>7, <1>9 DEF z, S, a

\* What the inputs mean is what the databases, one after the other, bring.
LEMMA KeptBrought ==
  ASSUME NEW s, IsSaver(s), NEW c, NEW j \in 1 .. DbNum
  PROVE  Kept(s, c, j) = IF j <= Len(SavedDbs(s))
                         THEN Brought(SavedDbs(s)[j], Len(SavedDbs(s)[j]), s.policy, c) ELSE {}
<1> DEFINE dbs == SavedDbs(s)
           db == dbs[j]
<1>0. DbNum \in Nat /\ Len(dbs) \in Nat /\ DOMAIN dbs = 1 .. Len(dbs)
  BY FormatAssumption, WhatIsSaved
<1>1. Dumped(s, j) = IF j <= Len(dbs) THEN {e \in Elements(db) : e.val # EMPTY} ELSE {}
  <2>1. CASE "data" \in s.req
    <3>1. dbs = << >> /\ Len(<< >>) = 0
      BY <2>1 DEF SavedDbs
    <3>2. ~(j <= Len(dbs))
      BY <1>0, <3>1
    <3> QED
      BY <2>1, <3>2 DEF Dumped
  <2>2. CASE "data" \notin s.req
    <3>1. dbs = s.dbs
      BY <2>2 DEF SavedDbs
    <3> QED
      BY <1>0, <2>2, <3>1 DEF Dumped
  <2> QED
    BY <2>1, <2>2
<1> HIDE DEF dbs
<1>2. Kept(s, c, j) = {FormOf(e, s.policy, c.policy) : e \in {d \in Dumped(s, j) : ~Expires(d, c)}}
  BY Zenon DEF Kept, FormOf
<1>3. CASE j <= Len(dbs)
  <2>1. DOMAIN db = 1 .. Len(db)
    <3>1. db \in Elements(dbs)
      BY <1>0, <1>3 DEF Elements
    <3>2. db \in Seq(Elements(db))
      BY <3>1, WhatIsSaved DEF Saveable, Filled, dbs
    <3> QED
      BY <3>2
  <2> HIDE DEF db
  <2>2. {d \in Dumped(s, j) : ~Expires(d, c)} = {db[i] : i \in {m \in 1 .. Len(db) : ~LeftOut(db[m], c)}}
    BY <1>1, <1>3, <2>1 DEF Elements, LeftOut
  <2>3. Kept(s, c, j) = Brought(db, Len(db), s.policy, c)
    BY <1>2, <2>2 DEF Brought
  <2> QED
    BY <1>3, <2>3 DEF db, dbs
<1>4. CASE ~(j <= Len(dbs))
  <2>1. Kept(s, c, j) = {}
    BY <1>1, <1>2, <1>4
  <2> QED
    BY <1>4, <2>1 DEF dbs
<1> QED
  BY <1>3, <1>4

LEMMA ToldExpired ==
  ASSUME NEW s, IsSaver(s), NEW c, NEW j \in 1 .. DbNum
  PROVE  (IF j <= Len(SavedDbs(s)) THEN Told(SavedDbs(s)[j], Len(SavedDbs(s)[j]), c, j) ELSE {}) =
           IF "feed" \notin c.flags THEN {}
           ELSE {<<j - 1, e.key>> : e \in {d \in Dumped(s, j) : Expires(d, c)}}
<1> DEFINE dbs == SavedDbs(s)
           db == dbs[j]
<1>0. DbNum \in Nat /\ Len(dbs) \in Nat /\ DOMAIN dbs = 1 .. Len(dbs)
  BY FormatAssumption, WhatIsSaved
<1>1. Dumped(s, j) = IF j <= Len(dbs) THEN {e \in Elements(db) : e.val # EMPTY} ELSE {}
  <2>1. CASE "data" \in s.req
    <3>1. dbs = << >> /\ Len(<< >>) = 0
      BY <2>1 DEF SavedDbs
    <3>2. ~(j <= Len(dbs))
      BY <1>0, <3>1
    <3> QED
      BY <2>1, <3>2 DEF Dumped
  <2>2. CASE "data" \notin s.req
    <3>1. dbs = s.dbs
      BY <2>2 DEF SavedDbs
    <3> QED
      BY <1>0, <2>2, <3>1 DEF Dumped
  <2> QED
    BY <2>1, <2>2
<1> HIDE DEF dbs
<1>3. CASE j <= Len(dbs)
  <2>1. DOMAIN db = 1 .. Len(db)
    <3>1. db \in Elements(dbs)
      BY <1>0, <1>3 DEF Elements
    <3>2. db \in Seq(Elements(db))
      BY <3>1, WhatIsSaved DEF Saveable, Filled, dbs
    <3> QED
      BY <3>2
  <2> HIDE DEF db
  <2>2. CASE "feed" \in c.flags
    <3>1. {d \in Dumped(s, j) : Expires(d, c)} = {db[i] : i \in {m \in 1 .. Len(db) : Announced(db[m], c)}}
      BY <1>1, <1>3, <2>1, <2>2 DEF Elements, Announced
    <3>2. Told(db, Len(db), c, j) = {<<j - 1, e.key>> : e \in {d \in Dumped(s, j) : Expires(d, c)}}
      BY <3>1 DEF Told
    <3> QED
      BY <1>3, <2>2, <3>2 DEF db, dbs
  <2>3. CASE "feed" \notin c.flags
    <3>1. Told(db, Len(db), c, j) = {}
      BY <2>3 DEF Told, Announced
    <3> QED
      BY <1>3, <2>3, <3>1 DEF db, dbs
  <2> QED
    BY <2>2, <2>3
<1>4. CASE ~(j <= Len(dbs))
  <2>1. {<<j - 1, e.key>> : e \in {d \in Dumped(s, j) : Expires(d, c)}} = {}
    BY <1>1, <1>4
  <2> QED
    BY <1>4, <2>1 DEF dbs
<1> QED
  BY <1>3, <1>4

LEMMA ClashMeant ==
  ASSUME NEW s, IsSaver(s), NEW c
  PROVE  /\ ClashUpTo(SavedDbs(s), Len(SavedDbs(s)), c.dbs, c) <=> Clash(s, c) /\ "dup" \notin c.flags
         /\ Beyond(SavedDbs(s), Len(SavedDbs(s))) <=> TooManyDbs(s)
         /\ AllTold(SavedDbs(s), Len(SavedDbs(s)), c) =
              IF "feed" \notin c.flags THEN {}
              ELSE UNION {{<<j - 1, e.key>> : e \in {d \in Dumped(s, j) : Expires(d, c)}} : j \in 1 .. DbNum}
<1> DEFINE dbs == SavedDbs(s)
           n == Len(dbs)
<1>0. DbNum \in Nat /\ n \in Nat
  BY FormatAssumption, WhatIsSaved
<1>1. ASSUME NEW j \in 1 .. DbNum
      PROVE  (j <= n /\ Clashing(dbs[j], Len(dbs[j]), c.dbs[j], c)) <=>
               /\ "dup" \notin c.flags
               /\ KeyNames(Kept(s, c, j)) \cap KeyNames(Elements(c.dbs[j])) # {}
  <2> DEFINE db == dbs[j]
  <2>1. CASE j <= n
    <3>1. Kept(s, c, j) = Brought(db, Len(db), s.policy, c)
      BY <2>1, KeptBrought
    <3> HIDE DEF db
    <3>2. KeyNames(Brought(db, Len(db), s.policy, c)) =
            {db[i].key : i \in {m \in 1 .. Len(db) : ~LeftOut(db[m], c)}}
      <4> DEFINE I == {m \in 1 .. Len(db) : ~LeftOut(db[m], c)}
                 f(i) == FormOf(db[i], s.policy, c.policy)
      <4>1. \A i \in I : f(i).key = db[i].key
        BY DEF FormOf
      <4> HIDE DEF I, f
      <4>2. KeyNames({f(i) : i \in I}) = {db[i].key : i \in I}
        BY <4>1 DEF KeyNames
      <4> QED
        BY <4>2 DEF Brought, f, I
    <3>3. Clashing(db, Len(db), c.dbs[j], c) <=>
               /\ "dup" \notin c.flags
               /\ KeyNames(Kept(s, c, j)) \cap KeyNames(Elements(c.dbs[j])) # {}
      <4> DEFINE old == Elements(c.dbs[j])
      <4>1. Clashing(db, Len(db), c.dbs[j], c) <=>
              /\ "dup" \notin c.flags
              /\ \E i \in {m \in 1 .. Len(db) : ~LeftOut(db[m], c)} : \E d \in old : d.key = db[i].key
        BY DEF Clashing, IsTaken
      <4> HIDE DEF old
      <4>2. (\E i \in {m \in 1 .. Len(db) : ~LeftOut(db[m], c)} : \E d \in old : d.key = db[i].key) <=>
              {db[i].key : i \in {m \in 1 .. Len(db) : ~LeftOut(db[m], c)}} \cap KeyNames(old) # {}
        BY DEF KeyNames
      <4> QED
        BY <3>1, <3>2, <4>1, <4>2 DEF old
    <3> QED
      BY <2>1, <3>3 DEF db
  <2>2. CASE ~(j <= n)
    <3>1. Kept(s, c, j) = {}
      BY <2>2, KeptBrought
    <3>2. KeyNames(Kept(s, c, j)) = {}
      BY <3>1 DEF KeyNames
    <3> QED
      BY <2>2, <3>2
  <2> QED
    BY <2>1, <2>2
<1>2. ClashUpTo(dbs, n, c.dbs, c) <=> Clash(s, c) /\ "dup" \notin c.flags
  <2> HIDE DEF dbs, n
  <2> QED
    BY <1>1 DEF ClashUpTo, Clash
<1>3. Beyond(dbs, n) <=> TooManyDbs(s)
  <2>1. CASE "data" \in s.req
    <3>1. dbs = << >> /\ Len(<< >>) = 0
      BY <2>1 DEF SavedDbs
    <3>2. DbNum + 1 .. n = {}
      BY <1>0, <3>1
    <3> QED
      BY <2>1, <3>2 DEF Beyond, TooManyDbs
  <2>2. CASE "data" \notin s.req
    BY <2>2 DEF Beyond, TooManyDbs, SavedDbs
  <2> QED
    BY <2>1, <2>2
<1>4. AllTold(dbs, n, c) =
        IF "feed" \notin c.flags THEN {}
        ELSE UNION {{<<j - 1, e.key>> : e \in {d \in Dumped(s, j) : Expires(d, c)}} : j \in 1 .. DbNum}
  <2> DEFINE T(j) == IF j <= n THEN Told(dbs[j], Len(dbs[j]), c, j) ELSE {}
             U(j) == {<<j - 1, e.key>> : e \in {d \in Dumped(s, j) : Expires(d, c)}}
  <2>1. \A j \in 1 .. DbNum : T(j) = IF "feed" \notin c.flags THEN {} ELSE U(j)
    BY ToldExpired, Zenon
  <2>2. AllTold(dbs, n, c) = UNION {T(j) : j \in 1 .. DbNum}
    <3> HIDE DEF dbs, n
    <3> QED
      BY DEF AllTold
  <2> HIDE DEF T, U
  <2>3. UNION {T(j) : j \in 1 .. DbNum} = IF "feed" \notin c.flags THEN {} ELSE UNION {U(j) : j \in 1 .. DbNum}
    BY <2>1
  <2> QED
    BY <2>2, <2>3 DEF U
<1> QED
  BY <1>2, <1>3, <1>4

\* The databases of a load that went to the end of the values.
LEMMA DatabasesMeant ==
  ASSUME NEW s, IsSaver(s), NEW c, IsLoader(c), NEW z, Outcome(z, s, c),
         ~(Clash(s, c) /\ "dup" \notin c.flags), ~TooManyDbs(s), NEW j \in 1 .. DbNum
  PROVE  Elements(z.dbs[j]) = Expected(s, c, j) /\ Len(z.dbs[j]) = Cardinality(Expected(s, c, j))
<1> DEFINE dbs == SavedDbs(s)
           n == Len(dbs)
           E == Elements(z.dbs[j])
<1>0. DbNum \in Nat /\ n \in Nat
  BY FormatAssumption, WhatIsSaved
<1>1. ~ClashUpTo(dbs, n, c.dbs, c) /\ ~Beyond(dbs, n)
  BY ClashMeant
<1> HIDE DEF dbs, n
<1>2. /\ j <= n => /\ Filled(z.dbs[j], E)
                   /\ E = Merged(Elements(c.dbs[j]), Brought(dbs[j], Len(dbs[j]), s.policy, c))
      /\ j > n => z.dbs[j] = c.dbs[j]
  BY <1>1 DEF Outcome, dbs, n
<1>3. Expected(s, c, j) = Merged(Elements(c.dbs[j]), Kept(s, c, j))
  BY DEF Expected, Merged
<1>4. E = Expected(s, c, j) /\ Filled(z.dbs[j], E)
  <2>1. CASE j <= n
    <3>1. Kept(s, c, j) = Brought(dbs[j], Len(dbs[j]), s.policy, c)
      BY <2>1, KeptBrought DEF dbs, n
    <3> QED
      BY <1>2, <1>3, <2>1, <3>1
  <2>2. CASE j > n
    <3>1. Kept(s, c, j) = {}
      <4>1. ~(j <= n)
        BY <1>0, <2>2
      <4> QED
        BY <4>1, KeptBrought DEF dbs, n
    <3>2. Merged(Elements(c.dbs[j]), {}) = Elements(c.dbs[j])
      BY DEF Merged, KeyNames
    <3> QED
      BY <1>2, <1>3, <2>2, <3>1, <3>2 DEF IsLoader
  <2> QED
    BY <1>0, <2>1, <2>2
<1>5. Len(z.dbs[j]) = Cardinality(E)
  BY <1>4, DistinctCounted DEF Filled
<1> QED
  BY <1>4, <1>5

LEMMA LoadPlayed ==
  ASSUME NEW t, NEW c
  PROVE  LET l == Play(Loading(c.dbs), t, t, c)
         IN LoadRio(t, c) = IF l.ended = "no" THEN [l EXCEPT !.ended = "eof"] ELSE l
BY DEF LoadRio, Play

\* A body and its checksum.
LEMMA BodyAndSum ==
  ASSUME NEW S, NEW t \in Seq(S), NEW x
  PROVE  /\ t \o <<x>> \in Seq(S \cup {x}) /\ Len(t \o <<x>>) = Len(t) + 1
         /\ \A i \in 1 .. Len(t) : (t \o <<x>>)[i] = t[i]
         /\ (t \o <<x>>)[Len(t) + 1] = x
         /\ SubSeq(t \o <<x>>, 1, Len(t)) = t
         /\ \A n \in 0 .. Len(t) : SubSeq(t \o <<x>>, 1, n) = SubSeq(t, 1, n)
<1> DEFINE n == Len(t)
           w == t \o <<x>>
<1>1. /\ n \in Nat /\ w \in Seq(S \cup {x}) /\ Len(w) = n + 1
      /\ \A i \in 1 .. n : w[i] = t[i]
      /\ w[n + 1] = x
  OBVIOUS
<1> HIDE DEF w
<1>2. ASSUME NEW m \in 0 .. n PROVE SubSeq(w, 1, m) = SubSeq(t, 1, m)
  <2>1. SubSeq(w, 1, m) = [i \in 1 .. m |-> w[i]] /\ SubSeq(t, 1, m) = [i \in 1 .. m |-> t[i]]
    BY <1>1
  <2> QED
    BY <1>1, <2>1
<1>3. SubSeq(t, 1, n) = t
  OBVIOUS
<1>4. SubSeq(w, 1, n) = t
  <2>1. n \in 0 .. n
    BY <1>1
  <2> QED
    BY <1>2, <1>3, <2>1
<1> QED
  BY <1>1, <1>2, <1>4 DEF w

LEMMA SumPlayed ==
  ASSUME NEW S, NEW t \in Seq(S), NEW x, NEW stream, NEW c, NEW a
  PROVE  Play(a, t \o <<x>>, stream, c) = LoadRecord(Play(a, t, stream, c), x, stream, c)
<1> DEFINE T == S \cup {x}
           u == <<x>>
<1>1. t \in Seq(T) /\ u \in Seq(T)
  <2>1. S \subseteq T
    OBVIOUS
  <2> HIDE DEF T
  <2>2. t \in Seq(T)
    BY <2>1, WiderSeq
  <2> QED
    BY <2>2 DEF T
<1>2. \A y : Play(y, u, stream, c) = LoadRecord(y, x, stream, c)
  BY PlayOne, Zenon
<1> HIDE DEF T, u
<1>3. Play(a, t \o u, stream, c) = Play(Play(a, t, stream, c), u, stream, c)
  BY <1>1, PlayTwo
<1> QED
  BY <1>2, <1>3, Zenon DEF u

\* The whole dump.
LoadedWhole(z, r, s, rsi, c) ==
  /\ AfterBody(z, s, rsi, c) /\ DOMAIN z = Fields /\ z.ended # "ok"
  /\ r = IF z.ended = "no" THEN [z EXCEPT !.ended = "ok"] ELSE z

LEMMA WholeLoaded ==
  ASSUME NEW s, IsSaver(s), NEW c, IsLoader(c), NEW rsi
  PROVE  \E z : LoadedWhole(z, LoadRio(SaveRio(s, s.req, rsi), c), s, rsi, c)
<1> DEFINE body == BodyOf(s, rsi)
           S == BodyRecords(s, rsi)
           sum == Checksum(SumOf(s, rsi))
           stream == body \o <<sum>>
           a == Loading(c.dbs)
           z == Play(a, body, stream, c)
           l == LoadRecord(z, sum, stream, c)
           r == LoadRio(stream, c)
<1>1. SaveRio(s, s.req, rsi) = stream
  BY StreamSaved
<1>2. body \in Seq(S) /\ AfterBody(z, s, rsi, c)
  <2> HIDE DEF stream
  <2> QED
    BY BodyPlayed
<1>3. \A i \in 1 .. Len(body) : body[i].op # "checksum"
  <2>1. \A i \in 1 .. Len(body) : body[i] \in S
    <3> HIDE DEF S, body
    <3> QED
      BY <1>2
  <2> QED
    BY <2>1, RecordKinds
<1>4. Len(body) \in Nat
  <2> HIDE DEF S, body
  <2> QED
    BY <1>2
<1>5. Unsummed(z, Len(body))
  <2>1. Unsummed(a, 0)
    BY LoadingUnsummed
  <2> HIDE DEF a, S, body, stream
  <2> QED
    BY <1>2, <1>3, <2>1, AllRead
<1>6. SubSeq(stream, 1, Len(body)) = body
  <2> HIDE DEF S, body, sum
  <2> QED
    BY <1>2, BodyAndSum, Zenon
<1>7. Play(a, stream, stream, c) = l
  <2>1. \A u : Play(a, body \o <<sum>>, u, c) = LoadRecord(Play(a, body, u, c), sum, u, c)
    <3>1. body \in Seq(S)
      BY <1>2
    <3> HIDE DEF S, body, sum, a, stream
    <3> SUFFICES ASSUME NEW u
                 PROVE  Play(a, body \o <<sum>>, u, c) = LoadRecord(Play(a, body, u, c), sum, u, c)
      OBVIOUS
    <3> QED
      BY <3>1, SumPlayed
  <2> QED
    BY <2>1, Zenon
<1>8. r = IF l.ended = "no" THEN [l EXCEPT !.ended = "eof"] ELSE l
  BY <1>7, LoadPlayed
<1>9. SumOf(s, rsi) = body \/ SumOf(s, rsi) = << >>
  BY DEF SumOf
<1> HIDE DEF stream, body, z, l, r, a
<1>10. l = IF z.ended = "no" THEN [z EXCEPT !.ended = "ok"] ELSE z
  <2>1. IF z.ended # "no" THEN l = z
        ELSE l = [z EXCEPT !.ended = IF c.checksum /\ SumOf(s, rsi) # << >> /\ SumOf(s, rsi) # SubSeq(stream, 1, Len(body))
                                     THEN "crc" ELSE "ok"]
    BY <1>4, <1>5, SumCompared DEF l
  <2> QED
    BY <1>6, <1>9, <2>1
<1>11. z.ended # "ok" /\ DOMAIN z = Fields
  BY <1>5 DEF Unsummed
<1>12. r = l
  <2>1. l.ended # "no"
    BY <1>10, <1>11 DEF Fields
  <2> QED
    BY <1>8, <2>1
<1>13. LoadedWhole(z, r, s, rsi, c)
  BY <1>2, <1>10, <1>11, <1>12 DEF LoadedWhole
<1> QED
  BY <1>1, <1>13 DEF r

-----------------------------------------------------------------------------
(* What the properties say of one dump and who loads it.                   *)

ComesBackAs(r, s, c) ==
  CASE Clash(s, c) /\ "dup" \notin c.flags -> r.ended = "panic"
    [] TooManyDbs(s) /\ ~(Clash(s, c) /\ "dup" \notin c.flags) -> r.ended = "exit"
    [] OTHER ->
         /\ r.ended = "ok"
         /\ \A j \in 1 .. DbNum : /\ Elements(r.dbs[j]) = Expected(s, c, j)
                                 /\ Len(r.dbs[j]) = Cardinality(Expected(s, c, j))
         /\ r.fed = IF "feed" \notin c.flags THEN {}
                    ELSE UNION {{<<j - 1, e.key>> : e \in {d \in Dumped(s, j) : Expires(d, c)}} :
                                  j \in 1 .. DbNum}
         /\ r.libraries = IF "functions" \in s.req THEN << >> ELSE s.libraries

LEMMA DumpBack ==
  ASSUME NEW s, IsSaver(s), NEW c, IsLoader(c), NEW rsi
  PROVE  ComesBackAs(LoadRio(SaveRio(s, s.req, rsi), c), s, c)
<1> DEFINE r == LoadRio(SaveRio(s, s.req, rsi), c)
<1>1. PICK z : LoadedWhole(z, r, s, rsi, c)
  BY WholeLoaded
<1> HIDE DEF r
<1>2. /\ Outcome(z, s, c) /\ z.libraries = SavedLibraries(s) /\ DOMAIN z = Fields
      /\ r = IF z.ended = "no" THEN [z EXCEPT !.ended = "ok"] ELSE z
  BY <1>1 DEF LoadedWhole, AfterBody
<1> DEFINE clash == Clash(s, c) /\ "dup" \notin c.flags
<1>3. /\ clash => z.ended = "panic"
      /\ ~clash /\ TooManyDbs(s) => z.ended = "exit"
      /\ ~clash /\ ~TooManyDbs(s) => z.ended = "no" /\ z.fed = AllTold(SavedDbs(s), Len(SavedDbs(s)), c)
  BY <1>2, ClashMeant DEF Outcome
<1>4. CASE clash
  <2>1. r.ended = "panic"
    BY <1>2, <1>3, <1>4
  <2> QED
    BY <1>4, <2>1 DEF ComesBackAs, r
<1>5. CASE ~clash /\ TooManyDbs(s)
  <2>1. r.ended = "exit"
    BY <1>2, <1>3, <1>5
  <2> QED
    BY <1>5, <2>1 DEF ComesBackAs, r
<1>6. CASE ~clash /\ ~TooManyDbs(s)
  <2>1. z.ended = "no" /\ r = [z EXCEPT !.ended = "ok"]
    BY <1>2, <1>3, <1>6
  <2>2. r.ended = "ok" /\ r.dbs = z.dbs /\ r.fed = z.fed /\ r.libraries = z.libraries
    BY <1>2, <2>1 DEF Fields
  <2>3. \A j \in 1 .. DbNum : /\ Elements(r.dbs[j]) = Expected(s, c, j)
                              /\ Len(r.dbs[j]) = Cardinality(Expected(s, c, j))
    BY <1>2, <1>6, <2>2, DatabasesMeant
  <2>4. r.fed = IF "feed" \notin c.flags THEN {}
                ELSE UNION {{<<j - 1, e.key>> : e \in {d \in Dumped(s, j) : Expires(d, c)}} :
                              j \in 1 .. DbNum}
    BY <1>3, <1>6, <2>2, ClashMeant
  <2>5. r.libraries = IF "functions" \in s.req THEN << >> ELSE s.libraries
    BY <1>2, <2>2 DEF SavedLibraries
  <2> HIDE DEF clash
  <2>6. ComesBackAs(r, s, c)
    BY <1>6, <2>2, <2>3, <2>4, <2>5, Zenon DEF ComesBackAs, clash
  <2> QED
    BY <2>6 DEF r
<1> QED
  BY <1>4, <1>5, <1>6

PositionBack(r, s, c) ==
  r.ended = "ok" =>
    LET repl == s.repl IN
    IF InAChain(repl) /\ c.rsi
      THEN /\ r.replid = s.replid
           /\ r.offset = s.offset
           /\ NextIsFor(r.streamdb, repl)
      ELSE r.replid = "none" /\ r.offset = -1 /\ r.streamdb = -1

LEMMA PositionGiven ==
  ASSUME NEW s \in Servers, NEW c \in Loaders
  PROVE  PositionBack(LoadRio(SaveRio(s, s.req, PopulateSaveInfo(s.repl)), c), s, c)
<1> DEFINE rsi == PopulateSaveInfo(s.repl)
           r == LoadRio(SaveRio(s, s.req, rsi), c)
           repl == s.repl
<1>1. IsSaver(s) /\ IsLoader(c)
  BY Inputs
<1>2. PICK z : LoadedWhole(z, r, s, rsi, c)
  BY <1>1, WholeLoaded
<1>3. IF InAChain(repl) THEN rsi # NoInfo /\ NextIsFor(rsi.db, repl)
      ELSE rsi = NoInfo
  <2>1. {repl.slaveseldb, repl.master, repl.cached} \subseteq Int /\ NoInfo \notin [db : Int]
    BY DumpInputsAssumption, Zenon
  <2>2. \A x \in Int : [db |-> x] # NoInfo /\ [db |-> x].db = x
    <3> SUFFICES ASSUME NEW x \in Int PROVE [db |-> x] \in [db : Int]
      BY <2>1
    <3> QED
      OBVIOUS
  <2> DEFINE x == IF repl.slaveseldb = -1 THEN 0 ELSE repl.slaveseldb
  <2>3. /\ x \in Int /\ x # -1
        /\ x = repl.slaveseldb \/ (repl.slaveseldb = -1 /\ x = 0)
    BY <2>1
  <2> HIDE DEF repl
  <2>4. CASE repl.masterhost = "none" /\ repl.backlog
    <3>1. rsi = [db |-> x]
      BY <2>4 DEF PopulateSaveInfo, repl
    <3> HIDE DEF x, rsi
    <3> QED
      BY <2>2, <2>3, <2>4, <3>1 DEF InAChain, FeedsOthers, NextIsFor
  <2>5. CASE ~(repl.masterhost = "none" /\ repl.backlog) /\ repl.master # -1
    <3>1. rsi = [db |-> repl.master]
      BY <2>5 DEF PopulateSaveInfo, repl
    <3> HIDE DEF rsi
    <3>2. repl.master \in Int
      BY <2>1
    <3>3. rsi # NoInfo /\ rsi.db = repl.master
      BY <2>2, <3>1, <3>2
    <3> QED
      BY <2>5, <3>3 DEF InAChain, FeedsOthers, NextIsFor
  <2>6. CASE ~(repl.masterhost = "none" /\ repl.backlog) /\ repl.master = -1 /\ repl.cached # -1
    <3>1. rsi = [db |-> repl.cached]
      BY <2>6 DEF PopulateSaveInfo, repl
    <3> HIDE DEF rsi
    <3>2. repl.cached \in Int
      BY <2>1
    <3>3. rsi # NoInfo /\ rsi.db = repl.cached
      BY <2>2, <3>1, <3>2
    <3> QED
      BY <2>6, <3>3 DEF InAChain, FeedsOthers, NextIsFor
  <2>7. CASE ~(repl.masterhost = "none" /\ repl.backlog) /\ repl.master = -1 /\ repl.cached = -1
    <3>1. rsi = NoInfo
      BY <2>7 DEF PopulateSaveInfo, repl
    <3> QED
      BY <2>7, <3>1 DEF InAChain, FeedsOthers, NextIsFor
  <2> QED
    BY <2>4, <2>5, <2>6, <2>7
<1> HIDE DEF r, rsi
<1>4. /\ PositionOf(z, Loading(c.dbs), s, rsi, c)
      /\ r.replid = z.replid /\ r.offset = z.offset /\ r.streamdb = z.streamdb
  BY <1>2 DEF LoadedWhole, AfterBody, Fields
<1>5. LET l == Loading(c.dbs) IN l.replid = "none" /\ l.offset = -1 /\ l.streamdb = -1
  BY DEF Loading
<1> HIDE DEF repl
<1>6. IF InAChain(repl) /\ c.rsi
      THEN /\ r.replid = s.replid
           /\ r.offset = s.offset
           /\ NextIsFor(r.streamdb, repl)
      ELSE r.replid = "none" /\ r.offset = -1 /\ r.streamdb = -1
  BY <1>3, <1>4, <1>5 DEF PositionOf, SamePosition
<1>7. PositionBack(r, s, c)
  BY <1>6 DEF PositionBack, repl
<1> QED
  BY <1>7 DEF r, rsi

\* A dump that ends too early.
LEMMA NoSumNoLoad ==
  ASSUME NEW S, NEW t \in Seq(S), \A i \in 1 .. Len(t) : t[i].op # "checksum", NEW c
  PROVE  LoadRio(t, c).ended # "ok"
<1> DEFINE l == Play(Loading(c.dbs), t, t, c)
<1>1. Unsummed(l, Len(t))
  BY LoadingUnsummed, AllRead
<1>2. LoadRio(t, c) = IF l.ended = "no" THEN [l EXCEPT !.ended = "eof"] ELSE l
  BY LoadPlayed
<1> HIDE DEF l
<1> QED
  BY <1>1, <1>2 DEF Unsummed, Fields

\* The body of a dump.
LEMMA BodyFacts ==
  ASSUME NEW s, IsSaver(s), NEW c, IsLoader(c), NEW rsi
  PROVE  /\ BodyOf(s, rsi) \in Seq(BodyRecords(s, rsi)) /\ BodyOf(s, rsi) # << >>
         /\ \A i \in 1 .. Len(BodyOf(s, rsi)) :
              /\ BodyOf(s, rsi)[i].op # "checksum"
              /\ BodyOf(s, rsi)[i].op = "value" => DOMAIN BodyOf(s, rsi)[i] = {"op", "key", "val"}
<1> DEFINE body == BodyOf(s, rsi)
           S == BodyRecords(s, rsi)
           HD == HeadOf(s, rsi) \o DataOf(s)
<1>1. body \in Seq(S)
  BY BodyPlayed
<1>2. \A i \in 1 .. Len(body) : body[i] \in S
  <2> HIDE DEF body, S
  <2> QED
    BY <1>1
<1>3. body # << >>
  <2>1. HD \o <<Eof>> # << >>
    <3> HIDE DEF HD
    <3>1. Len(HD \o <<Eof>>) = Len(HD) + 1 /\ Len(HD) \in Nat
      OBVIOUS
    <3> QED
      BY <3>1
  <2> QED
    BY <2>1 DEF BodyOf
<1> QED
  BY <1>1, <1>2, <1>3, RecordKinds

LEMMA ShortDumpSeen ==
  ASSUME NEW s, IsSaver(s), NEW c, IsLoader(c), NEW rsi, NEW p \in StrictPrefixes(SaveRio(s, s.req, rsi))
  PROVE  LoadRio(p, c).ended # "ok"
<1> DEFINE body == BodyOf(s, rsi)
           S == BodyRecords(s, rsi)
           sum == Checksum(SumOf(s, rsi))
           stream == body \o <<sum>>
<1>1. body \in Seq(S) /\ \A i \in 1 .. Len(body) : body[i].op # "checksum"
  BY BodyFacts
<1>2. SaveRio(s, s.req, rsi) = stream
  BY StreamSaved
<1> HIDE DEF body, S, sum
<1>3. Len(stream) = Len(body) + 1 /\ \A n \in 0 .. Len(body) : SubSeq(stream, 1, n) = SubSeq(body, 1, n)
  BY <1>1, BodyAndSum
<1>4. Len(body) \in Nat
  BY <1>1
<1>5. PICK n \in 0 .. Len(body) : p = SubSeq(body, 1, n)
  BY <1>2, <1>3, <1>4 DEF StrictPrefixes
<1>6. p \in Seq(S) /\ \A i \in 1 .. Len(p) : p[i].op # "checksum"
  BY <1>1, <1>4, <1>5
<1> QED
  BY <1>6, NoSumNoLoad

\* A dump with a value changed.
LEMMA ChangeSeen ==
  ASSUME NEW s, IsSaver(s), s.checksum, NEW c, IsLoader(c), c.checksum, NEW rsi,
         NEW i \in DOMAIN SaveRio(s, s.req, rsi),
         SaveRio(s, s.req, rsi)[i].op = "value", SaveRio(s, s.req, rsi)[i].val # EMPTY
  PROVE  LoadRio(Changed(SaveRio(s, s.req, rsi), i), c).ended # "ok"
<1> DEFINE body == BodyOf(s, rsi)
           S == BodyRecords(s, rsi)
           sum == Checksum(SumOf(s, rsi))
           stream == body \o <<sum>>
           n == Len(body)
           x == [body[i] EXCEPT !.val = EMPTY]
           other == [body EXCEPT ![i] = x]
           T == S \cup {x}
           u == Changed(stream, i)
           a == Loading(c.dbs)
           z == Play(a, other, u, c)
           l == LoadRecord(z, sum, u, c)
<1>1. /\ body \in Seq(S) /\ body # << >>
      /\ \A k \in 1 .. n : /\ body[k].op # "checksum"
                           /\ body[k].op = "value" => DOMAIN body[k] = {"op", "key", "val"}
  BY BodyFacts
<1>2. SaveRio(s, s.req, rsi) = stream
  BY StreamSaved
<1>3. SumOf(s, rsi) = body
  BY DEF SumOf
<1>4. sum.op = "checksum"
  BY DEF Checksum
<1>5. i \in DOMAIN stream /\ stream[i].op = "value" /\ stream[i].val # EMPTY
  BY <1>2
<1> HIDE DEF body, S, sum
<1>6. /\ stream \in Seq(S \cup {sum}) /\ Len(stream) = n + 1 /\ n \in Nat
      /\ \A k \in 1 .. n : stream[k] = body[k]
      /\ stream[n + 1] = sum
  <2>1. /\ stream \in Seq(S \cup {sum}) /\ Len(stream) = n + 1
        /\ \A k \in 1 .. n : stream[k] = body[k]
        /\ stream[n + 1] = sum
    BY <1>1, BodyAndSum
  <2>2. n \in Nat
    BY <1>1
  <2> QED
    BY <2>1, <2>2
<1>7. i \in 1 .. n /\ stream[i] = body[i] /\ body[i].op = "value" /\ body[i].val # EMPTY
  <2> HIDE DEF stream, n
  <2>1. DOMAIN stream = 1 .. n + 1
    BY <1>6
  <2>2. i # n + 1
    BY <1>4, <1>5, <1>6
  <2> QED
    BY <1>5, <1>6, <2>1, <2>2
<1>8. x.val = EMPTY /\ x.op = "value"
  BY <1>1, <1>7
<1> HIDE DEF x
<1>9. other \in Seq(T) /\ Len(other) = n /\ \A k \in 1 .. n : other[k] = IF k = i THEN x ELSE body[k]
  <2>1. DOMAIN body = 1 .. n /\ \A k \in 1 .. n : body[k] \in T
    BY <1>1
  <2>2. other = [k \in 1 .. n |-> IF k = i THEN x ELSE body[k]]
    BY <1>7, <2>1
  <2> HIDE DEF other, T
  <2>3. \A k \in 1 .. n : (IF k = i THEN x ELSE body[k]) \in T
    BY <2>1 DEF T
  <2> HIDE DEF n
  <2>4. [k \in 1 .. n |-> IF k = i THEN x ELSE body[k]] \in Seq(T)
    BY <1>6, <2>3
  <2>5. other \in Seq(T) /\ DOMAIN other = 1 .. n
    BY <2>2, <2>4
  <2>6. Len(other) = n
    BY <1>6, <2>5
  <2> QED
    BY <2>2, <2>5, <2>6
<1>10. u = other \o <<sum>>
  <2> DEFINE v == other \o <<sum>>
             W == T \cup {sum}
  <2>1. /\ v \in Seq(W) /\ Len(v) = n + 1 /\ \A k \in 1 .. n : v[k] = other[k]
        /\ v[n + 1] = sum
    <3> HIDE DEF other, T, n
    <3> QED
      BY <1>9, BodyAndSum
  <2>2. u = [stream EXCEPT ![i] = x]
    <3> HIDE DEF stream
    <3> QED
      BY <1>7 DEF Changed, x
  <2> HIDE DEF stream, v, u, other, n, T, W
  <2>3. DOMAIN stream = 1 .. n + 1 /\ DOMAIN v = 1 .. n + 1
    BY <1>6, <2>1
  <2>4. u = [k \in 1 .. n + 1 |-> IF k = i THEN x ELSE stream[k]]
    BY <1>6, <1>7, <2>2, <2>3
  <2>5. \A k \in 1 .. n + 1 : v[k] = IF k = i THEN x ELSE stream[k]
    <3> SUFFICES ASSUME NEW k \in 1 .. n + 1 PROVE v[k] = IF k = i THEN x ELSE stream[k]
      OBVIOUS
    <3>1. CASE k = n + 1
      BY <1>6, <1>7, <2>1, <3>1
    <3>2. CASE k # n + 1
      <4>1. k \in 1 .. n
        BY <1>6, <3>2
      <4> QED
        BY <1>6, <1>9, <2>1, <4>1
    <3> QED
      BY <3>1, <3>2
  <2>6. v = [k \in 1 .. n + 1 |-> v[k]]
    BY <1>6, <2>1
  <2>7. u = v
    BY <2>4, <2>5, <2>6
  <2> QED
    BY <2>7 DEF v
<1>11. \A k \in 1 .. n : other[k].op # "checksum"
  BY <1>1, <1>8, <1>9
<1>12. other # body
  BY <1>7, <1>8, <1>9
<1> HIDE DEF other, stream, n, T, u
<1>13. Unsummed(z, n)
  <2>1. Unsummed(a, 0)
    BY LoadingUnsummed
  <2> HIDE DEF a
  <2> QED
    BY <1>9, <1>11, <2>1, AllRead
<1>14. Play(a, u, u, c) = l
  <2>1. \A y : Play(a, other \o <<sum>>, y, c) = LoadRecord(Play(a, other, y, c), sum, y, c)
    <3> HIDE DEF a
    <3> SUFFICES ASSUME NEW y
                 PROVE  Play(a, other \o <<sum>>, y, c) = LoadRecord(Play(a, other, y, c), sum, y, c)
      OBVIOUS
    <3> QED
      BY <1>9, SumPlayed
  <2> QED
    BY <1>10, <2>1, Zenon
<1>15. SubSeq(u, 1, n) = other
  <2>1. SubSeq(other \o <<sum>>, 1, Len(other)) = other
    BY <1>9, BodyAndSum
  <2> QED
    BY <1>9, <1>10, <2>1, Zenon
<1> HIDE DEF z, l
<1>16. l.ended # "ok" /\ l.ended # "no"
  <2>1. IF z.ended # "no" THEN l = z
        ELSE l = [z EXCEPT !.ended = IF c.checksum /\ SumOf(s, rsi) # << >> /\ SumOf(s, rsi) # SubSeq(u, 1, n)
                                     THEN "crc" ELSE "ok"]
    BY <1>6, <1>13, SumCompared DEF l, sum
  <2>2. z.ended = "no" => l = [z EXCEPT !.ended = "crc"]
    BY <1>1, <1>3, <1>12, <1>15, <2>1
  <2> QED
    BY <1>13, <2>1, <2>2 DEF Unsummed, Fields
<1>17. LoadRio(u, c) = l
  <2>1. LoadRio(u, c) = IF l.ended = "no" THEN [l EXCEPT !.ended = "eof"] ELSE l
    BY <1>14, LoadPlayed DEF a
  <2> QED
    BY <1>16, <2>1
<1> QED
  BY <1>2, <1>16, <1>17 DEF u

\* A dump that was made, of whom and by whom it is loaded.
DumpOf(x) ==
  LET stream == SaveRio(x.server, x.server.req, PopulateSaveInfo(x.server.repl))
  IN [stream |-> stream, loaded |-> LoadRio(stream, x.loader)]
DumpInv ==
  /\ call = [fn |-> call.fn, in |-> call.in, out |-> call.out]
  /\ call.fn = "dump" => /\ call.in.server \in Servers /\ call.in.loader \in Loaders
                         /\ call.out \in {<< >>, <<DumpOf(call.in)>>}

LEMMA OtherCalls ==
  ASSUME NEW fn, NEW inputs, call \in Call(fn, inputs),
         fn = "dump" => \A x \in inputs : x.server \in Servers /\ x.loader \in Loaders
  PROVE  DumpInv
<1>1. PICK x \in inputs : call = [fn |-> fn, in |-> x, out |-> << >>]
  BY DEF Call
<1>2. call.fn = fn /\ call.in = x /\ call.out = << >>
  BY <1>1
<1> QED
  BY <1>1, <1>2 DEF DumpInv

LEMMA DumpInvInit == CallInit => DumpInv
<1> DEFINE dumps == {[server |-> s, loader |-> l] : s \in Servers, l \in Loaders}
           lfu == [count : 0 .. MaxCount, at : Clocks, now : Clocks, decay : Decays]
<1> SUFFICES ASSUME CallInit PROVE DumpInv
  OBVIOUS
<1>1. \/ call \in Call("length", Lengths) \/ call \in Call("number", Numbers)
      \/ call \in Call("string", Strings) \/ call \in Call("double", Doubles)
      \/ call \in Call("dump", dumps)
      \/ call \in Call("keys", Forms) \/ call \in Call("channels", ChannelForms)
      \/ call \in Call("lfu", lfu)
  BY DEF CallInit
<1>2. \A x \in dumps : x.server \in Servers /\ x.loader \in Loaders
  OBVIOUS
<1> HIDE DEF dumps, lfu
<1> QED
  BY <1>1, <1>2, OtherCalls

LEMMA ReturnKeepsDumpInv ==
  ASSUME DumpInv, NEW fn, NEW result, Return(fn, result), fn = "dump" => result = DumpOf(call.in)
  PROVE  DumpInv'
<1>1. call' = [fn |-> call.fn, in |-> call.in, out |-> <<result>>] /\ call.fn = fn
  BY DEF DumpInv, Return
<1>2. call'.fn = call.fn /\ call'.in = call.in /\ call'.out = <<result>>
  BY <1>1
<1>3. CASE fn = "dump"
  <2>1. call'.out = <<DumpOf(call'.in)>>
    BY <1>1, <1>2, <1>3
  <2> QED
    BY <1>1, <1>2, <1>3, <2>1 DEF DumpInv
<1>4. CASE fn # "dump"
  BY <1>1, <1>2, <1>4 DEF DumpInv
<1> QED
  BY <1>3, <1>4

LEMMA DumpInvStep == DumpInv /\ [CallNext]_call => DumpInv'
<1> SUFFICES ASSUME DumpInv, [CallNext]_call PROVE DumpInv'
  OBVIOUS
<1>1. CASE ReturnDump
  BY <1>1, ReturnKeepsDumpInv DEF ReturnDump, DumpOf
<1>2. CASE ReturnLength
  BY <1>2, ReturnKeepsDumpInv DEF ReturnLength
<1>3. CASE ReturnNumber
  BY <1>3, ReturnKeepsDumpInv DEF ReturnNumber
<1>4. CASE ReturnString
  BY <1>4, ReturnKeepsDumpInv DEF ReturnString
<1>5. CASE ReturnDouble
  BY <1>5, ReturnKeepsDumpInv DEF ReturnDouble
<1>6. CASE ReturnKeys
  BY <1>6, ReturnKeepsDumpInv DEF ReturnKeys
<1>7. CASE ReturnChannels
  BY <1>7, ReturnKeepsDumpInv DEF ReturnChannels
<1>8. CASE ReturnLfu
  <2>1. PICK result : Return("lfu", result)
    BY <1>8 DEF ReturnLfu
  <2> QED
    BY <2>1, ReturnKeepsDumpInv
<1>9. CASE UNCHANGED call
  BY <1>9 DEF DumpInv
<1> QED
  BY <1>1, <1>2, <1>3, <1>4, <1>5, <1>6, <1>7, <1>8, <1>9 DEF CallNext

LEMMA DumpInvLoads == DumpInv => DumpIsLoaded
<1> SUFFICES ASSUME DumpInv, Returned("dump")
             PROVE  DumpComesBack /\ PositionComesBack /\ DamageIsSeen
  BY DEF DumpIsLoaded, DumpComesBack, PositionComesBack, DamageIsSeen
<1> DEFINE s == call.in.server
           c == call.in.loader
           stream == SaveRio(s, s.req, PopulateSaveInfo(s.repl))
<1>1. s \in Servers /\ c \in Loaders /\ Out.stream = stream /\ Out.loaded = LoadRio(stream, c)
  BY DEF DumpInv, Returned, Out, DumpOf
<1>2. IsSaver(s) /\ IsLoader(c)
  BY <1>1, Inputs
<1>3. DumpComesBack
  <2>1. ComesBackAs(Out.loaded, s, c)
    BY <1>1, <1>2, DumpBack
  <2> QED
    BY <2>1, Zenon DEF DumpComesBack, ComesBackAs
<1>4. PositionComesBack
  <2>1. PositionBack(Out.loaded, s, c)
    BY <1>1, PositionGiven
  <2> QED
    BY <2>1 DEF PositionComesBack, PositionBack
<1>5. DamageIsSeen
  <2>1. \A p \in StrictPrefixes(stream) : LoadRio(p, c).ended # "ok"
    BY <1>2, ShortDumpSeen
  <2>2. s.checksum /\ c.checksum =>
          \A i \in DOMAIN stream :
            stream[i].op = "value" /\ stream[i].val # EMPTY => LoadRio(Changed(stream, i), c).ended # "ok"
    BY <1>2, ChangeSeen
  <2> HIDE DEF stream
  <2> QED
    BY <1>1, <2>1, <2>2 DEF DamageIsSeen
<1> QED
  BY <1>3, <1>4, <1>5

(***************************************************************************)
(* Whatever is in the databases, however many they are, and whoever saves  *)
(* and loads them, a dump is loaded as what it was saved as, with its      *)
(* position in the stream of replication; a part of it is never loaded as  *)
(* a whole, nor a value that was changed (rdb.c:1123-1427, 3036-3380).     *)
(***************************************************************************)
THEOREM DumpIsLoadedCorrect == CallSpec => []DumpIsLoaded
<1> QED
  BY DumpInvInit, DumpInvStep, DumpInvLoads, PTL DEF CallSpec
=============================================================================
