------------------------- MODULE ReplicationProofs -------------------------
(***************************************************************************)
(* Proofs about a master and its replica, for any databases, keys, clocks  *)
(* and any length of the stream: the assertions of db.c hold on both, and  *)
(* a replica that nobody writes to follows its master.                     *)
(***************************************************************************)
EXTENDS Replication, TLAPS

MP == INSTANCE KeyspaceProofs WITH
        Roles <- {"master"}, data <- mdata, now <- mnow, role <- "master",
        paused <- mpaused, asking <- masking, failed <- mfailed
RP == INSTANCE KeyspaceProofs WITH
        data <- rdata, now <- rnow, role <- rrole, paused <- rpaused,
        asking <- rasking, failed <- rfailed

-----------------------------------------------------------------------------
(* The lemmas about the keyspace, on the master and on the replica. *)

LEMMA Assumptions == MP!KeyspaceAssumption /\ RP!KeyspaceAssumption
  BY ReplicationAssumption DEF MP!KeyspaceAssumption, RP!KeyspaceAssumption

Applied(d, cmd) == MP!Applied(d, cmd)
Sound(d) == MP!Sound(d)
Commands == MP!Commands

\* The operators on dictionaries are those of either.
LEMMA SameOperators ==
  /\ \A d, cmd : RP!Applied(d, cmd) = Applied(d, cmd)
  /\ \A d : RP!Sound(d) <=> Sound(d)
  /\ RP!Commands = Commands /\ RP!Keys = MP!Keys /\ M!Keys = MP!Keys
  /\ \A d, K : M!Deleted(d, K) = MP!Deleted(d, K)
  BY DEF Applied, Sound, Commands, M!Deleted, M!Keys, M!Never,
      MP!Never, RP!Never, MP!Keys, RP!Keys, MP!Has, RP!Has, MP!Deleted,
      RP!Deleted, MP!Placed, RP!Placed, MP!Room, RP!Room, MP!AfterSet,
      RP!AfterSet, MP!AfterExpire, RP!AfterExpire, MP!AfterRename,
      RP!AfterRename, MP!AfterMove, RP!AfterMove, MP!AfterCopy,
      RP!AfterCopy, MP!Twin, RP!Twin, MP!Swapped, RP!Swapped, MP!Applied,
      RP!Applied, MP!Data, RP!Data, MP!Agree, RP!Agree, MP!Sound, RP!Sound,
      MP!Commands, RP!Commands

\* The actions are those of the lemmas.
LEMMA MasterServes ==
  ASSUME \/ M!Write("user")
         \/ \E k \in M!Keys : M!Read(k) \/ M!Evict(k) \/ M!ExpireCycle(k)
         \/ M!Tick \/ M!PauseOrResume
  PROVE  MP!ServerStep
  BY DEF M!Set, MP!Set, M!Expire, MP!Expire, M!Persist, MP!Persist, M!Del,
      MP!Del, M!Rename, MP!Rename, M!Move, MP!Move, M!Copy, MP!Copy,
      M!SwapDb, MP!SwapDb, M!Flush, MP!Flush, M!Writes, MP!Writes, M!Idle,
      MP!Idle, M!Lazily, MP!Lazily, M!Deletes, MP!Deletes, M!Present,
      MP!Present, M!Has, MP!Has, M!Missing, MP!Missing, M!Expired,
      MP!Expired, M!Deleted, MP!Deleted, M!Placed, MP!Placed, M!AssertThat,
      MP!AssertThat, M!Answer, MP!Answer, M!Signalled, MP!Signalled,
      M!Propagated, MP!Propagated, M!Says, MP!Says, M!Signal, MP!Signal,
      M!Silent, MP!Silent, M!Refused, MP!Refused, M!Keys, MP!Keys, M!Never,
      MP!Never, M!InDb, MP!InDb, M!Renames, MP!Renames, M!Copies,
      MP!Copies, M!Twin, MP!Twin, M!Swapped, MP!Swapped, M!TouchedBySwap,
      MP!TouchedBySwap, M!Write, MP!Write, M!Read, MP!Read, M!Reads,
      MP!Reads, M!Evict, MP!Evict, M!ExpireCycle, MP!ExpireCycle,
      M!Removes, MP!Removes, M!Quietly, MP!Quietly, M!Tick, MP!Tick,
      M!PauseOrResume, MP!PauseOrResume,
      MP!ServerStep

LEMMA ReplicaServes ==
  ASSUME \/ R!Write("user")
         \/ \E k \in R!Keys : R!Read(k) \/ R!Evict(k) \/ R!ExpireCycle(k)
         \/ R!Tick \/ R!PauseOrResume
  PROVE  RP!ServerStep
  BY DEF R!Set, RP!Set, R!Expire, RP!Expire, R!Persist, RP!Persist, R!Del,
      RP!Del, R!Rename, RP!Rename, R!Move, RP!Move, R!Copy, RP!Copy,
      R!SwapDb, RP!SwapDb, R!Flush, RP!Flush, R!Writes, RP!Writes, R!Idle,
      RP!Idle, R!Lazily, RP!Lazily, R!Deletes, RP!Deletes, R!Present,
      RP!Present, R!Has, RP!Has, R!Missing, RP!Missing, R!Expired,
      RP!Expired, R!Deleted, RP!Deleted, R!Placed, RP!Placed, R!AssertThat,
      RP!AssertThat, R!Answer, RP!Answer, R!Signalled, RP!Signalled,
      R!Propagated, RP!Propagated, R!Says, RP!Says, R!Signal, RP!Signal,
      R!Silent, RP!Silent, R!Refused, RP!Refused, R!Keys, RP!Keys, R!Never,
      RP!Never, R!InDb, RP!InDb, R!Renames, RP!Renames, R!Copies,
      RP!Copies, R!Twin, RP!Twin, R!Swapped, RP!Swapped, R!TouchedBySwap,
      RP!TouchedBySwap, R!Write, RP!Write, R!Read, RP!Read, R!Reads,
      RP!Reads, R!Evict, RP!Evict, R!ExpireCycle, RP!ExpireCycle,
      R!Removes, RP!Removes, R!Quietly, RP!Quietly, R!Tick, RP!Tick,
      R!PauseOrResume, RP!PauseOrResume,
      RP!ServerStep

LEMMA ReplicaCommands ==
  /\ \A k, v, keepttl : R!Set("link", k, v, keepttl) => RP!Set("link", k, v, keepttl)
  /\ \A k, when : R!Expire("link", k, when) => RP!Expire("link", k, when)
  /\ \A k : R!Persist("link", k) => RP!Persist("link", k)
  /\ \A K : R!Del("link", K) => RP!Del("link", K)
  /\ \A a, b, nx : R!Rename("link", a, b, nx) => RP!Rename("link", a, b, nx)
  /\ \A a, db : R!Move("link", a, db) => RP!Move("link", a, db)
  /\ \A a, b, replace : R!Copy("link", a, b, replace) => RP!Copy("link", a, b, replace)
  /\ \A db1, db2 : R!SwapDb("link", db1, db2) => RP!SwapDb("link", db1, db2)
  /\ \A dbs : R!Flush("link", dbs) => RP!Flush("link", dbs)
<1> USE DEF R!Writes, RP!Writes, R!Idle, RP!Idle, R!Lazily, RP!Lazily, R!Deletes,
      RP!Deletes, R!Present, RP!Present, R!Has, RP!Has, R!Missing,
      RP!Missing, R!Expired, RP!Expired, R!Deleted, RP!Deleted, R!Placed,
      RP!Placed, R!AssertThat, RP!AssertThat, R!Answer, RP!Answer,
      R!Signalled, RP!Signalled, R!Propagated, RP!Propagated, R!Says,
      RP!Says, R!Signal, RP!Signal, R!Silent, RP!Silent, R!Refused,
      RP!Refused, R!Keys, RP!Keys, R!Never, RP!Never
<1>1. ASSUME NEW k, NEW v, NEW keepttl, R!Set("link", k, v, keepttl)
      PROVE  RP!Set("link", k, v, keepttl)
  BY <1>1 DEF R!Set, RP!Set
<1>2. ASSUME NEW k, NEW when, R!Expire("link", k, when)
      PROVE  RP!Expire("link", k, when)
  BY <1>2 DEF R!Expire, RP!Expire
<1>3. ASSUME NEW k, R!Persist("link", k)
      PROVE  RP!Persist("link", k)
  BY <1>3 DEF R!Persist, RP!Persist
<1>4. ASSUME NEW K, R!Del("link", K)
      PROVE  RP!Del("link", K)
  BY <1>4 DEF R!Del, RP!Del
<1>5. ASSUME NEW a, NEW b, NEW nx, R!Rename("link", a, b, nx)
      PROVE  RP!Rename("link", a, b, nx)
  BY <1>5 DEF R!Rename, RP!Rename, R!Renames, RP!Renames
<1>6. ASSUME NEW a, NEW db, R!Move("link", a, db)
      PROVE  RP!Move("link", a, db)
  BY <1>6 DEF R!Move, RP!Move
<1>7. ASSUME NEW a, NEW b, NEW replace, R!Copy("link", a, b, replace)
      PROVE  RP!Copy("link", a, b, replace)
  BY <1>7 DEF R!Copy, RP!Copy, R!Copies, RP!Copies
<1>8. ASSUME NEW db1, NEW db2, R!SwapDb("link", db1, db2)
      PROVE  RP!SwapDb("link", db1, db2)
  BY <1>8 DEF R!SwapDb, RP!SwapDb, R!Twin, RP!Twin, R!Swapped, RP!Swapped,
      R!TouchedBySwap, RP!TouchedBySwap, R!InDb, RP!InDb
<1>9. ASSUME NEW dbs, R!Flush("link", dbs)
      PROVE  RP!Flush("link", dbs)
  BY <1>9 DEF R!Flush, RP!Flush
<1> QED
  BY <1>1, <1>2, <1>3, <1>4, <1>5, <1>6, <1>7, <1>8, <1>9

-----------------------------------------------------------------------------
(* Sequences of commands. *)

\* The commands of s take the dictionaries d to e, through those of h.
Path(d, s, h, e) ==
  /\ \A i \in 1 .. Len(s) : h[i] = Applied(IF i = 1 THEN d ELSE h[i - 1], s[i])
  /\ e = IF s = <<>> THEN d ELSE h[Len(s)]

\* A sequence of commands and the dictionaries after each.
Stream(s, h) == s \in Seq(Commands) /\ h \in Seq(MP!Data) /\ Len(h) = Len(s)

LEMMA PathEmpty == ASSUME NEW d PROVE Path(d, <<>>, <<>>, d) /\ Stream(<<>>, <<>>)
  BY DEF Path, Stream

LEMMA PathJoins ==
  ASSUME NEW d, NEW e, NEW f, NEW s, NEW h, NEW t, NEW g,
         Stream(s, h), Stream(t, g), Path(d, s, h, e), Path(e, t, g, f)
  PROVE  Path(d, s \o t, h \o g, f)
<1>1. /\ s \in Seq(Commands) /\ t \in Seq(Commands) /\ h \in Seq(MP!Data)
      /\ g \in Seq(MP!Data) /\ Len(h) = Len(s) /\ Len(g) = Len(t)
      /\ Len(s) \in Nat /\ Len(t) \in Nat
  BY DEF Stream
<1>2. PICK u, k : u = s \o t /\ k = h \o g
  OBVIOUS
<1>3. /\ Len(u) = Len(s) + Len(t)
      /\ \A i \in 1 .. Len(s) : u[i] = s[i] /\ k[i] = h[i]
      /\ \A i \in 1 .. Len(t) : u[Len(s) + i] = t[i] /\ k[Len(s) + i] = g[i]
  BY <1>1, <1>2
<1>4. ASSUME NEW i \in 1 .. Len(u)
      PROVE  k[i] = Applied(IF i = 1 THEN d ELSE k[i - 1], u[i])
  <2>1. CASE i <= Len(s)
    <3>1. h[i] = Applied(IF i = 1 THEN d ELSE h[i - 1], s[i])
      BY <1>1, <1>3, <2>1 DEF Path
    <3>2. k[i] = h[i] /\ u[i] = s[i] /\ (i # 1 => k[i - 1] = h[i - 1])
      BY <1>1, <1>3, <2>1
    <3> QED
      BY <3>1, <3>2
  <2>2. CASE i > Len(s)
    <3>1. PICK j \in 1 .. Len(t) : i = Len(s) + j
      <4>1. i - Len(s) \in 1 .. Len(t) /\ i = Len(s) + (i - Len(s))
        BY <1>1, <1>3, <2>2
      <4> QED
        BY <4>1
    <3>2. k[i] = g[j] /\ u[i] = t[j]
      BY <1>3, <3>1
    <3>3. g[j] = Applied(IF j = 1 THEN e ELSE g[j - 1], t[j])
      BY <3>1 DEF Path
    <3>4. CASE j = 1
      <4>1. e = IF i = 1 THEN d ELSE k[i - 1]
        <5>1. CASE s = <<>>
          BY <1>1, <3>1, <3>4, <5>1 DEF Path
        <5>2. CASE s # <<>>
          <6>1. Len(s) \in 1 .. Len(s) /\ e = h[Len(s)] /\ i - 1 = Len(s) /\ i # 1
            BY <1>1, <3>1, <3>4, <5>2 DEF Path
          <6> QED
            BY <1>3, <6>1
        <5> QED
          BY <5>1, <5>2
      <4> QED
        BY <3>2, <3>3, <3>4, <4>1
    <3>5. CASE j # 1
      <4>1. j - 1 \in 1 .. Len(t) /\ i - 1 = Len(s) + (j - 1) /\ i # 1
        BY <1>1, <3>1, <3>5
      <4>2. k[i - 1] = g[j - 1]
        BY <1>3, <4>1
      <4> QED
        BY <3>2, <3>3, <3>5, <4>1, <4>2
    <3> QED
      BY <3>4, <3>5
  <2> QED
    BY <1>1, <1>3, <2>1, <2>2
<1>5. f = IF u = <<>> THEN d ELSE k[Len(u)]
  <2>1. CASE t = <<>>
    <3>1. f = e /\ u = s /\ k = h
      <4>1. f = e /\ g = <<>>
        BY <1>1, <2>1 DEF Path
      <4> QED
        BY <1>1, <1>2, <2>1, <4>1
    <3> QED
      BY <3>1 DEF Path
  <2>2. CASE t # <<>>
    <3>1. f = g[Len(t)] /\ Len(t) \in 1 .. Len(t) /\ u # <<>>
      BY <1>1, <1>2, <1>3, <2>2 DEF Path
    <3> QED
      BY <1>3, <3>1
  <2> QED
    BY <2>1, <2>2
<1> QED
  BY <1>2, <1>4, <1>5 DEF Path

LEMMA StreamJoins ==
  ASSUME NEW s, NEW h, NEW t, NEW g, Stream(s, h), Stream(t, g)
  PROVE  Stream(s \o t, h \o g)
  BY DEF Stream

LEMMA PathGoesOn ==
  ASSUME NEW d, NEW e, NEW s, NEW h, Stream(s, h), s # <<>>, Path(d, s, h, e)
  PROVE  Path(Applied(d, Head(s)), Tail(s), Tail(h), e)
<1>1. /\ s \in Seq(Commands) /\ h \in Seq(MP!Data) /\ Len(h) = Len(s)
      /\ Len(s) \in Nat /\ Len(s) > 0
  BY DEF Stream
<1>2. PICK t, g : t = Tail(s) /\ g = Tail(h)
  OBVIOUS
<1>3. /\ Len(t) = Len(s) - 1 /\ t \in Seq(Commands)
      /\ \A i \in 1 .. Len(t) : t[i] = s[i + 1] /\ g[i] = h[i + 1]
  BY <1>1, <1>2
<1>4. h[1] = Applied(d, Head(s))
  BY <1>1 DEF Path
<1>5. ASSUME NEW i \in 1 .. Len(t)
      PROVE  g[i] = Applied(IF i = 1 THEN Applied(d, Head(s)) ELSE g[i - 1], t[i])
  <2>1. i + 1 \in 1 .. Len(s) /\ i + 1 # 1 /\ (i + 1) - 1 = i
    BY <1>1, <1>3
  <2>2. h[i + 1] = Applied(h[i], s[i + 1])
    BY <2>1 DEF Path
  <2>3. h[i] = IF i = 1 THEN Applied(d, Head(s)) ELSE g[i - 1]
    <3>1. i # 1 => i - 1 \in 1 .. Len(t) /\ (i - 1) + 1 = i
      BY <1>1, <1>3
    <3> QED
      BY <1>3, <1>4, <3>1
  <2> QED
    BY <1>3, <2>2, <2>3
<1>6. e = IF t = <<>> THEN Applied(d, Head(s)) ELSE g[Len(t)]
  <2>1. e = h[Len(s)]
    BY <1>1 DEF Path
  <2>2. CASE t = <<>>
    BY <1>1, <1>3, <1>4, <2>1, <2>2
  <2>3. CASE t # <<>>
    <3>1. Len(t) \in 1 .. Len(t) /\ Len(t) + 1 = Len(s)
      BY <1>1, <1>3, <2>3
    <3> QED
      BY <1>3, <2>1, <2>3, <3>1
  <2> QED
    BY <2>2, <2>3
<1> QED
  BY <1>2, <1>5, <1>6 DEF Path

LEMMA StreamGoesOn ==
  ASSUME NEW s, NEW h, Stream(s, h), s # <<>>
  PROVE  Stream(Tail(s), Tail(h)) /\ Head(s) \in Commands
  BY DEF Stream

\* What the master sends takes its dictionaries from before to after the step.
LEMMA SnapshotsPath ==
  ASSUME Sound(mdata), Sound(mdata)', MP!Sent
  PROVE  Stream(out', Snapshots) /\ Path(mdata, out', Snapshots, mdata')
<1> DEFINE Snap(i) == IF i < Len(out') /\ out'[i].op = "del"
                      THEN MP!Deleted(mdata, out'[i].keys) ELSE mdata'
<1>1. ASSUME out' \in Seq(Commands)
      PROVE  /\ Stream(out', Snapshots)
             /\ \A i \in 1 .. Len(out') : Snapshots[i] = Snap(i)
  <2>1. DOMAIN out' = 1 .. Len(out') /\ Len(out') \in Nat
    BY <1>1
  <2>2. Snapshots = [i \in 1 .. Len(out') |-> Snap(i)]
    BY <2>1, SameOperators DEF Snapshots
  <2>3. \A i \in 1 .. Len(out') : Snap(i) \in MP!Data
    BY Assumptions, MP!DeletedFacts DEF Sound, MP!Sound
  <2> HIDE DEF Snap
  <2>4. Snapshots \in Seq(MP!Data) /\ Len(Snapshots) = Len(out')
    BY <2>1, <2>2, <2>3
  <2> QED
    BY <1>1, <2>2, <2>4 DEF Stream
<1>2. CASE out' = <<>> /\ mdata' = mdata
  <2>1. out' \in Seq(Commands) /\ Len(out') = 0
    BY <1>2
  <2> QED
    BY <1>1, <1>2, <2>1 DEF Path
<1>3. ASSUME NEW cmd \in Commands, out' = <<cmd>>, mdata' = Applied(mdata, cmd)
      PROVE  Stream(out', Snapshots) /\ Path(mdata, out', Snapshots, mdata')
  <2>1. /\ out' \in Seq(Commands) /\ Len(out') = 1 /\ out'[1] = cmd /\ out' # <<>>
    BY <1>3
  <2>2. Snapshots[1] = mdata'
    BY <1>1, <2>1
  <2> QED
    BY <1>1, <1>3, <2>1, <2>2 DEF Path
<1>4. ASSUME NEW gone \in SUBSET MP!Keys, NEW cmd \in Commands,
             out' = <<MP!DeletionOf(gone), cmd>>,
             mdata' = Applied(MP!Deleted(mdata, gone), cmd)
      PROVE  Stream(out', Snapshots) /\ Path(mdata, out', Snapshots, mdata')
  <2>1. PICK del : del = MP!DeletionOf(gone)
    OBVIOUS
  <2>2. del \in Commands /\ del.op = "del" /\ del.keys = gone
    BY <2>1 DEF Commands, MP!Commands, MP!DeletionOf
  <2>3. /\ out' \in Seq(Commands) /\ Len(out') = 2
        /\ out'[1] = del /\ out'[2] = cmd /\ out' # <<>>
    BY <1>4, <2>1, <2>2
  <2>4. Snapshots[1] = MP!Deleted(mdata, gone) /\ Snapshots[2] = mdata'
    BY <1>1, <2>2, <2>3
  <2>5. Applied(mdata, del) = MP!Deleted(mdata, gone)
    BY <2>1, Assumptions, MP!AppliedIs DEF Applied
  <2>6. \A i \in 1 .. Len(out') :
          Snapshots[i] = Applied(IF i = 1 THEN mdata ELSE Snapshots[i - 1], out'[i])
    <3>1. ASSUME NEW i \in 1 .. Len(out')
          PROVE  (i = 1) \/ (i = 2 /\ i - 1 = 1)
      BY <2>3
    <3> QED
      BY <1>4, <2>3, <2>4, <2>5, <3>1
  <2> QED
    BY <1>1, <2>3, <2>4, <2>6 DEF Path
<1> QED
  BY <1>2, <1>3, <1>4 DEF MP!Sent, Commands, Applied

-----------------------------------------------------------------------------
(* The specification. *)

MasterSound ==
  /\ Sound(mdata) /\ mnow \in 0 .. MaxTime /\ mpaused \in BOOLEAN
  /\ masking = NULL /\ mfailed = FALSE

ReplicaSound ==
  /\ Sound(rdata) /\ rnow \in 0 .. MaxTime /\ rpaused \in BOOLEAN
  /\ rrole \in {"master", "readonly", "writable"}
  /\ rasking = NULL /\ rfailed = FALSE

\* What is under way takes a readonly replica to where its master is.
Follows == rrole = "readonly" => Path(rdata, stream, history, mdata)

\* The inductive invariant.  That the two are in step when the stream is
\* empty does not say what a command of the stream will do to the replica:
\* Follows does, for every command under way.
IInv == MasterSound /\ ReplicaSound /\ Stream(stream, history) /\ Follows

LEMMA InitIInv == Init => IInv
<1> SUFFICES ASSUME Init PROVE IInv
  OBVIOUS
<1>1. /\ mdata \in M!Data /\ M!Agree(mdata) /\ mnow = 0 /\ mpaused = FALSE
      /\ masking = NULL /\ mfailed = FALSE
  BY DEF Init, M!Init
<1>2. Sound(mdata)
  BY <1>1 DEF Sound, MP!Sound, MP!Data, M!Data, MP!Agree, M!Agree, MP!Has, M!Has,
      MP!Keys, M!Keys, MP!Never, M!Never
<1>3. 0 \in 0 .. MaxTime
  BY ReplicationAssumption
<1>4. MasterSound
  BY <1>1, <1>2, <1>3 DEF MasterSound
<1>5. rdata = mdata /\ rrole \in Roles /\ stream = <<>> /\ history = <<>>
  BY DEF Init
<1>6. ReplicaSound
  BY <1>2, <1>3, <1>5, ReplicationAssumption DEF Init, ReplicaSound
<1>7. Path(rdata, stream, history, mdata) /\ Stream(stream, history)
  BY <1>5, PathEmpty
<1> QED
  BY <1>4, <1>6, <1>7 DEF IInv, Follows

LEMMA MasterStepIInv ==
  ASSUME IInv, MasterStep PROVE IInv'
<1>1. /\ Sound(mdata) /\ mfailed \in BOOLEAN /\ mnow \in 0 .. MaxTime
      /\ mpaused \in BOOLEAN /\ Stream(stream, history)
  BY DEF IInv, MasterSound
<1>2. MP!ServerStep
  BY MasterServes DEF MasterStep
<1>3. /\ MP!Good /\ masking' = masking
      /\ mnow' \in 0 .. MaxTime /\ mpaused' \in BOOLEAN
  <2>1. MP!RoleTyped
    BY DEF MP!RoleTyped
  <2>2. /\ MP!Good /\ UNCHANGED <<"master", masking>>
        /\ mnow' \in 0 .. MaxTime /\ mpaused' \in BOOLEAN
    BY <1>1, <1>2, <2>1, Assumptions, MP!ServerStepGood DEF Sound
  <2> QED
    BY <2>2
<1>4. MasterSound'
  BY <1>3 DEF IInv, MasterSound, MP!Good, Sound
<1>5. MP!Sent
  BY <1>1, <1>2, Assumptions, MP!ServerStepSent DEF Sound
<1>6. Stream(out', Snapshots) /\ Path(mdata, out', Snapshots, mdata')
  BY <1>1, <1>4, <1>5, SnapshotsPath DEF MasterSound
<1>7. /\ stream' = stream \o out' /\ history' = history \o Snapshots
      /\ UNCHANGED replica
  BY DEF MasterStep
<1>8. Stream(stream', history')
  BY <1>1, <1>6, <1>7, StreamJoins
<1>9. ReplicaSound'
  BY <1>7 DEF IInv, ReplicaSound, replica, Sound, MP!Sound
<1>10. ASSUME rrole' = "readonly" PROVE Path(rdata', stream', history', mdata')
  <2>1. Path(rdata, stream, history, mdata) /\ rdata' = rdata
    BY <1>7, <1>10 DEF IInv, Follows, replica
  <2> QED
    BY <1>1, <1>6, <1>7, <2>1, PathJoins
<1> QED
  BY <1>4, <1>8, <1>9, <1>10 DEF IInv, Follows

LEMMA DeliverIInv ==
  ASSUME IInv, Deliver PROVE IInv'
<1>1. PICK cmd : cmd = Head(stream)
  OBVIOUS
<1>2. /\ stream # <<>> /\ stream' = Tail(stream) /\ history' = Tail(history)
      /\ UNCHANGED master
  BY DEF Deliver
<1>3. /\ Stream(stream, history) /\ Stream(stream', history')
      /\ cmd \in Commands /\ cmd \in RP!Commands
  BY <1>1, <1>2, StreamGoesOn, SameOperators DEF IInv
<1>4. RP!Executes(cmd)
  BY <1>1, ReplicaCommands DEF Deliver, RP!Executes
<1>5. /\ Sound(rdata) /\ RP!Sound(rdata) /\ RP!RoleTyped /\ rfailed \in BOOLEAN
  BY SameOperators DEF IInv, ReplicaSound, RP!RoleTyped
<1>6. RP!Good /\ UNCHANGED <<rnow, rrole, rpaused, rasking>>
  BY <1>3, <1>4, <1>5, Assumptions, RP!ExecutesGood
<1>7. ReplicaSound'
  <2>1. RP!Sound(rdata') /\ rfailed' = rfailed
    BY <1>6 DEF RP!Good
  <2>2. Sound(rdata')
    BY <2>1, SameOperators
  <2> QED
    BY <1>6, <2>1, <2>2 DEF IInv, ReplicaSound, Sound, MP!Sound
<1>8. MasterSound'
  BY <1>2 DEF IInv, MasterSound, master, Sound, MP!Sound
<1>9. ASSUME rrole' = "readonly" PROVE Path(rdata', stream', history', mdata')
  <2>1. rrole = "readonly" /\ Path(rdata, stream, history, mdata) /\ mdata' = mdata
    BY <1>2, <1>6, <1>9 DEF IInv, Follows, master
  <2>2. rdata' = RP!Applied(rdata, cmd)
    BY <1>3, <1>4, <1>5, <2>1, Assumptions, RP!ExecutesApplied
  <2>3. rdata' = Applied(rdata, Head(stream))
    BY <1>1, <2>2, SameOperators
  <2> QED
    BY <1>2, <1>3, <2>1, <2>3, PathGoesOn
<1> QED
  BY <1>3, <1>7, <1>8, <1>9 DEF IInv, Follows

LEMMA ReplicaStepIInv ==
  ASSUME IInv, ReplicaStep PROVE IInv'
<1>1. UNCHANGED <<master, stream, history>>
  BY DEF ReplicaStep
<1>2. RP!ServerStep
  BY ReplicaServes DEF ReplicaStep
<1>3. /\ Sound(rdata) /\ RP!Sound(rdata) /\ RP!RoleTyped /\ rfailed \in BOOLEAN
      /\ rnow \in 0 .. MaxTime /\ rpaused \in BOOLEAN
  BY SameOperators DEF IInv, ReplicaSound, RP!RoleTyped
<1>4. /\ RP!Good /\ UNCHANGED <<rrole, rasking>>
      /\ rnow' \in 0 .. MaxTime /\ rpaused' \in BOOLEAN
  BY <1>2, <1>3, Assumptions, RP!ServerStepGood
<1>5. ReplicaSound'
  <2>1. RP!Sound(rdata') /\ rfailed' = rfailed
    BY <1>4 DEF RP!Good
  <2>2. Sound(rdata')
    BY <2>1, SameOperators
  <2> QED
    BY <1>4, <2>1, <2>2 DEF IInv, ReplicaSound, Sound, MP!Sound
<1>6. MasterSound' /\ Stream(stream', history')
  BY <1>1 DEF IInv, MasterSound, master, Sound, MP!Sound
<1>7. ASSUME rrole' = "readonly" PROVE Path(rdata', stream', history', mdata')
  <2>1. rrole = "readonly" /\ Path(rdata, stream, history, mdata) /\ mdata' = mdata
    BY <1>1, <1>4, <1>7 DEF IInv, Follows, master
  <2>2. rdata' = rdata
    BY <1>2, <1>3, <2>1, Assumptions, RP!ReadonlyKeeps
  <2> QED
    BY <1>1, <2>1, <2>2
<1> QED
  BY <1>5, <1>6, <1>7 DEF IInv, Follows

LEMMA FailoverIInv ==
  ASSUME IInv, Failover PROVE IInv'
<1>1. /\ stream' = <<>> /\ history' = <<>> /\ mdata' = M!Empty /\ mfailed' = FALSE
      /\ mpaused' = FALSE /\ UNCHANGED <<mnow, masking>>
      /\ rrole' = "master" /\ UNCHANGED <<rdata, rnow, rpaused, rasking, rfailed>>
  BY DEF Failover, R!Promote
<1>2. Sound(M!Empty)
  BY ReplicationAssumption DEF Sound, MP!Sound, MP!Data, MP!Agree, MP!Has, MP!Keys,
      MP!Never, M!Empty, M!Keys, M!Never
<1>3. MasterSound'
  <2>1. Sound(mdata')
    BY <1>1, <1>2
  <2> QED
    BY <1>1, <2>1 DEF IInv, MasterSound, Sound, MP!Sound
<1>4. ReplicaSound'
  BY <1>1 DEF IInv, ReplicaSound, Sound, MP!Sound
<1>5. Stream(stream', history')
  BY <1>1, PathEmpty
<1> QED
  BY <1>1, <1>3, <1>4, <1>5 DEF IInv, Follows

LEMMA StepIInv == IInv /\ [Next]_vars => IInv'
<1>1. ASSUME IInv, UNCHANGED vars PROVE IInv'
  BY <1>1 DEF IInv, MasterSound, ReplicaSound, Follows, vars, master, replica, Sound, MP!Sound
<1> QED
  BY <1>1, MasterStepIInv, DeliverIInv, ReplicaStepIInv, FailoverIInv DEF Next

LEMMA SpecIInv == Spec => []IInv
  BY InitIInv, StepIInv, PTL DEF Spec

\* Master and replica keep their types, whatever comes over the link.
THEOREM TypeCorrect == Spec => []TypeOK
<1>1. IInv => TypeOK
  BY DEF IInv, MasterSound, ReplicaSound, TypeOK, Sound, MP!Sound, M!TypeOK, R!TypeOK,
      MP!Data, M!Data, R!Data, MP!Keys, M!Keys, R!Keys, MP!Never, M!Never, R!Never
<1> QED
  BY <1>1, SpecIInv, PTL

\* The assertions of db.c hold on master and replica, in every role and after
\* every failover, and expires have their keys.
THEOREM BothSoundCorrect == Spec => []BothSound
<1>1. IInv => BothSound
  BY DEF IInv, MasterSound, ReplicaSound, BothSound, M!NoAssertFails, R!NoAssertFails,
      M!ExpiresHaveKeys, R!ExpiresHaveKeys, M!Agree, R!Agree, M!Has, R!Has,
      Sound, MP!Sound, MP!Agree, MP!Has, MP!Keys, M!Keys, R!Keys, MP!Never, M!Never,
      R!Never
<1> QED
  BY <1>1, SpecIInv, PTL

\* A replica nobody writes to that has executed the whole stream is in the
\* state of its master, whatever its clock.
THEOREM InSyncCorrect == Spec => []InSync
<1>1. IInv => InSync
  BY DEF IInv, Follows, Path, InSync
<1> QED
  BY <1>1, SpecIInv, PTL
=============================================================================
