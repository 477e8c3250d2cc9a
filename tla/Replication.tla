---------------------------- MODULE Replication ----------------------------
(***************************************************************************)
(* A master and a replica with the keyspace of db.c, and the stream of     *)
(* commands between them.  The replica executes the stream in order, with  *)
(* its own clock, while its users read (and write, when it is writable).   *)
(* The first synchronisation, the offsets and the frames of MULTI and EXEC *)
(* are left out.                                                           *)
(***************************************************************************)
EXTENDS Integers, Sequences

CONSTANTS Dbs, Names, Values, NULL, MaxTime, MaxTries,
          Roles,      \* how the replica is configured: readonly, writable
          MaxStream   \* bound on the commands under way when one is added

ASSUME ReplicationAssumption ==
  /\ Roles \subseteq {"readonly", "writable"}
  /\ NULL \notin Values /\ MaxTime \in Nat /\ MaxTries \in Nat \ {0}
  /\ MaxStream \in Nat

VARIABLES
  mdata, mnow, mpaused, masking, mfailed,         \* the master
  rdata, rnow, rrole, rpaused, rasking, rfailed,  \* the replica
  reply, out, signals,  \* what the last step of either made known
  stream,    \* the replication stream, up to the replica's connection
  history    \* the data of the master after each command of the stream

M == INSTANCE Keyspace WITH
       Roles <- {"master"}, data <- mdata, now <- mnow, role <- "master", paused <- mpaused,
       asking <- masking, failed <- mfailed
R == INSTANCE Keyspace WITH
       data <- rdata, now <- rnow, role <- rrole, paused <- rpaused,
       asking <- rasking, failed <- rfailed

master == <<mdata, mnow, mpaused, masking, mfailed>>
replica == <<rdata, rnow, rrole, rpaused, rasking, rfailed>>
vars == <<master, replica, reply, out, signals, stream, history>>

-----------------------------------------------------------------------------
Init ==
  /\ M!Init /\ stream = <<>> /\ history = <<>>
  /\ rdata = mdata /\ rnow = 0 /\ rrole \in Roles
  /\ rpaused = FALSE /\ rasking = NULL /\ rfailed = FALSE

\* The data after each command of out'.
Snapshots ==
  [i \in DOMAIN out' |->
     IF i < Len(out') /\ out'[i].op = "del" THEN M!Deleted(mdata, out'[i].keys)
     ELSE mdata']

\* The master does something, and what it propagates is sent.
MasterStep ==
  /\ \/ M!Write("user")
     \/ \E k \in M!Keys : M!Read(k) \/ M!Evict(k) \/ M!ExpireCycle(k)
     \/ M!Tick \/ M!PauseOrResume
  /\ rrole # "master"
  /\ out' = <<>> \/ Len(stream) < MaxStream
  /\ stream' = stream \o out' /\ history' = history \o Snapshots
  /\ UNCHANGED replica

\* The replica executes the next command of the stream.
Deliver ==
  /\ stream # <<>>
  /\ LET cmd == Head(stream) IN
     \/ cmd.op = "set" /\ R!Set("link", cmd.key, cmd.val, cmd.keepttl)
     \/ cmd.op = "expire" /\ R!Expire("link", cmd.key, cmd.when)
     \/ cmd.op = "persist" /\ R!Persist("link", cmd.key)
     \/ cmd.op = "del" /\ R!Del("link", cmd.keys)
     \/ cmd.op = "rename" /\ R!Rename("link", cmd.from, cmd.to, cmd.nx)
     \/ cmd.op = "move" /\ R!Move("link", cmd.key, cmd.db)
     \/ cmd.op = "copy" /\ R!Copy("link", cmd.from, cmd.to, cmd.replace)
     \/ cmd.op = "swapdb" /\ R!SwapDb("link", cmd.one, cmd.two)
     \/ cmd.op = "flush" /\ R!Flush("link", cmd.dbs)
  /\ stream' = Tail(stream) /\ history' = Tail(history)
  /\ UNCHANGED master

\* The users of the replica, its clock and, once promoted, its own deletions.
ReplicaStep ==
  /\ \/ R!Write("user")
     \/ \E k \in R!Keys : R!Read(k) \/ R!Evict(k) \/ R!ExpireCycle(k)
     \/ R!Tick \/ R!PauseOrResume
  /\ UNCHANGED <<master, stream, history>>

\* The master crashes and the replica takes its place.  What was under way
\* is lost.
Failover ==
  /\ R!Promote
  /\ stream' = <<>> /\ history' = <<>>
  /\ mdata' = M!Empty /\ mfailed' = FALSE /\ mpaused' = FALSE
  /\ UNCHANGED <<mnow, masking, reply>>

Next == MasterStep \/ Deliver \/ ReplicaStep \/ Failover
Spec == Init /\ [][Next]_vars

-----------------------------------------------------------------------------
TypeOK == M!TypeOK /\ R!TypeOK

(***************************************************************************)
(* A replica nobody writes to is in the state of its master whenever it    *)
(* has executed the whole stream, although both delete expired keys by     *)
(* different rules and at different clocks.                                *)
(***************************************************************************)
InSync == rrole = "readonly" /\ stream = <<>> => rdata = mdata

(***************************************************************************)
(* The assertions of db.c hold on both, also on a writable replica, where  *)
(* commands of users and of the master meet in data that have diverged,    *)
(* and on a replica that becomes a master; expires have their keys.        *)
(***************************************************************************)
BothSound == /\ M!NoAssertFails /\ R!NoAssertFails
             /\ M!ExpiresHaveKeys /\ R!ExpiresHaveKeys
=============================================================================
