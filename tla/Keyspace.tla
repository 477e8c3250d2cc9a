------------------------------ MODULE Keyspace ------------------------------
(***************************************************************************)
(* The keyspace of db.c: the databases with their expires, the lookups     *)
(* that delete an expired key when the role of the server, the client and  *)
(* a pause allow it, the commands on whole keys, and what every step makes *)
(* known: the commands for the replicas, the keys modified (for WATCH and  *)
(* client-side caches) and the keys that a blocked client may wait for.    *)
(*                                                                         *)
(* A command comes from a user or from the link to the master.  A value    *)
(* stands for an object of any type; a database that does not exist, a     *)
(* syntax error and the cluster mode are left out.                         *)
(***************************************************************************)
EXTENDS Integers, Sequences

CONSTANTS Dbs,       \* database numbers
          Names,     \* key names
          Values, NULL,
          MaxTime,   \* bound on the clock
          Roles,     \* the roles the server may start with
          MaxTries   \* maxtries of dbRandomKey(), 100

ASSUME KeyspaceAssumption ==
  /\ Roles \subseteq {"master", "readonly", "writable"}
  /\ NULL \notin Values /\ MaxTime \in Nat /\ MaxTries \in Nat \ {0}

VARIABLES
  data,     \* the dictionaries dict and expires of all databases
  now,      \* commandTimeSnapshot()
  role,     \* master, or replica: readonly or writable
  paused,   \* PAUSE_ACTION_EXPIRE and PAUSE_ACTION_CLIENT_WRITE
  asking,   \* the loop of dbRandomKey(), NULL when no client is in it
  reply,    \* what the last step answered a user
  out,      \* the commands the last step propagated
  signals,  \* the keys the last step signalled
  failed    \* an assertion has failed

vars == <<data, now, role, paused, asking, reply, out, signals, failed>>

-----------------------------------------------------------------------------
Keys == Dbs \X Names
InDb(db) == {k \in Keys : k[1] = db}
Never == -1
Data == [dict    : [Keys -> Values \cup {NULL}],
         expires : [Keys -> Never .. MaxTime]]

Empty == [dict |-> [k \in Keys |-> NULL], expires |-> [k \in Keys |-> Never]]

Has(d, k) == d.dict[k] # NULL
Present(d, K) == {k \in K : Has(d, k)}

\* keyIsExpired()
Expired(d, k) == d.expires[k] >= 0 /\ now > d.expires[k]

\* Mutant of Deleted: the expire of a deleted key stays.
DeletedKeepsExpire(d, K) ==
  [d EXCEPT !.dict = [k \in Keys |-> IF k \in K THEN NULL ELSE d.dict[k]]]

\* dbGenericDelete() of every key of K.
Deleted(d, K) ==
  [dict    |-> [k \in Keys |-> IF k \in K THEN NULL ELSE d.dict[k]],
   expires |-> [k \in Keys |-> IF k \in K THEN Never ELSE d.expires[k]]]

\* dbAdd() or dbSetValue(), then setExpire() if there is an expire to set.
Placed(d, k, v, when) ==
  [d EXCEPT !.dict[k] = v, !.expires[k] = IF when # Never THEN when ELSE @]

\* Mutant of Deletes: only reads delete.
DeletesOnRead(c, mode) == ~paused /\ role = "master" /\ mode = "read"

\* Mutant of Deletes: a writable replica does not delete either.
DeletesOnMaster(c, mode) == ~paused /\ role = "master"

\* expireIfNeeded() deletes the key it finds expired: on a master, and on a
\* writable replica for a command of a user that is going to write.
Deletes(c, mode) ==
  /\ ~paused
  /\ role = "master" \/ (role = "writable" /\ c = "user" /\ mode = "write")

\* lookupKey() finds no key.  For the link to the master no key is expired.
Missing(c, d, k) ==
  ~Has(d, k) \/ (Expired(d, k) /\ ~(role # "master" /\ c = "link"))

\* The keys that lookups of K delete.
Lazily(c, K, mode) ==
  IF Deletes(c, mode) THEN {k \in Present(data, K) : Expired(data, k)} ELSE {}

-----------------------------------------------------------------------------
Silent == [touched |-> {}, ready |-> {}, deleted |-> {}]
Signal(t, r, x) == [touched |-> t, ready |-> r, deleted |-> x]

\* Mutant of Propagated: the command goes before the deletions it caused.
PropagatedFirst(gone, cmds) ==
  cmds \o (IF gone = {} THEN <<>> ELSE <<[op |-> "del", keys |-> gone]>>)

\* The deletions that a command caused are sent before the command.
Propagated(gone, cmds) ==
  (IF gone = {} THEN <<>> ELSE <<[op |-> "del", keys |-> gone]>>) \o cmds

\* Mutant of Signalled: a key that has expired is touched and no more.
SignalledTouched(sig, gone) == [sig EXCEPT !.touched = @ \cup gone]

\* deleteExpiredKeyAndPropagate() signals as a command that deletes does.
Signalled(sig, gone) ==
  [sig EXCEPT !.touched = @ \cup gone, !.deleted = @ \cup gone]

\* The answer to a command.
Says(cmd, answer) == <<cmd, {answer}>>

\* A step that is no command answers nothing.
Quietly(cmds, sig) == reply' = <<>> /\ out' = cmds /\ signals' = sig

\* The end of a command of client c that has lazily deleted the keys of gone.
Answer(c, gone, answer, cmds, sig) ==
  /\ reply' = IF c = "user" THEN answer ELSE <<>>
  /\ out' = IF role = "master" THEN Propagated(gone, cmds) ELSE <<>>
  /\ signals' = Signalled(sig, gone)
  /\ UNCHANGED <<now, role, paused, asking>>

\* serverAssert()
AssertThat(p) == failed' = (failed \/ ~p)

\* A command that changes nothing but the keys it found expired.
Refused(c, gone, answer) ==
  /\ data' = Deleted(data, gone)
  /\ Answer(c, gone, answer, <<>>, Silent)
  /\ AssertThat(TRUE)

Idle == asking = NULL
Reads == Idle
\* Writes of users are refused by a readonly replica and wait in a pause.
Writes(c) ==
  /\ Idle
  /\ \/ c = "user" /\ role # "readonly" /\ ~paused
     \/ c = "link" /\ role # "master"

-----------------------------------------------------------------------------
(* Commands that read. *)

Read(k) ==
  /\ Reads
  /\ LET gone == Lazily("user", {k}, "read") IN
     Refused("user", gone,
       <<"get", IF Missing("user", data, k) THEN {} ELSE {data.dict[k]}>>)

Visible(db) ==
  <<"keys", {k[2] : k \in {x \in InDb(db) : ~Missing("user", data, x)}}>>

\* SCAN, in one call, deletes the keys it finds expired; KEYS does not.
Scan(db) == Reads
     /\ Refused("user", Lazily("user", InDb(db), "read"), Visible(db))
KeysCommand(db) == Reads /\ Refused("user", {}, Visible(db))

\* RANDOMKEY starts the loop of dbRandomKey(); "turn" tells one turn of it
\* from the next.
AskRandom(db) ==
  /\ Reads
  /\ asking' = [db |-> db, tries |-> MaxTries, turn |-> TRUE,
                allvolatile |->
                  \A k \in Present(data, InDb(db)) : data.expires[k] # Never]
  /\ Quietly(<<>>, Silent)
  /\ UNCHANGED <<data, now, role, paused, failed>>

RandomIs(answer) ==
  /\ asking' = NULL /\ reply' = <<"random", answer>> /\ out' = <<>>
       /\ signals' = Silent
  /\ UNCHANGED <<data, now, role, paused, failed>>

RandomEmpty == /\ asking # NULL /\ Present(data, InDb(asking.db)) = {}
               /\ RandomIs({})

\* Mutant of Counted: the condition on the role is the wrong way round.
CountedOnMaster == asking.allvolatile /\ role = "master"

\* The tries are counted on a replica with nothing but volatile keys.
Counted == asking.allvolatile /\ role # "master"

\* Mutant of LastTry: the tries are counted down after the test.
LastTryLate(k) == data.expires[k] # Never /\ Counted /\ asking.tries = 0

LastTry(k) == data.expires[k] # Never /\ Counted /\ asking.tries = 1

RandomFound ==
  /\ asking # NULL
  /\ \E k \in Present(data, InDb(asking.db)) :
       /\ LastTry(k) \/ ~Expired(data, k)
       /\ RandomIs({k[2]})

RandomAgain ==
  /\ asking # NULL
  /\ \E k \in Present(data, InDb(asking.db)) :
       /\ Expired(data, k) /\ ~LastTry(k)
       /\ LET gone == Lazily("user", {k}, "read") IN
          /\ data' = Deleted(data, gone)
          /\ Quietly(Propagated(gone, <<>>), Signalled(Silent, gone))
  /\ asking' = [asking EXCEPT !.tries = IF Counted THEN @ - 1 ELSE @,
                             !.turn = ~@]
  /\ UNCHANGED <<now, role, paused, failed>>

-----------------------------------------------------------------------------
(* Commands that write. *)

\* SET: setKey() after lookupKeyWrite(), with or without SETKEY_KEEPTTL.
Set(c, k, v, keepttl) ==
  /\ Writes(c)
  /\ LET gone == Lazily(c, {k}, "write")
         d == Deleted(data, gone)
         found == ~Missing(c, d, k)
     IN
     /\ AssertThat(found <=> Has(d, k))
     /\ data' = [Placed(d, k, v, Never)
                   EXCEPT !.expires[k] = IF keepttl THEN @ ELSE Never]
     /\ Answer(c, gone, Says("set", "ok"),
               <<[op |-> "set", key |-> k, val |-> v, keepttl |-> keepttl]>>,
               Signal({k}, {k} \ Present(d, {k}), Present(d, {k})))

\* EXPIREAT with a time in the future (or any time, from the link).
Expire(c, k, when) ==
  /\ Writes(c) /\ (c = "user" => when > now)
  /\ LET gone == Lazily(c, {k}, "write")
         d == Deleted(data, gone)
     IN
     \/ Missing(c, d, k) /\ Refused(c, gone, Says("expire", "no"))
     \/ /\ ~Missing(c, d, k)
        /\ data' = [d EXCEPT !.expires[k] = when]
        /\ AssertThat(Has(d, k))
        /\ Answer(c, gone, Says("expire", "ok"),
                  <<[op |-> "expire", key |-> k, when |-> when]>>,
                  Signal({k}, {}, {}))

Persist(c, k) ==
  /\ Writes(c)
  /\ LET gone == Lazily(c, {k}, "write")
         d == Deleted(data, gone)
         had == ~Missing(c, d, k) /\ d.expires[k] # Never
     IN
     \/ ~had /\ Refused(c, gone, Says("persist", "no"))
     \/ /\ had
        /\ data' = [d EXCEPT !.expires[k] = Never]
        /\ AssertThat(TRUE)
        /\ Answer(c, gone, Says("persist", "ok"),
                  <<[op |-> "persist", key |-> k]>>,
                  Signal({k}, {}, {}))

\* DEL and UNLINK.  On a replica an expired key is still there to delete.
Del(c, K) ==
  /\ Writes(c)
  /\ LET gone == Lazily(c, K, "read")
         found == Present(data, K) \ gone
     IN
     /\ data' = Deleted(data, gone \cup found)
     /\ AssertThat(TRUE)
     /\ Answer(c, gone, Says("del", IF found = {} THEN "no" ELSE "ok"),
               IF found = {} THEN <<>> ELSE <<[op |-> "del", keys |-> K]>>,
               Signal(found, {}, found))

Renames(a, b, nx) == <<[op |-> "rename", from |-> a, to |-> b, nx |-> nx]>>

\* RENAME and RENAMENX, of two keys of one database.
Rename(c, a, b, nx) ==
  /\ Writes(c) /\ a[1] = b[1]
  /\ LET gone1 == Lazily(c, {a}, "write")
         gone == Lazily(c, {a, b}, "write")
         d == Deleted(data, gone)
         found == ~Missing(c, d, b)
         d1 == IF found THEN Deleted(d, {b}) ELSE d
     IN
     \/ /\ Missing(c, Deleted(data, gone1), a)
        /\ Refused(c, gone1, Says("rename", "nokey"))
     \/ /\ ~Missing(c, d, a) /\ a = b
        /\ Refused(c, gone, Says("rename", IF nx THEN "no" ELSE "ok"))
     \/ /\ ~Missing(c, d, a) /\ a # b /\ found /\ nx
        /\ Refused(c, gone, Says("rename", "no"))
     \/ /\ ~Missing(c, d, a) /\ a # b /\ ~(found /\ nx)
        /\ AssertThat(~Has(d1, b))
        /\ data' = Deleted(Placed(d1, b, d.dict[a], d.expires[a]), {a})
        /\ Answer(c, gone, Says("rename", "ok"), Renames(a, b, nx),
                  Signal({a, b}, {b}, {a} \cup (IF found THEN {b} ELSE {})))

\* MOVE to another database.
Move(c, a, db) ==
  /\ Writes(c) /\ a[1] # db
  /\ LET b == <<db, a[2]>>
         gone1 == Lazily(c, {a}, "write")
         gone == Lazily(c, {a, b}, "write")
         d == Deleted(data, gone)
     IN
     \/ /\ Missing(c, Deleted(data, gone1), a)
        /\ Refused(c, gone1, Says("move", "no"))
     \/ /\ ~Missing(c, d, a) /\ ~Missing(c, d, b)
        /\ Refused(c, gone, Says("move", "no"))
     \/ /\ ~Missing(c, d, a) /\ Missing(c, d, b)
        /\ AssertThat(~Has(d, b))
        /\ data' = Deleted(Placed(d, b, d.dict[a], d.expires[a]), {a})
        /\ Answer(c, gone, Says("move", "ok"),
                  <<[op |-> "move", key |-> a, db |-> db]>>,
                  Signal({a, b}, {b}, {a}))

Copies(a, b, replace) ==
  <<[op |-> "copy", from |-> a, to |-> b, replace |-> replace]>>

\* Mutant of Copy: the copy has no expire.
CopyPersistent(c, a, b, replace) ==
  /\ Writes(c) /\ a # b
  /\ LET gone1 == Lazily(c, {a}, "read")
         gone == gone1 \cup Lazily(c, {b}, "write")
         d == Deleted(data, gone)
         found == ~Missing(c, d, b)
         d1 == IF found THEN Deleted(d, {b}) ELSE d
     IN
     \/ Missing(c, data, a) /\ Refused(c, gone1, Says("copy", "no"))
     \/ /\ ~Missing(c, data, a) /\ found /\ ~replace
        /\ Refused(c, gone, Says("copy", "no"))
     \/ /\ ~Missing(c, data, a) /\ ~(found /\ ~replace)
        /\ AssertThat(~Has(d1, b))
        /\ data' = Placed(d1, b, d.dict[a], Never)
        /\ Answer(c, gone, Says("copy", "ok"),
                  Copies(a, b, replace),
                  Signal({b}, {b}, IF found THEN {b} ELSE {}))

\* COPY, within a database or to another one.  The source is read.
Copy(c, a, b, replace) ==
  /\ Writes(c) /\ a # b
  /\ LET gone1 == Lazily(c, {a}, "read")
         gone == gone1 \cup Lazily(c, {b}, "write")
         d == Deleted(data, gone)
         found == ~Missing(c, d, b)
         d1 == IF found THEN Deleted(d, {b}) ELSE d
     IN
     \/ Missing(c, data, a) /\ Refused(c, gone1, Says("copy", "no"))
     \/ /\ ~Missing(c, data, a) /\ found /\ ~replace
        /\ Refused(c, gone, Says("copy", "no"))
     \/ /\ ~Missing(c, data, a) /\ ~(found /\ ~replace)
        /\ AssertThat(~Has(d1, b))
        /\ data' = Placed(d1, b, d.dict[a], d.expires[a])
        /\ Answer(c, gone, Says("copy", "ok"),
                  Copies(a, b, replace),
                  Signal({b}, {b}, IF found THEN {b} ELSE {}))

-----------------------------------------------------------------------------
(* Commands on databases. *)

Twin(k, db1, db2) ==
  <<IF k[1] = db1 THEN db2 ELSE IF k[1] = db2 THEN db1 ELSE k[1], k[2]>>
Swapped(d, db1, db2) ==
  [dict    |-> [k \in Keys |-> d.dict[Twin(k, db1, db2)]],
   expires |-> [k \in Keys |-> d.expires[Twin(k, db1, db2)]]]

\* Mutant of TouchedBySwap: only the keys of the first database are touched.
TouchedBySwapOnce(db1, db2) ==
  {k \in InDb(db1) : Has(data, k) \/ Has(data, Twin(k, db1, db2))}

\* touchAllWatchedKeysInDb(), called for both databases.
TouchedBySwap(db1, db2) ==
  {k \in InDb(db1) \cup InDb(db2) :
     Has(data, k) \/ Has(data, Twin(k, db1, db2))}

\* dbSwapDatabases(): clients stay with the number of their database.
SwapDb(c, db1, db2) ==
  /\ Writes(c)
  /\ LET both == InDb(db1) \cup InDb(db2)
         new == Swapped(data, db1, db2)
     IN
     /\ data' = new
     /\ AssertThat(TRUE)
     /\ Answer(c, {}, Says("swapdb", "ok"),
               <<[op |-> "swapdb", one |-> db1, two |-> db2]>>,
               IF db1 = db2 THEN Silent
               ELSE Signal(TouchedBySwap(db1, db2), Present(new, both),
                           {k \in both : Has(data, k) # Has(new, k)}))

\* FLUSHDB and FLUSHALL: emptyData(), and the command is always propagated.
Flush(c, flushed) ==
  /\ Writes(c)
  /\ LET found == Present(data, {k \in Keys : k[1] \in flushed}) IN
     /\ data' = Deleted(data, {k \in Keys : k[1] \in flushed})
     /\ AssertThat(TRUE)
     /\ Answer(c, {}, Says("flush", "ok"),
               <<[op |-> "flush", dbs |-> flushed]>>,
               Signal(found, {}, found))

-----------------------------------------------------------------------------
(* What happens between commands. *)

\* A deletion by the server itself.
Removes(k) ==
  /\ Idle /\ role = "master" /\ ~paused /\ Has(data, k)
  /\ data' = Deleted(data, {k})
  /\ Quietly(Propagated({k}, <<>>), Signal({k}, {}, {k}))
  /\ UNCHANGED <<now, role, paused, asking, failed>>

\* performEvictions()
Evict(k) == Removes(k)

\* The active expire cycle.
ExpireCycle(k) == Expired(data, k) /\ Removes(k)

Tick ==
  /\ Idle /\ now < MaxTime /\ now' = now + 1
  /\ Quietly(<<>>, Silent)
  /\ UNCHANGED <<data, role, paused, asking, failed>>

PauseOrResume ==
  /\ Idle /\ paused' = ~paused
  /\ Quietly(<<>>, Silent)
  /\ UNCHANGED <<data, now, role, asking, failed>>

\* REPLICAOF NO ONE
Promote ==
  /\ Idle /\ role # "master" /\ role' = "master"
  /\ Quietly(<<>>, Silent)
  /\ UNCHANGED <<data, now, paused, asking, failed>>

-----------------------------------------------------------------------------
Write(c) ==
  \/ \E k \in Keys, v \in Values, keepttl \in BOOLEAN : Set(c, k, v, keepttl)
  \/ \E k \in Keys, when \in 0 .. MaxTime : Expire(c, k, when)
  \/ \E k \in Keys : Persist(c, k)
  \/ \E db \in Dbs : \E K \in SUBSET InDb(db) \ {{}} : Del(c, K)
  \/ \E a, b \in Keys, nx \in BOOLEAN : Rename(c, a, b, nx)
  \/ \E a \in Keys, db \in Dbs : Move(c, a, db)
  \/ \E a, b \in Keys, replace \in BOOLEAN : Copy(c, a, b, replace)
  \/ \E db1, db2 \in Dbs : SwapDb(c, db1, db2)
  \/ \E flushed \in {{db} : db \in Dbs} \cup {Dbs} : Flush(c, flushed)

RandomKey == RandomEmpty \/ RandomFound \/ RandomAgain

Query == \/ \E k \in Keys : Read(k)
         \/ \E db \in Dbs : Scan(db) \/ KeysCommand(db) \/ AskRandom(db)
         \/ RandomKey

\* The dictionaries agree.
Agree(d) == \A k \in Keys : d.expires[k] # Never => Has(d, k)

\* The server starts with the keys of its RDB file, or of its master's.
Init ==
  /\ data \in {d \in Data : Agree(d)}
  /\ now = 0 /\ role \in Roles /\ paused = FALSE /\ asking = NULL
  /\ reply = <<>> /\ out = <<>> /\ signals = Silent /\ failed = FALSE

\* What comes over the link to the master is in module Replication.
Next == \/ Query \/ Write("user")
        \/ \E k \in Keys : Evict(k) \/ ExpireCycle(k)
        \/ Tick \/ PauseOrResume \/ Promote

Spec == Init /\ [][Next]_vars

\* The loop of dbRandomKey() goes on, and dictGetFairRandomKey() gives every
\* key a chance in every turn.
FairSpec == Spec /\ WF_vars(RandomKey) /\ SF_vars(RandomFound)

-----------------------------------------------------------------------------
TypeOK ==
  /\ data \in Data /\ now \in 0 .. MaxTime
  /\ role \in {"master", "readonly", "writable"} /\ paused \in BOOLEAN
  /\ asking \in [db : Dbs, tries : 1 .. MaxTries, turn : BOOLEAN,
               allvolatile : BOOLEAN] \cup {NULL}
  /\ failed \in BOOLEAN

(***************************************************************************)
(* The two dictionaries agree: an expire has its key.  setExpire() keeps   *)
(* an old expire when there is none to set, so one that stayed behind      *)
(* would go to the next key of that name.                                  *)
(***************************************************************************)
ExpiresHaveKeys == Agree(data)

(***************************************************************************)
(* dbAdd() never finds the key, dbSetValue() and setExpire() always do:    *)
(* the lookup before them has deleted an expired key in every role that    *)
(* may write.                                                              *)
(***************************************************************************)
NoAssertFails == ~failed

\* What clients see.
Gone == [val |-> NULL, when |-> Never]
Live == [k \in Keys |-> IF Missing("user", data, k) THEN Gone
                        ELSE [val |-> data.dict[k], when |-> data.expires[k]]]
L == INSTANCE LiveKeyspace WITH live <- Live, follows <- (role # "master")

(***************************************************************************)
(* The server implements a map whose entries vanish when their time is over: *)
(* no client can tell when an expired key is really deleted, by which      *)
(* command, whether expires are paused, and whether it asks a replica.     *)
(***************************************************************************)
LiveSpec == L!Spec

(***************************************************************************)
(* Optimistic locking: no step changes, creates or removes a key, moves it *)
(* with its database or changes its expire without touching the clients    *)
(* that watch it.                                                          *)
(***************************************************************************)
ChangesAreTouched ==
  [][\A k \in Keys :
       data'.dict[k] # data.dict[k] \/ data'.expires[k] # data.expires[k]
         => k \in signals'.touched]_vars

(***************************************************************************)
(* No blocked client is forgotten: when a key appears in a database, by    *)
(* whatever command, those who wait for it are served, and when it goes    *)
(* those who wait for that are.                                            *)
(***************************************************************************)
WaitersAreServed ==
  [][\A k \in Keys :
       /\ ~Has(data, k) /\ Has(data', k) => k \in signals'.ready
       /\ Has(data, k) /\ ~Has(data', k) => k \in signals'.deleted]_vars

(***************************************************************************)
(* RANDOMKEY ends although it starts again whenever it meets an expired    *)
(* key: a master deletes the key, unless expires are paused, and a replica *)
(* counts its tries.                                                       *)
(***************************************************************************)
RandomKeyEnds ==
  asking # NULL /\ (role # "master" \/ ~paused) ~> asking = NULL

\* db.c:360-366: the loop ends whatever the keys are ("To prevent the
\* infinite loop we do some tries").
RandomKeyAlwaysEnds == asking # NULL ~> asking = NULL

(***************************************************************************)
(* What every command starts from and leaves behind, in every role: an     *)
(* expire has its key, and no lookup has hidden a key from a command that  *)
(* then asserts it is there, or is not (db.c:202-284, 1672-1838).          *)
(***************************************************************************)
KeyspaceSound == TypeOK /\ ExpiresHaveKeys /\ NoAssertFails
=============================================================================
