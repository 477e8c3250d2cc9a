# Verification of RedOpt

RedOpt adds an eviction policy, `allkeys-lru-histogram`, to Redis 7.2 and
comes with the application it was measured with. The repository holds the six
C files of Redis that were changed (`evict.c`, `db.c`, `object.c`, `rdb.c`,
`config.c`, `server.h`), a server and a client in Java, and their deployment.
This directory holds TLA+ models of that code, their checks with TLC and their
proofs with TLAPS. Paths below are relative to the repository; `C/` stands for
`redis-source-code-modifications/src/`.

## 1. Inventory

| Part | State | Operations | What makes it correct |
|---|---|---|---|
| Eviction pool (`C/evict.c:43-555`) | `EvictionPoolLRU`: 16 slots with key, idle time, score, database | allocation, insertion by idle time, insertion by score, picking the best | ascending ranks, no hole between entries, an insertion never drops anything better than what it keeps, no rank left in an empty slot |
| Access metadata (`C/object.c:43-212, 1444-1476`, `C/db.c:61-167, 212-335, 1262-1490`) | of every value: `lru`, `num_accesses`, `access_times` | creation, entering a dictionary, lookup, overwrite, rename, move, copy, dump, load | the array holds the last accesses, in order, and the counter says how many |
| Histogram score (`C/evict.c:107-141, 300-347`) | none between calls | statistics of the samples, window boundaries, score | every access is counted in one window; older and fewer accesses go first |
| Eviction cycle (`C/evict.c:556-992`, `C/config.c:2484`) | `isEvictionProcRunning`, `next_db`, the pool, the keyspace | `performEvictions()` from a command or from a time event; the lazyfree thread | only evictable keys go; an error means nothing is left; work that is not finished is continued, and stops |
| Demonstration application (`server/`, `server-classic/`, `client/`) | rows in PostgreSQL, copies in Redis, requests in flight | create, read through the cache, delete, update | a copy equals its row |
| Keyspace (`C/db.c:104-1838`) | per database the dictionaries `dict` and `expires`; the clients that watch keys or wait for them; the stream to the replicas | lookups with lazy expiry; SET, EXPIRE, PERSIST, DEL, RENAME, MOVE, COPY, RANDOMKEY, KEYS, SCAN, SWAPDB, FLUSHDB, FLUSHALL | nobody can tell when an expired key is really deleted; an expire has its key; a replica ends up with the data of its master; every change is signalled |
| Dump (`C/rdb.c`) | the file and its temporary copies, the dirty counter, the child and its pipes, what replicas wait for | SAVE, BGSAVE, the save of FLUSHALL, transfers without a file, the end of a child; saving and loading of every record | the file is always a complete dump; no change is forgotten; what was saved is what is loaded |
| Configuration (`C/config.c`) | the parameters, what was made of them, the file | CONFIG SET, CONFIG REWRITE, loading | a failed CONFIG SET leaves everything as it was; the file is whole, says what the server does, and keeps what the operator wrote |
| String objects (`C/object.c`, `C/db.c:202-463`) | reference counts, encodings, shared integers | create, encode, duplicate, release, and the commands that store, change and share values | nothing is freed while it is held; values with access data are private; a replica gets the arguments of the client |
| LFU counter (`C/evict.c:459-555`, `C/object.c:1449-1476`) | minutes and logarithm in the field `lru` | decay, increment | an object never ages faster than its decay time says |
| Key extraction (`C/db.c:1845-2577`) | none | `getKeysFromCommand()`, the key specs, the channels | the keys found are the keys meant |
| Memory report (`C/object.c:1021-1446, 1551-1722`), key statistics of the server, deployment | | | not modelled, see section 5 |

How they interact. The main thread of Redis runs one event at a time: a
command of a client, preceded by `performEvictions()`, or a time event.
`performEvictions()` reads the configuration and the memory counter, samples
the dictionaries, ranks the samples by their objects' metadata, inserts them in
the pool and deletes what it picks; it may hand values to the lazyfree thread,
which changes the memory counter at any moment. Commands write metadata with
every lookup. A child that saves stops the recording of accesses; the dump
carries the idle time, and loading rebuilds metadata from it. The application's
two programs know Redis only by its keys, which the eviction removes. A command
looks its keys up, which may delete the expired ones; those deletions go into the
replication stream before the command, and a replica, which deletes nothing by
itself, executes both in that order.

What is hard in it: a pool that outlives calls, policies and keys; a memory
counter with two writers; a time event that is started in one function and
stopped by the result of another; metadata on which every path that creates,
replaces or moves an object must agree; statistics whose later use assumes
inequalities nobody checks; expired keys that exist or not depending on role,
client and pause, under commands whose assertions take a lookup's answer for
granted; processes that save while the data change, end in every way and
outlive their server, with files that are renamed and synced in steps; objects
that several holders count on, one of which is about to change its value; a
command that sets several parameters and must take all of them back; and, in the
application, two stores written one after the other. `PROJECT.json` lists these hazards at their lines.

### How the sources are read

The commit does not build as it stands: `server.h` has commented out the field
`lru` that all other files use and declares `access_times` as an array of
structs of 24-bit fields while the code stores integers in it and moves them
with `sizeof(unsigned long long)`; `evict.c` defines `calculateStatistics()` and
calls `calculateGlobalStatistics()`. The models read the sources as the C files
do: `lru` is a field of 24 bits, `access_times` an array of `HISTORY_SIZE`
64-bit integers, followed by `num_accesses` with 8 bits, and the two names are
one function. `server.c`, `dict.c`, `bio.c` and the networking are not in the
repository; what is taken from them is marked external in the map. The
configuration file sets `history-count` and `histogram-window-weights`, which
`config.c` does not know: both are compiled in.

## 2. Modules

```
EvictionPool <------ Eviction          AccessHistory       CacheAside
     ^     INSTANCE      ^                   ^                  ^
MCEvictionPool      EvictionProofs    MCAccessHistory    CacheAsideProofs
                     MCEviction                            MCCacheAside

LiveKeyspace <----- Keyspace <------------- Replication
           INSTANCE     ^    INSTANCE twice      ^
                  KeyspaceProofs <-------- ReplicationProofs
                    MCKeyspace  INSTANCE   MCReplication
                                twice

KeyExtraction <-- CommandForms <---.
  RdbEncoding <------ RdbFormat <--- ServerFunctions <--- MCServerFunctions ---> HistogramScore
                     AccessWord <--'
RankingProofs extends EvictionPool, AccessHistory, HistogramScore, ServerFunctions

RdbEncoding <----- StringStore -----> StringMap       RdbPersistence         Config
                        ^       INSTANCE                    ^                  ^
                  MCStringStore                    RdbPersistenceProofs   ConfigProofs
StringProofs extends StringStore, ServerFunctions    MCRdbPersistence       MCConfig
RdbPersistenceProofs extends ServerFunctions too
```

**EvictionPool** is the pool alone, for any number of slots and any totally
ordered ranks. `pool` is the array with, per entry, the key and both ranks
(`idle`, `score`); `policy` is the field the present policy ranks by. `Insert`
is the body of the loop of `evictionPoolPopulate()` and
`evictionPoolPopulateLRUHistogram()` for one sample: the scan for the place, the
test for a full pool, the shift to the right or to the left, the write of the
rank of one policy (the other field keeps what the slot held). `TakeBest` is one
turn of the scan in `performEvictions()`. The database of an entry is part of
the key and the cached buffer is layout.

**AccessHistory** is one or more objects with their metadata, from creation to
dump and reload; `Lookup`, `Add`, `Overwrite`, `Rename`, `Copy` and `Delete` are
the commands by what they do to metadata, `Save` and `Restart` the way through
the dump, `Tick` the clock that wraps, `ForkOrReap` the child whose presence
stops the recording. Two history variables in the objects, `sound` and `seen`,
say whether a path of the code has put the array out of step and when the last
access was. An uninitialised counter (embedded strings) is any value of
`GarbageCounts`; the store past the array lands on the counter, and both orders
of the store and the increment that a compiler may choose are outcomes.

**HistogramScore** runs the two loops over the samples access by access:
`Observe` accumulates the statistics, `Classify` finds the window of one access.
Doubles are exact rationals: comparisons with mean and mean +- stddev are
multiplied out and squared. The rounding of doubles is therefore not modelled.
The 64-bit sums are not reduced either; `SumsFit` says when they need not be: for
true ages, with 24 bits of age and 4 accesses a key, up to 2^14 sampled keys. The
age of a stamp that lies in the future (after a wrap of the clock) is close to
2^64 in the code and has no counterpart here.

**Eviction** is `performEvictions()` step by step with its two callers. `Call`
is the checks up to the loop, `Sample`/`Populate`/`Scan`/`ScanEnds` the pool
policies, `PickRandom` the random ones, `DeleteBest` the deletion with its
memory difference, `Enough`/`OutOfTime`/`MoreTime` the look at the clock every
`CheckEvery` (16) keys, `NothingLeft`/`WaitEnds`/`GiveUp` the end without a key;
`TimerReturns` is the end of `evictionTimeProc()`, and `Write`, `Remove`,
`ChangeExpire`, `SetPolicy`, `SetMaxmemory` what the command does for which the
call was made. The module INSTANCEs EvictionPool with the rank field of the
policy in force and uses its actions for the pool. Memory is counted in values.
Every sampled key gets any rank: what the ranks are is the matter of
AccessHistory and HistogramScore. `nextDb` is `next_db`, an unsigned counter of
`UIntRange` values that wraps before the modulo by the number of databases is
taken. Left out: the statistics counters and the
latency monitor (nothing reads them), the propagation of deletions (its memory
is in `other`), and a deletion that makes the dictionary itself grow or shrink.
`dictGetSomeKeys()` walks a bounded number of buckets and may return no key of a
sparse dictionary; then the pool may have no candidate and the code samples
again (`ScanEnds`), as it does when all candidates were ghosts.

**CacheAside** is the application: `CreateRow`+`Put`, `GetMiss`+`Find`+`Put` and
`DeleteRow`+`Uncache` are the requests of the server in the steps between which
others run; `ClientCreate`, `ClientDelete`, `ClientFind`+`ClientSave` those of
the client, whose calls to the cache go to paths that no controller maps, so
that only the write to the table remains. `ProgramRestart` follows from
`ddl-auto: create`. `suspect` is a history variable: the ids for which one of
the known causes of a stale copy has occurred since the key was last removed.

**Keyspace** is the dictionaries of all databases and every command of `db.c` on
whole keys and databases, one action each, with the lookups it begins with:
`Lazily` is the set of keys these delete, by `expireIfNeeded()` with its cases
of role, client, flags and pause (`Deletes`), and `Missing` is what the lookup
answers. `Deleted` and `Placed` are `dbGenericDelete()` and `dbAdd()`/
`dbSetValue()` with `setExpire()`. `failed` records a `serverAssert()` that does
not hold. `out` is what a step propagates, `signals` the keys it touches
(`signalModifiedKey()`), makes ready (`signalKeyAsReady()`) and reports deleted
(`signalDeletedKeyAsReady()`). RANDOMKEY is the loop of `dbRandomKey()` turn by
turn (`AskRandom`, `RandomFound`, `RandomAgain`, `RandomEmpty`); nothing else
happens between two turns, as in the code. `Evict`, `ExpireCycle`, `Tick`, `PauseOrResume`
and `Promote` are what goes on between commands; the server starts with any
dictionaries a dump can hold. A value is an object of any type. Left out: MULTI
and EXEC, the `remember...WithExpire` bookkeeping of writable replicas, SCAN with a
cursor (one call covers the database), `swapMainDbWithTempDb()`, databases that
do not exist, and DBSIZE, which counts expired keys as well.

**LiveKeyspace** is what the keyspace promises: a map from keys to values with a
time, from which an entry vanishes when its time is over. Every command is
answered from that map. Two answers are looser on a replica, because the code
is: RANDOMKEY may name a key whose time is over, and DEL may count one.
`Keyspace` implements it with `Live` (what a user would find) for the map.

**Replication** INSTANCEs Keyspace twice, as the master and as its replica, with
the stream between them. `MasterStep` sends what a step propagates, `Deliver`
executes the next command of the stream as the client of the master, for whom
no key is expired, and `ReplicaStep` is what the users of the replica, its
clock and (when promoted) its own expiry do. `Failover` loses the master and what
was under way. The first synchronisation is taken as done: the data are equal
at the start.

**RdbPersistence** is the dump as processes and files. `Open`, `Write`, `Flush`,
`Rename` and `SyncDir` are the calls of `rdbSave()` (`C/rdb.c:1433-1587`), each
with its failure, in the server (SAVE, FLUSHALL) or in a child (BGSAVE);
`SaveToSlaves`, `Stream` and `Hold` are `rdbSaveToSlavesSockets()` and its child,
with the two pipes by which child and server wait for each other; `Reap` is
`backgroundSaveDoneHandler()`, `PipeEof` the handler in `replication.c` that
closes the exit pipe (external). The content of the server is the number of the
change that made it, so that "older" and "forgotten" mean something; `tmp`,
`dump` and `onDisk` are what the files hold, what the directory names, and which
of the two a crash of the machine may leave. `ServerCrash` leaves the child
running, as `fork()` does. History variables: `acked`, the content last
reported as saved (or, after a restart, what was loaded, when a child of a dead
server has cost it the rest); `overtaken`, the child of a dead server renamed its
dump while the next server was up, or such a child or a killed one renamed it over
a dump newer than its own; `twice`, FLUSHALL saved and reset `dirty` when a child had
ended and not been waited for, or ended before the signal reached it, so that its changes are subtracted a second time
and the counter becomes negative (`C/rdb.c:3429`); `left`, the temporary files whose
process died when no server waited for it. All of these are what the code does, and the
properties say what holds otherwise. `killRDBChild()` only sends a signal:
`signalled` are the children it is on its way to, which go on, and may rename
their file, until `ChildDies`. A crash removes nothing: the temporary files of a
dead server, of its children and of a stopped machine (there, any of them) stay
until a process of the same id opens its file; what is in them is never read.
`lastsave`, the status of the last save and the statistics are left out, nothing
in `rdb.c` reads them. `rdbSave()` syncs the directory after the rename and
reports an error if that fails: the file is then a new one though `dirty` is
not reset, and that is in the model.

**RdbEncoding** is what is written and read, byte by byte: lengths, integers,
strings (as integer, compressed, verbatim) and doubles. A byte is one of
`4 * Rests` numbers, the two bits that say what kind of length follows and the
`Rests` that its first byte has room for, 64 in the code and at least 4 in the
model. **RdbFormat** is the dump above it, the sequence of its records, saved by
`SaveRio` and loaded by folding `LoadRecord`, with expired keys, empty values, idle times and frequencies,
databases that are too many, the position in the replication stream (with the
database the next command would be for, or -1 when there is none, as the loader
starts with it), the
checksum and a stream that ends anywhere. Values of containers are opaque.

**KeyExtraction** is the reading of key specs, of the older ranges and the
functions of the commands that need one of their own; **CommandForms** is the
commands as their clients mean them, keys marked, in every form whose arguments
also take the names of options. Two commands do not stand that. `sortGetKeys()`
does not skip the destination of STORE but reads it once more as an option: in
`SORT k STORE store ASC` it takes `ASC` for the key, and a destination called
`limit`, `get` or `by` swallows what follows, a second STORE for one; these are the
`MisreadForms`, exactly those the function gets wrong. The specs of MIGRATE search
for the word `keys` and find it in a password or as the name of a key
(`SearchMisleads`), so that a partial search by the specs alone names arguments
that are no keys; the full search has MIGRATE's own function. And the loop over
the channels does not stop at the flag that ends its table. **AccessWord** is the LFU use of the field `lru`: the
minutes that wrap (after a wrap the elapsed time is one minute short), the decay
and the increment with both outcomes of its draw, which exist at every height
of the counter below its end: the quotient of `rand()` may be 0 and may be 1.
**ServerFunctions** calls all of these, one call per behaviour, and states what
their results must be; `MCServerFunctions` checks them together with HistogramScore.

**StringMap** is what the commands on strings promise: a map. **StringStore**
implements it with the objects of `object.c`: `CreateString`, `TryEncode`,
`CreateInt` with the shared integers, `Dup`, `Decoded`, `Incr` and `Decr` over a
heap, a function from the ids in use to their objects (there are as many ids as
anyone asks for), in which the transaction's queue and the list of what is to be
propagated hold references next to the keyspace. `Queue`, `Execute`, `Finish`
and `Discard` are the life of a transaction (a command alone is one of length
1), `Unshared` is `dbUnshareStringValue()`, `SetPolicy` switches sharing off and
on, `Restart` goes through the dump with `SaveString` and `LoadString` of
RdbEncoding, after which the objects may lie anywhere (`Places`). APPEND and INCR, which are in `t_string.c`, are external; a replica
executes the client's arguments and is exempt from the length limit
(`mustObeyClient()`).

**Config** is CONFIG SET parameter by parameter (`SetOne`), then the apply
functions (`ApplyOne`), and after a failure `RestoreValues` and `Reapply`;
CONFIG REWRITE as the pure `Rewritten` (old file read, lines replaced, orphans
blanked) followed by `Sync`, `Rename` and `SyncDir`; and the load line by line.
One parameter stands for each way to be set, restored, applied and rewritten
(the header lists them). Kept from the code: the check for parameters
named twice compares pointers to the names, so a name and its alias in one
command pass and the later one wins (a fact of `C/config.c:876-889`); percentiles come back from a
rollback without the digits that the text does not show; a nested INCLUDE ends
with `reading_config_file = 0`, so that every later `save` line discards the
save points before it and only the last is loaded (`C/config.c:617, 2741`); a
parameter at its default that an INCLUDE sets is set by it again after a rewrite; a failed sync of
the directory is reported as an error although the file is replaced. Left out: edits of the file by an operator while a
command runs (between commands they happen), DENY_LOADING and PROTECTED
parameters, `dir`, TLS, modules, Sentinel and the directives of users.

## 3. Runs

A property in front of parentheses is the conjunction of those in them. The type
invariants of the pool, the history, the score, the eviction and the
application are theorems (section 4) and are not run again. Bounds are constants
of the cfg files. Deadlock is checked except in `functions`,
whose algorithms end, and in `config`, where the bounds on commands, edits and
crashes end the behaviour.

| Run | Checks | Bounds and why they are enough |
|---|---|---|
| `pool` | `PoolShape`, `OrderKept`, `DropsOnlyWorst` | 3 slots: the least with a first, a middle and a last place, so that every branch of the insertion is taken; the policy changes at any time; three ranks of each kind |
| `history` | `SoundHistory`, `IdleSurvivesReload` | an array of 2 stamps, a counter of 2 bits, a clock of 4 ticks that wraps; two keys, the least for rename, move and copy. Objects meet only in those steps, so a state with an object under both keys is checked and not gone on from (`MCAKeyIsFree`) |
| `functions` | `WindowsAreSound` (`PopulationStats`, `NestedWindows`, `EveryAccessCounted`), `ScoresRank` (`OlderGoesFirst`, `MoreAccessesStay`, `LaterIsTheSame`); `EncodingsComeBack` (`LengthsComeBack`, `IntegersComeBack`, `StringsComeBack`), `DumpIsLoaded` (`DumpComesBack`, `PositionComesBack`, `DamageIsSeen`); `KeysAreFound` (`KeysAreMeant`, `SpecsAgree`); `DecayIsFair` | score: all pairs of histories of at most 3 accesses with ages 0..3, so that all four windows occur. Dump: bytes of 4 bits with all small lengths and both sides of every later boundary; dumps of up to two keys, in one, two or (too many for the loader) three databases, of servers with every policy and position in a chain (a selected database of earlier replicas included), loaded by masters and replicas of either policy, over a key that is there or not. Keys: every command of the table that has a function, up to two keys, values, destinations and options by the same names; 2829 forms, of which the 798 that SORT misreads are excepted by name. LFU: all pairs of minutes of a clock of 8 |
| `eviction` | `FreedIsReleased`, `EvictsOnlyEvictable`, `FailMeansNothingToEvict`, `WorkIsContinued`, `TimerStops`, `TimerStopsWhenDone`, `CallsReturn` | three databases and a counter of four values, which three does not divide, so that rounds with and without a wrap and ones that miss a database occur; three keys, so that a call that looks at the clock every 2 keys can end with one left; a pool policy of each scope with different rank fields, a random one and `noeviction`, switched at any time; two pool slots; under fairness |
| `cache_aside` | `StaleOnlyWhenSuspect` | two requests of any kind at once (symmetric), two ids, two contents |
| `keyspace` | `KeyspaceSound` (`TypeOK`, `ExpiresHaveKeys`, `NoAssertFails`), `LiveSpec`, `ChangesAreTouched`, `WaitersAreServed`, `RandomKeyEnds` | two databases and two names, the least for RENAME, MOVE, COPY and SWAPDB to meet other keys; one tick of the clock, which is enough because the server starts with all dictionaries, expires of every time included; a master or a readonly replica that may be promoted. The theorems below are about all three roles |
| `replication` | `InSync`, `BothSound` | one database, two names (symmetric), one tick of each clock, a readonly or writable replica, and a command that propagates only when nothing is under way, so that at most two commands are, the deletion that a command caused and the command; between them both clocks move, pauses begin and end, and users of a writable replica write |
| `persistence` | `DumpSurvives` (`DumpIsWhole`, `SavedSurvives`), `NothingIsLeft` (`TypeOK`, `TempIsOwned`, `WaitersHaveAChild`), `NoChangeForgotten`, `NewerDumpStays`, `ChildrenEnd` | one child at a time, as in the code (its pid is used again after it was waited for), one replica, two changes (before and after the fork), signals that arrive at any later point, one crash of the server or the machine at any point; under fairness |
| `strings` | `HeapSound` (`TypeOK`, `RefsAreHeld`), `PrivateWhenNeeded`, `ReplicaFollows`, `MapSpec` | two keys (symmetric) and transactions of two commands, the least for an argument to become a value that the next command changes before it is propagated; values up to 3 symbols with limits that make all three encodings, both sides of the shared integers and the length limit occur |
| `config` | `TypeOK`, `AllOrNothing`, `Applied`, `FileSurvives` (`FileIsWhole`, `SavedIsLoaded`), `RewritesKeep` (`OthersStay`, `RewriteSettles`) | two CONFIG SETs of one or two parameters of eight kinds, room for one address, so that the second starts from a rolled back or half applied one; one rewrite with two orders of the dictionary; four files with duplicates, aliases, save points, an INCLUDE at either end; one crash |

Every property, and every part of one, has a mutant in `PROJECT.json`: a plausible error in the code
(a wrong bound, a missing reset, a swapped order) that makes the property fail
under the same cfg. The operators whose comment begins with "Mutant of" are
used for nothing else.

### Where the code and its documentation differ

These runs each check one sentence of the documentation and find it false.

| Run | Sentence | What the code does |
|---|---|---|
| `history_overrun` | `README.md:79`: "Stores the last X access timestamps" | renaming, moving or loading a key with a full history stores one stamp past the array, on the counter |
| `keyspace_random` | `C/db.c:356-363`: tries prevent the infinite loop of RANDOMKEY | they are counted on replicas only; a master whose expires are paused (CLIENT PAUSE, a failover under way) and whose keys have all expired never leaves the loop, and the pause cannot end while it runs |

Other differences are built into the models and need no run: the newest window
weighs 0.3 and 0.4 is never read, although `redis-6380.conf:1161-1164` gives 0.4
to the first; the time event stops when it finds evictions unsafe and nothing
starts it again when they are safe, although `C/evict.c:675-678` speaks of
spinning until resolved (`TimerStopsWhenDone` excludes this case); the pool keeps
entries ranked by another policy after a change (`OrderKept` is about steps, not
states, for that reason, although `C/evict.c:46` says that the entries are
ordered by idle time); the counter stops at the size of the array and embedded
strings start with an arbitrary one, although `README.md:76` says that it counts
the accesses; SET on an existing key empties the history; after a load the
newest stamp is a duration; EVICT_RUNNING says that the time event is
registered, not that the memory is over the limit (`C/evict.c:761`), and
EVICT_FAIL can be returned with the memory within the limit (`C/evict.c:762`), when the lazyfree
thread ends its last job just before the look at it.
`SoundHistory` is what remains true of the metadata.
The counter of LFU loses one for every decay time that has passed, at any height
(`DecayIsFair` demands no more than that), although `C/evict.c:490-492`, `501-503`
and `538-539` say that it is halved when it is high, above twice `LFU_INIT_VAL`.
`next_db` visits all databases (`C/evict.c:873-875`) in every round but the one in
which it wraps, when `dbnum` is no power of two: that round skips databases, and
EVICT_FAIL may be returned with keys in them (the exception `NothingToEvict` of
`FailMeansNothingToEvict`, `WorkIsContinued` and `TimerStopsWhenDone`).
`sortGetKeys()` parses "just the minimum in order to correctly identify keys in
the STORE option" (`C/db.c:2324-2325`), but not those of the `MisreadForms`.

### Fairness

The runs `eviction`, `keyspace`, `keyspace_random` and `persistence` use it. Of the eviction: `WF(Perform)`, `WF(TimerReturns)` and
`WF(RunCommand)`: the main thread goes on with what it runs, in one function
without blocking. `SF(Call("timer"))`: `aeProcessEvents()` handles the ready file
events of one cycle, a finite number, and then all time events that are due, so
a time event with period 0 that is registered again and again is called again
and again whatever the clients send. `SF(SampleFinds)`: the sampling starts at a random bucket, so it
does not miss every key for ever; without it `CallsReturn` fails, as it does when
ghosts stay in the pool. Nothing is assumed of the lazyfree thread, of
clients, or of which keys are sampled; `TimerStops` holds without it,
since a call with nothing left to evict ends the event. Of the keyspace:
`WF(RandomKey)`, the loop goes on, and `SF(RandomFound)`,
`dictGetFairRandomKey()` gives every key a chance in every turn, so that a key
that could be answered again and again is drawn at last. Of the persistence:
`WF(SaveStep(Server))` and `WF(ChildStep(c))`, the scheduler runs every process
that can run (a child that waits for the exit pipe cannot, `Hold` is its end);
`SF(PipeEof \/ Reap)`, the main loop comes back to its file events and to
`serverCron()` after every command, whatever the clients send. That the system
calls succeed is not assumed, nor that a crashed server is started again:
`ChildrenEnd` is about what the children of a running or dead server do.

## 4. Proofs

| Module | Theorems | Argument |
|---|---|---|
| `RankingProofs`, the pool | `TypeCorrect`, `ShapeCorrect`, `OrderCorrect`, `OrderKeptCorrect`, `DropsOnlyWorstCorrect` | inductive: the occupied slots are a prefix and empty slots are clean; with an ordered pool, also that ranks ascend, always on a server that keeps its policy (`FixedPolicySpec`). The prefix is needed for the order, because the insertion decides by the last slot whether the pool is full |
| `RankingProofs`, the score | `ScoreTypeCorrect`, `PopulationCorrect`, `NestedCorrect`, `EveryAccessCountedCorrect`, `WindowsAreSoundCorrect`, `OlderGoesFirstCorrect`, `MoreAccessesStayCorrect`, `LaterIsTheSameCorrect`, `ScoresRankCorrect` | windows: no access observed means initial statistics, the statistics are those of a population, and every age already observed is at most `max`; the variance by adding one age to `count*squares - sum^2`, with the products bounded in lemmas of their own. That is exact arithmetic; `PopulationCorrect` adds under which bound on the ages the code's unsigned sums are these (`SumsBounded`: after n accesses the sums are at most n times the greatest age and its square). Ranking: `RankInv` adds that the counters of the two loops follow the histories (`CountersFollow`, `StatsFollow`) and the windows the ages (`WindowsFollow`); what is summed over histories of any length is a fold, whose recursive function is shown to exist (`FoldExists`), and compared access by access by an induction that is drawn from the least element of a set of naturals (`WFMin`) |
| `RankingProofs`, the LFU counter | `DecayIsFairCorrect` | of a call with any two times less than a turn of the minutes apart (`CallInv`): the elapsed minutes from the division of the clock (`Division`), with and without a wrap between; then decay and increment by cases |
| `RankingProofs`, the access history | `HistoryTypeCorrect`, `SoundHistoryCorrect`, `IdleSurvivesReloadCorrect` | types with the widths, then the four conjuncts of a true history, one lemma per operation on an object. That the idle time survives: the load subtracts it from the clock and adds the period when the result is negative, which `estimateObjectIdleTime()` takes back, for every period and clock |
| `CacheAsideProofs` | `TypeCorrect`, `StaleOnlyWhenSuspectCorrect` | the invariant has to say the same of the copies that requests still hold (`HeldIsRow`) as of those in the cache: a put makes the one the other |
| `EvictionProofs` | `TypeCorrect`, `FreedIsReleasedCorrect`, `FailMeansNothingToEvictCorrect`, `EveryDatabaseIsSeen`, `WorkIsContinuedCorrect`, `EvictsOnlyEvictableCorrect`, `TimerStopsWhenDoneCorrect` | one invariant (`IInv`) for all: expires are keys, the picked key is evictable when it is deleted, a call that waits for the lazyfree thread has nothing to evict (but what a wrapping round missed), an OK with the time event running means the memory is within the limit, and a timer call has a timer. Which databases a round sees is arithmetic modulo the range of the counter and then modulo `DbNum`; where `DbNum` divides the range nothing is missed (`EveryDatabaseIsSeen`). What is proved of the pool holds in the cycle because `Eviction` uses the actions of `EvictionPool` as they are |
| `KeyspaceProofs` | `TypeCorrect`, `ExpiresHaveKeysCorrect`, `NoAssertFailsCorrect`, `KeyspaceSoundCorrect`, `ChangesAreTouchedCorrect`, `WaitersAreServedCorrect`, `LiveCorrect` | the invariant is the types, `ExpiresHaveKeys` and `NoAssertFails`. One lemma per command shows that from such a state it makes another one and tells of every key it changes (`Good`); the key to it is `FoundIsThere`: a client that may write finds exactly the keys that are there once the lookups have deleted what they delete, in each of the roles. `LiveCorrect` is the refinement: one lemma per command again, over `Entry`, what clients see of one key; lazy deletions change no entry (`EntryLazily`) |
| `ReplicationProofs` | `TypeCorrect`, `BothSoundCorrect`, `InSyncCorrect` | `InSync` speaks only of an empty stream and is not inductive. The invariant says what the stream is: `history` is a path (`Path`) along which every command, executed on the replica's data, gives the next element, and its end is what a client of the master sees (`Follows`). The lemmas in `KeyspaceProofs` about `Effect` and `Sent` say of each command that what it propagates does to the data of a client for whom no key expires what the command did to those of the master. The sizes of the stream are any (`ReplicationAssumption`) |
| `RdbPersistenceProofs`, the files | `TypeCorrect`, `NothingIsLeftCorrect`, `DumpSurvivesCorrect`, `NoChangeForgottenCorrect`, `NewerDumpStaysCorrect` | the invariant has five parts: who runs and what the server knows of it (`ProcsSound`); what each temporary file is at each place of `rdbSave()` (`FilesSound`); that no file is newer than the data (`NothingNewer`); which versions the files can have, in the order of the changes (`VersionsSound`, which says nothing more of a child once the signal to end it is under way); how many changes `dirty` stands for, between the fork and now, also when the same are subtracted twice (`CounterSound`). `NothingIsLeft` is about a server that lives: what a process leaves that dies unattended is in `left`. None is inductive without the others: the dump on disk is whole because a rename follows a flush, and newer than `acked` because a child that is renamed was forked from at least that content |
| `RdbPersistenceProofs`, the content | `DumpIsLoadedCorrect` | saving flattens the records of the keys, loading is a fold (`Play`) over the records; both are shown to be the recursive functions they stand for (`FlattenSums`, `RecordsPlayed`) by the induction of `WFMin`. `AfterKey` says what the records of one key do to a loader between two keys: bring an entry, drop it, or stop at a name that is taken. `AfterKeys` follows a database key by key, which needs that its names differ; `AfterDatabases` the databases, to the one too many for the loader; `AfterBody` adds the libraries, whose names in the dump differ, and the position. `Unsummed` counts what was read: the sum at the end is over exactly the records before it, so a stream that ends early never reaches it and a changed value makes it another sum. Needed of the inputs (`DumpInputsAssumption`): a database is a dictionary, libraries differ, idle times are naturals |
| `ConfigProofs`, CONFIG SET | `TypeCorrect`, `AllOrNothingCorrect`, `AppliedCorrect`, `FileIsWholeCorrect` | one conjunct for each phase of the command (`WhileSetting`, `WhileApplying`, `WhileRestoring`, `WhileReapplying`): each value is the old one or the last text that set it; what changed and needs a function has it in the list, once; until a listening function is done the listener is that of the old values, then that of the new. The rollback is a run of setters (`RestoredFacts`): the text that is kept of a value is one that its setter takes (`ShownFits`). Of the file: the lines it has are lines that load (`GoodLines`), which each step of a rewrite keeps (`RewrittenIsGood`), and the server starts from exactly the files of such lines (`LoadFacts`). Setting back, loading and rewriting are folds over sequences of any length, treated as in `RankingProofs` |
| `ConfigProofs`, CONFIG REWRITE | `FileSurvivesCorrect`, `RewritesKeepCorrect` | `SavedInv` says what the file is while a rewrite runs and after it: `Written`, for the values that were saved. That is, each parameter stands (`Stands`) in exactly the lines that its rewriter writes, in the order of its texts, or in none when it has its default. A rewriter puts one more text at the first old line or at the end (`LineIsWritten`, `OneMoreLine`) and leaves the lines of the other parameters (`Alters`), so after all of them, in any order, every parameter stands in the lines that are used again (`OrderRewritten`); the old lines that are left over become empty, and thinning out empty lines keeps the order of the rest (`ContentFacts`, `StandsThinned`, `OthersOfContent`). A start of such a file follows the run of the load: after the last line of a parameter nothing sets it, unless an INCLUDE does (`LoadedIsWritten`), and save points are added up from the first (`SaveIsLoaded`). A second rewrite writes in each line what it says (`SameLine`), leaves no old line over (`OrderSettles`) and finds no empty lines to drop (`ContentSettles`). Needed of the constants: an order names each parameter once, and the default of `user` is the empty one (masteruser is NULL, `C/config.c:3105`), as its rewriter writes no line for that |
| `StringProofs`, the bytes | `EncodingsComeBackCorrect` | a number is split in bytes by division, which the provers know only through its uniqueness (`DivUnique`): the bytes of a number are put together again for 1, 2, 4 and 8 of them, with the sign for the first three. Then `LengthBack`, `IntegerBack`, `StringBack` and `DoubleBack`: what is written is read with whatever follows it as the rest, and every proper beginning of it fails. That the texts a call draws have lengths the dump can hold is an assumption on the inputs (`BytesInputsAssumption`), as is the limit of a string value (`TextsAssumption`): both say that a length has 64 bits |
| `StringProofs`, the objects | `HeapSoundCorrect`, `PrivateWhenNeededCorrect`, `ReplicaFollowsCorrect`, `StoreIsMap` | the invariant `StoreInv`: objects of their types (`StoreTypes`), what a client has in its queue (`CommandsKept`), every count the number of holders (`AllCounted`), private values (`PrivateWhenNeeded`), and, while a transaction runs, that the replica would have the values of the master were it sent now what is to be propagated (`WillFollow`). It is this that an argument in the queue must keep its text for: an object that a command changes in place has one holder, its key, by the counts. Each command is followed through the objects to what it `Does` to the values, and the sums over the places that hold an object, over queues of any length, to what it does to the counts. The refinement is the same facts once more, action by action; a restart reads back what it wrote by `StringBack` |

They hold for every value of the constants that the named ASSUMEs admit; TLC
evaluates those in every run. The finite instances were checked first, and the
strengthened invariants with them.

Only model-checked:

- `TimerStops`, `CallsReturn`, `RandomKeyEnds` and `ChildrenEnd`, liveness properties under
  fairness, for which the provers have no rule;
- of ServerFunctions `KeysAreFound` (about a table of commands that is finite and
  fixed: the check is complete).

`IdleSurvivesReload` says nothing of an idle time of the clock's full period
(194 days), which is loaded as zero. `FileIsWhole` supposes that the lines an
INCLUDE names do not change, and that an operator leaves a file that loads.

## 5. Not modelled, and the plan

Next, in `Keyspace`: the exchange of the databases after a diskless load
(`swapMainDbWithTempDb()`), and SCAN with a cursor over several calls, which
needs the buckets of a dictionary (`dict.c` is not in the repository).

Not modelled:

- the encodings of lists, sets, hashes, sorted sets, streams and modules in a
  dump (`C/rdb.c:814-1115, 1718-2868`) and their duplication and release in
  `object.c`: they call the containers' own code, which is not in the
  repository, element by element;
- the memory report (`C/object.c:1021-1446, 1551-1722`): a walk over representations whose
  result is an estimate, with no property to hold it to;
- CONFIG GET, the tables of parameters and the formats of their values
  (`C/config.c:40-290, 3051-3365`), modules, Sentinel and TLS: declarations, or
  code whose other half is elsewhere;
- the structures of `server.h` that nothing in the six files uses;
- the key statistics of the application's server, a read-modify-write of
  statistics keys that no controller reaches in this version;
- the deployment files and the measurement, which have no state of the program.
