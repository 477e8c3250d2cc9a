------------------------------ MODULE Eviction ------------------------------
(***************************************************************************)
(* performEvictions() of evict.c on the keyspace, with its two callers:    *)
(* the processing of a command, which may then change the keyspace or the  *)
(* configuration, and the time event evictionTimeProc(), which is started  *)
(* when a call runs out of time.  The main thread does one thing at a      *)
(* time; the lazyfree thread releases memory at any moment.                *)
(*                                                                         *)
(* The candidate pool is that of module EvictionPool.  Memory is counted   *)
(* in values: one for each key, one for each value handed to the lazyfree  *)
(* thread, and the rest of what the maxmemory directive counts.            *)
(***************************************************************************)
EXTENDS Integers, FiniteSets

CONSTANTS Keys, NULL, PoolSize, IdleRanks, ScoreRanks,  \* as in EvictionPool
          DbNum,       \* server.dbnum
          DbOf,        \* the database of each key
          UIntRange,   \* 2^32, the values of an unsigned int
          Policies,    \* the values of maxmemory-policy in use
          Limits,      \* the values of maxmemory in use, 0 for no limit
          MaxSamples,  \* server.maxmemory_samples
          CheckEvery,  \* the 16 keys between two looks at the clock
          MaxLazy,     \* bound on the values waiting for the lazyfree thread
          MaxOther     \* bound on the rest of the memory

KnownPolicies ==
  {"volatile-lru", "volatile-lfu", "volatile-random", "volatile-ttl", "allkeys-lru",
   "allkeys-lru-histogram", "allkeys-lfu", "allkeys-random", "noeviction"}

ASSUME EvictionAssumption ==
  /\ IsFiniteSet(Keys)
  /\ DbNum \in Nat \ {0} /\ DbOf \in [Keys -> 0 .. DbNum - 1]
  /\ UIntRange \in Nat /\ DbNum < UIntRange
  /\ Policies \subseteq KnownPolicies /\ Limits \subseteq Nat
  /\ MaxSamples \in Nat \ {0} /\ CheckEvery \in Nat \ {0} /\ MaxOther \in Nat
  /\ MaxLazy \in Nat
ASSUME PoolAssumption ==
  /\ PoolSize \in Nat \ {0} /\ NULL \notin Keys
  /\ IdleRanks \subseteq Nat /\ 0 \in IdleRanks
  /\ ScoreRanks \subseteq Int /\ 0 \in ScoreRanks

VARIABLES
  dict, expires,   \* the keys of all databases, and those with an expire
  pool,            \* EvictionPoolLRU
  lazy,            \* values the lazyfree thread has still to release
  other,           \* the rest of the memory that counts
  policy, maxmemory, lazyfree,  \* configuration; lazyfree-lazy-eviction
  paused,          \* isSafeToPerformEvictions() would return 0
  timer,           \* isEvictionProcRunning
  nextDb,          \* next_db, an unsigned int that wraps
  caller,          \* who called performEvictions()
  pc,              \* where the main thread is
  tofree, freed,   \* mem_tofree and mem_freed of the call
  count,           \* keys_freed modulo CheckEvery
  todo, best,      \* sampled keys not yet in the pool; bestkey
  result,          \* what the call returns
  grown            \* memory allocated since the call began (history)

keyspace == <<dict, expires, lazy, other>>
config == <<policy, maxmemory, lazyfree, paused>>
frame == <<tofree, freed, count, todo, best, grown>>
vars == <<keyspace, config, frame, pool, timer, nextDb, caller, pc, result>>

-----------------------------------------------------------------------------
AllKeys(p) == p \in {"allkeys-lru", "allkeys-lru-histogram", "allkeys-lfu",
                     "allkeys-random"}
AtRandom(p) == p \in {"allkeys-random", "volatile-random"}
RankField == IF policy = "allkeys-lru-histogram" THEN "score" ELSE "idle"

P == INSTANCE EvictionPool WITH policy <- RankField

\* The dictionary the policy takes its keys from.
Evictable == IF AllKeys(policy) THEN dict ELSE expires
Dbs == 0 .. DbNum - 1
InDb(S, d) == {k \in S : DbOf[k] = d}

Used == Cardinality(dict) + lazy + other

\* getMaxmemoryState() = C_ERR
Over == maxmemory # 0 /\ Used > maxmemory

-----------------------------------------------------------------------------
Init ==
  /\ dict = {} /\ expires = {} /\ lazy = 0 /\ other = 0
  /\ pool = [k \in P!Slots |-> P!EmptyEntry]
  /\ policy \in Policies /\ maxmemory \in Limits /\ lazyfree \in BOOLEAN
  /\ paused = FALSE /\ timer = FALSE /\ nextDb = 0
  /\ caller = "none" /\ pc = "idle" /\ result = "OK"
  /\ tofree = 0 /\ freed = 0 /\ count = 0 /\ todo = {} /\ best = NULL /\ grown = 0

(* performEvictions(), step by step. *)

Returns(r) == pc' = "return" /\ result' = r

\* mem_tofree, when the memory is over the limit.
ToFree == Used - maxmemory

\* The checks before the loop.
Call(c) ==
  /\ pc = "idle"
  /\ c = "timer" => timer
  /\ caller' = c
  /\ IF paused \/ ~Over THEN Returns("OK") /\ tofree' = 0
     ELSE IF policy = "noeviction" THEN Returns("FAIL") /\ tofree' = 0
     ELSE pc' = "loop" /\ tofree' = ToFree /\ UNCHANGED result
  /\ UNCHANGED <<keyspace, config, pool, timer, nextDb, freed, count, todo, best,
                 grown>>

Finished == IF timer' THEN "RUNNING" ELSE "OK"

\* mem_freed has reached mem_tofree.
LoopEnds ==
  /\ pc = "loop" /\ freed >= tofree
  /\ UNCHANGED timer
  /\ Returns(Finished)
  /\ UNCHANGED <<keyspace, config, frame, pool, nextDb, caller>>

\* Mutant of Turns: the loop over the databases stops one early.
TurnsShort == 1 .. DbNum - 1

\* The random policies look at one database in each turn of a round.  The
\* counter goes on from the round before and wraps before the modulo is
\* taken: if DbNum does not divide UIntRange, the round in which it wraps
\* sees some databases twice and others not at all.
Turns == 1 .. DbNum
Advanced(i) == (nextDb + i) % UIntRange
Visits(i) == Advanced(i) % DbNum
Offers(i) == InDb(Evictable, Visits(i)) # {}

Exhausted == IF AtRandom(policy) THEN \A i \in Turns : ~Offers(i) ELSE Evictable = {}

NothingLeft ==
  /\ pc = "loop" /\ freed < tofree /\ Exhausted
  /\ pc' = "wait"
  /\ nextDb' = IF AtRandom(policy) THEN Advanced(DbNum) ELSE nextDb
  /\ UNCHANGED <<keyspace, config, frame, pool, timer, caller, result>>

\* Some keys of every database are sampled.  In a sparse dictionary
\* dictGetSomeKeys() may give up before it finds one.
Sample ==
  /\ pc = "loop" /\ freed < tofree /\ ~AtRandom(policy) /\ Evictable # {}
  /\ \E S \in SUBSET Evictable :
       /\ \A d \in Dbs : Cardinality(InDb(S, d)) <= MaxSamples
       /\ todo' = S
  /\ pc' = IF todo' = {} THEN "scan" ELSE "populate"
  /\ UNCHANGED <<keyspace, config, pool, timer, nextDb, caller, result,
                 tofree, freed, count, best, grown>>

\* They enter the pool, database by database.
Populate ==
  /\ pc = "populate"
  /\ UNCHANGED config
  /\ \E key \in todo, r \in P!Ranks(RankField) :
       /\ \A later \in todo : DbOf[key] <= DbOf[later]
       /\ P!Insert(key, r)
       /\ todo' = todo \ {key}
  /\ pc' = IF todo' = {} THEN "scan" ELSE "populate"
  /\ UNCHANGED <<keyspace, timer, nextDb, caller, result,
                 tofree, freed, count, best, grown>>

\* Mutant of Found: the key is looked up in the dictionary of all keys.
FoundInDict(key) == key \in dict

\* dictFind() in the dictionary of the policy.
Found(key) == key \in Evictable

\* Mutant of Scan: an entry leaves the pool only if its key is found.
ScanKeepsGhosts ==
  /\ pc = "scan"
  /\ UNCHANGED config
  /\ LET live == {k \in P!Candidates(pool) : Found(pool[k].key)} IN
       \/ /\ live = {} /\ pc' = "loop" /\ UNCHANGED <<pool, best>>
       \/ \E k \in live :
            /\ \A l \in live : l <= k
            /\ pool' = [pool EXCEPT ![k] = P!EmptyEntry]
            /\ best' = pool[k].key /\ pc' = "delete"
  /\ UNCHANGED <<keyspace, timer, nextDb, caller, result,
                 tofree, freed, count, todo, grown>>

\* The best entry leaves the pool; a ghost is passed over.
Scan ==
  /\ pc = "scan"
  /\ UNCHANGED config
  /\ P!TakeBest
  /\ \E k \in P!Slots :
       /\ P!BestSlot(pool, k)
       /\ IF Found(pool[k].key) THEN best' = pool[k].key /\ pc' = "delete"
                                ELSE UNCHANGED <<best, pc>>
  /\ UNCHANGED <<keyspace, timer, nextDb, caller, result,
                 tofree, freed, count, todo, grown>>

\* No candidate, or only ghosts: sample again.
ScanEnds ==
  /\ pc = "scan" /\ P!Candidates(pool) = {}
  /\ pc' = "loop"
  /\ UNCHANGED <<keyspace, config, frame, pool, timer, nextDb, caller, result>>

\* One database after the other, up to the first that has a key.
PickRandom ==
  /\ pc = "loop" /\ freed < tofree /\ AtRandom(policy)
  /\ \E i \in Turns :
       /\ Offers(i) /\ \A j \in Turns : j < i => ~Offers(j)
       /\ best' \in InDb(Evictable, Visits(i))
       /\ nextDb' = Advanced(i)
  /\ pc' = "delete"
  /\ UNCHANGED <<keyspace, config, pool, timer, caller, result,
                 tofree, freed, count, todo, grown>>

\* Mutant of Delta: a value handed to the lazyfree thread counts as freed.
DeltaOfLazy(async, released) == released + 1

\* What zmalloc_used_memory() loses across dbGenericDelete(): the value,
\* unless it goes to the lazyfree thread, and what that thread releases in
\* the meantime.
Delta(async, released) == released + (IF async THEN 0 ELSE 1)

\* The key is deleted, then the deletion is signalled and propagated.  What
\* that allocates is not in the delta.
DeleteBest ==
  /\ pc = "delete"
  /\ dict' = dict \ {best} /\ expires' = expires \ {best}
  /\ \E async \in (IF lazyfree THEN BOOLEAN ELSE {FALSE}), released \in 0 .. lazy :
       /\ async => lazy - released < MaxLazy
       /\ lazy' = lazy - released + (IF async THEN 1 ELSE 0)
       /\ freed' = freed + Delta(async, released)
  /\ \E n \in {0, 1} : /\ other + n <= MaxOther
                       /\ other' = other + n /\ grown' = grown + n
  /\ best' = NULL
  /\ count' = (count + 1) % CheckEvery
  /\ pc' = IF count' = 0 THEN "clock" ELSE "loop"
  /\ UNCHANGED <<config, pool, timer, nextDb, caller, result, tofree, todo>>

\* Every CheckEvery keys: enough memory, no more time, or neither.
Enough == /\ pc = "clock" /\ lazyfree /\ ~Over
          /\ UNCHANGED timer
          /\ Returns(Finished)
          /\ UNCHANGED <<keyspace, config, frame, pool, nextDb, caller>>

\* Mutant of OutOfTime: the time event is not started.
OutOfTimeSilent == /\ pc = "clock" /\ ~(lazyfree /\ ~Over)
                   /\ UNCHANGED timer
                   /\ Returns(Finished)
                   /\ UNCHANGED <<keyspace, config, frame, pool, nextDb, caller>>

OutOfTime == /\ pc = "clock" /\ ~(lazyfree /\ ~Over)
             /\ timer' = TRUE
             /\ Returns(Finished)
             /\ UNCHANGED <<keyspace, config, frame, pool, nextDb, caller>>

MoreTime == /\ pc = "clock" /\ ~(lazyfree /\ ~Over)
            /\ pc' = "loop"
            /\ UNCHANGED <<keyspace, config, frame, pool, timer, nextDb, caller, result>>

\* Nothing to evict: wait for the lazyfree thread, while it has work and
\* there is time.
WaitEnds == /\ pc = "wait" /\ lazy > 0 /\ ~Over
            /\ Returns("OK")
            /\ UNCHANGED <<keyspace, config, frame, pool, timer, nextDb, caller>>

GiveUp == /\ pc = "wait"
          /\ Returns("FAIL")
          /\ UNCHANGED <<keyspace, config, frame, pool, timer, nextDb, caller>>

-----------------------------------------------------------------------------
(* The lazyfree thread. *)
LazyFree ==
  /\ lazy > 0 /\ lazy' = lazy - 1
  /\ UNCHANGED <<dict, expires, other, config, frame, pool, timer, nextDb, caller, pc,
                 result>>

(* The callers.  The locals of the call are gone. *)

CallEnds == /\ pc' = "idle" /\ caller' = "none" /\ result' = "OK"
            /\ tofree' = 0 /\ freed' = 0 /\ count' = 0 /\ grown' = 0
            /\ UNCHANGED <<todo, best>>

\* Mutant of TimerReturns: the time event goes on after EVICT_FAIL too.
TimerReturnsOnFail ==
  /\ pc = "return" /\ caller = "timer"
  /\ timer' = (result # "OK")
  /\ CallEnds
  /\ UNCHANGED <<keyspace, config, pool, nextDb>>

\* Mutant of TimerReturns: the time event always stops.
TimerReturnsOnce ==
  /\ pc = "return" /\ caller = "timer"
  /\ timer' = FALSE
  /\ CallEnds
  /\ UNCHANGED <<keyspace, config, pool, nextDb>>

\* The end of evictionTimeProc().
TimerReturns ==
  /\ pc = "return" /\ caller = "timer"
  /\ timer' = (result = "RUNNING")
  /\ CallEnds
  /\ UNCHANGED <<keyspace, config, pool, nextDb>>

\* The command runs: a write unless the call failed, any other command in
\* any case.  A removal is also what the expire cycle does.
Command ==
  /\ pc = "return" /\ caller = "command"
  /\ CallEnds
  /\ UNCHANGED <<lazy, other, lazyfree, paused, pool, nextDb>>

Write(key, expire) ==
  /\ Command /\ result # "FAIL"
  /\ dict' = dict \cup {key}
  /\ expires' = IF expire THEN expires \cup {key} ELSE expires \ {key}
  /\ UNCHANGED <<policy, maxmemory, timer>>

Remove(key) ==
  /\ Command
  /\ dict' = dict \ {key} /\ expires' = expires \ {key}
  /\ UNCHANGED <<policy, maxmemory, timer>>

ChangeExpire(key) ==
  /\ Command /\ key \in dict
  /\ \/ expires' = expires \cup {key}
     \/ expires' = expires \ {key}
  /\ UNCHANGED <<dict, policy, maxmemory, timer>>

SetPolicy(p) ==
  /\ Command /\ policy' = p
  /\ UNCHANGED <<dict, expires, maxmemory, timer>>

\* updateMaxmemory() starts the time event.
SetMaxmemory(m) ==
  /\ Command /\ maxmemory' = m
  /\ timer' = (timer \/ m # 0)
  /\ UNCHANGED <<dict, expires, policy>>

\* Client buffers, hash tables and scripts come and go.
OtherMemory(n) ==
  /\ pc = "idle" /\ other' = n
  /\ UNCHANGED <<dict, expires, lazy, config, frame, pool, timer, nextDb, caller, pc,
                 result>>

\* A script runs late, a dump is loaded, the server becomes a replica or
\* CLIENT PAUSE stops the evictions; or that is over.
PauseOrResume ==
  /\ pc = "idle" /\ paused' = ~paused
  /\ UNCHANGED <<keyspace, policy, maxmemory, lazyfree, frame, pool, timer, nextDb,
                 caller, pc, result>>

Perform == \/ LoopEnds \/ NothingLeft \/ Sample \/ Populate \/ Scan \/ ScanEnds
           \/ PickRandom \/ DeleteBest \/ Enough \/ OutOfTime \/ MoreTime
           \/ WaitEnds \/ GiveUp

RunCommand == \/ \E key \in Keys, expire \in BOOLEAN : Write(key, expire)
              \/ \E key \in Keys : Remove(key) \/ ChangeExpire(key)
              \/ \E p \in Policies : SetPolicy(p)
              \/ \E m \in Limits : SetMaxmemory(m)

Next == \/ \E c \in {"command", "timer"} : Call(c)
        \/ Perform
        \/ TimerReturns
        \/ RunCommand
        \/ LazyFree
        \/ \E n \in 0 .. MaxOther : OtherMemory(n)
        \/ PauseOrResume

Spec == Init /\ [][Next]_vars

\* The event loop finishes what it runs and processes time events in every
\* cycle, whatever the clients send.  Sampling starts at a random bucket: it
\* does not miss every key of a dictionary for ever.
SampleFinds == Sample /\ todo' # {}
Fairness == /\ WF_vars(Perform) /\ WF_vars(TimerReturns) /\ WF_vars(RunCommand)
            /\ SF_vars(Call("timer")) /\ SF_vars(SampleFinds)

FairSpec == Spec /\ Fairness

-----------------------------------------------------------------------------
TypeOK ==
  /\ dict \subseteq Keys /\ expires \subseteq Keys
  /\ pool \in [P!Slots -> P!Entries]
  /\ lazy \in 0 .. MaxLazy /\ other \in 0 .. MaxOther
  /\ policy \in Policies /\ maxmemory \in Limits
  /\ lazyfree \in BOOLEAN /\ paused \in BOOLEAN /\ timer \in BOOLEAN
  /\ nextDb \in 0 .. UIntRange - 1
  /\ caller \in {"none", "command", "timer"}
  /\ pc \in {"idle", "loop", "populate", "scan", "delete", "clock", "wait", "return"}
  /\ tofree \in Nat /\ freed \in Nat /\ count \in 0 .. CheckEvery - 1
  /\ todo \subseteq Keys /\ best \in Keys \cup {NULL}
  /\ result \in {"OK", "RUNNING", "FAIL"}
  /\ grown \in Nat

(***************************************************************************)
(* The key an eviction deletes is one the policy allows: under a volatile  *)
(* policy it has an expire when it is deleted, although the pool may name  *)
(* it from an earlier call, under another policy or before PERSIST.        *)
(***************************************************************************)
EvictsOnlyEvictable ==
  [][DeleteBest => best \in dict /\ (AllKeys(policy) \/ best \in expires)]_vars

\* The databases that a round under a random policy has not seen.  The
\* counter passed its largest value in that round and went on from 0 to
\* nextDb; none of the DbNum values it took leads to the database.
SeenByRound(d) ==
  \E n \in 0 .. UIntRange - 1 :
    (n <= nextDb \/ n > nextDb + UIntRange - DbNum) /\ n % DbNum = d
Missed(d) == AtRandom(policy) /\ nextDb < DbNum - 1 /\ ~SeenByRound(d)

NothingToEvict == \A key \in Evictable : Missed(DbOf[key])

(***************************************************************************)
(* Commands are refused only when there is nothing to evict in any         *)
(* database (or the policy forbids it).  The exception is a round in which *)
(* next_db wraps: it may miss a database, and then only the keys of that   *)
(* database are left.                                                      *)
(***************************************************************************)
FailMeansNothingToEvict ==
  pc = "return" /\ result = "FAIL" => policy = "noeviction" \/ NothingToEvict

(***************************************************************************)
(* mem_freed is memory really released: when it has reached mem_tofree the *)
(* memory in use is within the limit, but for what was allocated since the *)
(* call began.                                                             *)
(***************************************************************************)
FreedIsReleased ==
  pc \notin {"idle", "return"} => Used + freed <= maxmemory + tofree + grown

(***************************************************************************)
(* A call that leaves the memory over the limit, not counting what grew,   *)
(* and keys to evict that its last round could see, leaves the time event  *)
(* running (unless it did nothing because evictions are not safe).         *)
(***************************************************************************)
WorkIsContinued ==
  pc = "return" /\ ~paused /\ policy # "noeviction" /\ maxmemory # 0
    /\ Used > maxmemory + grown /\ ~NothingToEvict => timer

(***************************************************************************)
(* Unless evictions are not safe, the time event stops only when the       *)
(* memory is within the limit or there is nothing to evict, whatever       *)
(* commands and the lazyfree thread did since it started; again but for    *)
(* the keys of a database that the last round missed.                      *)
(***************************************************************************)
TimerStopsWhenDone ==
  [][timer /\ ~timer' /\ ~paused =>
       ~Over \/ NothingToEvict \/ policy = "noeviction"]_vars

(***************************************************************************)
(* Once nothing adds memory or changes the configuration any more, the     *)
(* time event does not spin for ever.                                      *)
(***************************************************************************)
Quiet == /\ dict' \subseteq dict /\ other' <= other
         /\ UNCHANGED <<policy, maxmemory>>
TimerStops == <>[][Quiet]_vars => []<>~timer

(***************************************************************************)
(* A call of performEvictions() returns, whatever the pool holds.  The     *)
(* loop has no bound of its own: it samples until a key is found, and a    *)
(* pool full of keys that are gone, with better ranks than the living,     *)
(* must not keep the living out for ever.                                  *)
(***************************************************************************)
CallsReturn == []<>(pc = "idle")
=============================================================================
