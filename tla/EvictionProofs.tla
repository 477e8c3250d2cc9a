--------------------------- MODULE EvictionProofs ---------------------------
(***************************************************************************)
(* Proofs about performEvictions(), its callers and the lazyfree thread:   *)
(* every invariant and action property of the runs.  Liveness is left to   *)
(* TLC.                                                                    *)
(***************************************************************************)
EXTENDS Eviction, FiniteSetTheorems, TLAPS

USE EvictionAssumption, PoolAssumption

-----------------------------------------------------------------------------
(* The pool keeps its type. *)

Pools == [P!Slots -> P!Entries]

LEMMA FilledTyped ==
  ASSUME NEW e \in P!Entries, NEW f, NEW key \in Keys, NEW r \in P!Ranks(f)
  PROVE  P!Filled(e, f, key, r) \in P!Entries
  BY DEF P!Filled, P!Entries, P!Ranks

LEMMA InsertTyped ==
  ASSUME pool \in Pools, NEW key \in Keys, NEW r \in P!Ranks(RankField),
         P!Insert(key, r)
  PROVE  pool' \in Pools
<1>1. PICK k \in 0 .. PoolSize :
        pool' = P!Inserted(pool, RankField, k, key, r)
  BY DEF P!Insert
<1>2. \A e \in P!Entries : P!Filled(e, RankField, key, r) \in P!Entries
  BY FilledTyped
<1>3. /\ \A i \in P!Slots : pool[i] \in P!Entries
      /\ P!ShiftRight(pool, k) \in Pools
  BY DEF P!ShiftRight, P!Slots, Pools
<1>4. k - 1 \in P!Slots => P!ShiftLeft(pool, k - 1) \in Pools
  BY DEF P!ShiftLeft, P!Slots, Pools
<1>5. CASE P!Rejects(pool, k)
  BY <1>1, <1>5 DEF P!Inserted
<1>6. CASE ~P!Rejects(pool, k) /\ k \in P!Slots /\ ~P!Occupied(pool, k)
  <2>1. pool' = [pool EXCEPT ![k] = P!Filled(pool[k], RankField, key, r)]
    BY <1>1, <1>6 DEF P!Inserted
  <2> QED
    BY <1>2, <1>3, <1>6, <2>1 DEF Pools
<1>7. CASE /\ ~P!Rejects(pool, k) /\ ~(k \in P!Slots /\ ~P!Occupied(pool, k))
           /\ ~P!Occupied(pool, P!LastSlot)
  <2>1. pool' = [P!ShiftRight(pool, k)
                   EXCEPT ![k] = P!Filled(pool[k], RankField, key, r)]
    BY <1>1, <1>7 DEF P!Inserted
  <2>2. CASE k \in P!Slots
    BY <1>2, <1>3, <2>1, <2>2 DEF Pools
  <2>3. CASE k \notin P!Slots
    <3>1. pool' = P!ShiftRight(pool, k)
      BY <1>3, <2>1, <2>3 DEF P!ShiftRight
    <3> QED
      BY <1>3, <3>1
  <2> QED
    BY <2>2, <2>3
<1>8. CASE /\ ~P!Rejects(pool, k) /\ ~(k \in P!Slots /\ ~P!Occupied(pool, k))
           /\ P!Occupied(pool, P!LastSlot)
  <2>1. pool' = [P!ShiftLeft(pool, k - 1)
                   EXCEPT ![k - 1] = P!Filled(pool[k - 1], RankField, key, r)]
    BY <1>1, <1>8 DEF P!Inserted
  <2>2. k - 1 \in P!Slots
    BY <1>8 DEF P!Rejects, P!Slots
  <2> QED
    BY <1>2, <1>3, <1>4, <2>1, <2>2 DEF Pools
<1> QED
  BY <1>5, <1>6, <1>7, <1>8

LEMMA TakeTyped ==
  ASSUME pool \in Pools, P!TakeBest
  PROVE  pool' \in Pools
<1>1. P!EmptyEntry \in P!Entries
  BY DEF P!EmptyEntry, P!Entries
<1> QED
  BY <1>1 DEF P!TakeBest, Pools

-----------------------------------------------------------------------------
(* The memory. *)

LEMMA KeysCounted == ASSUME dict \subseteq Keys PROVE Cardinality(dict) \in Nat
  BY FS_Subset, FS_CardinalityType

LEMMA UsedCounted == ASSUME TypeOK PROVE Used \in Nat /\ maxmemory \in Nat
<1>1. dict \subseteq Keys /\ lazy \in Nat /\ other \in Nat /\ maxmemory \in Nat
  BY DEF TypeOK
<1> QED
  BY <1>1, KeysCounted DEF Used

LEMMA KeyRemoved ==
  ASSUME TypeOK, best \in dict, dict' = dict \ {best}
  PROVE  Cardinality(dict') = Cardinality(dict) - 1 /\ Cardinality(dict) \in Nat
<1>1. IsFiniteSet(dict)
  BY FS_Subset DEF TypeOK
<1> QED
  BY <1>1, FS_RemoveElement, FS_CardinalityType

\* Arithmetic modulo: a round of the databases.
LEMMA SmallRemainder ==
  ASSUME NEW n \in Nat \ {0}, NEW q \in Int, NEW m \in 0 .. n - 1,
         NEW a \in 0 .. n - 1, a = n * q + m
  PROVE  a = m
<1>1. ASSUME q >= 1 PROVE FALSE
  <2>1. n * q >= n
    BY <1>1
  <2> QED
    BY <2>1
<1>2. ASSUME q <= -1 PROVE FALSE
  <2>1. n * q <= -n
    BY <1>2
  <2> QED
    BY <2>1
<1>3. q = 0
  BY <1>1, <1>2
<1> QED
  BY <1>3

\* DbNum numbers in a row fall on every database.
LEMMA EveryRemainder ==
  ASSUME NEW n \in Nat, NEW d \in Dbs
  PROVE  \E i \in Turns : (n + i) % DbNum = d
<1> DEFINE m == n % DbNum
           q == n \div DbNum
           i == IF d > m THEN d - m ELSE d - m + DbNum
<1>1. DbNum \in Nat \ {0} /\ d \in 0 .. DbNum - 1
  BY DEF Dbs
<1>2. m \in 0 .. DbNum - 1 /\ q \in Int /\ n = DbNum * q + m
  BY <1>1
<1> HIDE DEF m, q
<1>3. i \in 1 .. DbNum /\ (m + i = d \/ m + i = d + DbNum)
  BY <1>1, <1>2
<1> HIDE DEF i
<1>4. (n + i) % DbNum = d
  <2> DEFINE l == (n + i) % DbNum
             p == (n + i) \div DbNum
  <2>1. l \in 0 .. DbNum - 1 /\ p \in Int /\ n + i = DbNum * p + l
    BY <1>1, <1>3
  <2> HIDE DEF l, p
  <2>2. /\ DbNum * (p - q) = DbNum * p - DbNum * q
        /\ DbNum * (p - q - 1) = DbNum * p - DbNum * q - DbNum
    BY <1>1, <1>2, <2>1
  <2>3. d = DbNum * (p - q) + l \/ d = DbNum * (p - q - 1) + l
    BY <1>1, <1>2, <1>3, <2>1, <2>2
  <2>4. p - q \in Int /\ p - q - 1 \in Int
    BY <1>2, <2>1
  <2>5. l = d
    BY <1>1, <2>1, <2>3, <2>4, SmallRemainder
  <2> QED
    BY <2>5 DEF l
<1> QED
  BY <1>3, <1>4 DEF Turns

\* What the counter is after some turns of one round.
LEMMA Advances ==
  ASSUME nextDb \in 0 .. UIntRange - 1, NEW i \in Turns
  PROVE  /\ Advanced(i) \in 0 .. UIntRange - 1
         /\ Advanced(i) = IF nextDb + i < UIntRange THEN nextDb + i
                                                   ELSE nextDb + i - UIntRange
<1> DEFINE m == (nextDb + i) % UIntRange
           q == (nextDb + i) \div UIntRange
           e == IF nextDb + i < UIntRange THEN nextDb + i ELSE nextDb + i - UIntRange
<1>1. UIntRange \in Nat \ {0} /\ i \in 1 .. UIntRange - 1
  BY DEF Turns
<1>2. m \in 0 .. UIntRange - 1 /\ q \in Int /\ nextDb + i = UIntRange * q + m
  BY <1>1
<1>3. e \in 0 .. UIntRange - 1 /\ (nextDb + i = e \/ nextDb + i = e + UIntRange)
  BY <1>1
<1> HIDE DEF m, q, e
<1>4. UIntRange * (q - 1) = UIntRange * q - UIntRange
  BY <1>1, <1>2
<1>5. e = UIntRange * q + m \/ e = UIntRange * (q - 1) + m
  BY <1>1, <1>2, <1>3, <1>4
<1>6. e = m
  BY <1>1, <1>2, <1>3, <1>5, SmallRemainder
<1> QED
  BY <1>2, <1>6 DEF m, e, Advanced

\* A fruitless round leaves only keys of databases it missed.
LEMMA FruitlessRound ==
  ASSUME TypeOK, AtRandom(policy), nextDb' = Advanced(DbNum), policy' = policy,
         NEW d \in Dbs, \A i \in Turns : Visits(i) # d
  PROVE  Missed(d)'
<1>1. /\ nextDb \in 0 .. UIntRange - 1 /\ d \in 0 .. DbNum - 1
      /\ DbNum \in Nat \ {0} /\ UIntRange \in Nat /\ DbNum < UIntRange
      /\ DbNum \in Turns
  BY DEF TypeOK, Dbs, Turns
<1>2. nextDb + DbNum >= UIntRange
  <2> SUFFICES ASSUME nextDb + DbNum < UIntRange PROVE FALSE
    BY <1>1
  <2>0. nextDb \in Nat /\ d \in Dbs
    BY <1>1
  <2>1. PICK i \in Turns : (nextDb + i) % DbNum = d
    BY <2>0, EveryRemainder, Zenon
  <2>2. i \in 1 .. DbNum
    BY <2>1 DEF Turns
  <2>3. nextDb + i < UIntRange
    BY <1>1, <2>2
  <2>4. Advanced(i) = nextDb + i
    BY <1>1, <2>1, <2>3, Advances
  <2> QED
    BY <2>1, <2>4 DEF Visits
<1>3. nextDb' = nextDb + DbNum - UIntRange
  BY <1>1, <1>2, Advances
<1>4. ASSUME NEW n \in 0 .. UIntRange - 1,
             n <= nextDb' \/ n > nextDb' + UIntRange - DbNum
      PROVE  n % DbNum # d
  <2>1. CASE n <= nextDb'
    <3>1. n + UIntRange - nextDb \in Turns
      BY <1>1, <1>3, <2>1 DEF Turns
    <3>2. Advanced(n + UIntRange - nextDb) = n
      BY <1>1, <3>1, Advances
    <3> QED
      BY <3>1, <3>2 DEF Visits
  <2>2. CASE n > nextDb
    <3>1. n - nextDb \in Turns
      BY <1>1, <1>2, <2>2 DEF Turns
    <3>2. Advanced(n - nextDb) = n
      BY <1>1, <3>1, Advances
    <3> QED
      BY <3>1, <3>2 DEF Visits
  <2> QED
    BY <1>1, <1>3, <1>4, <2>1, <2>2
<1>5. nextDb' < DbNum - 1
  <2> SUFFICES ASSUME nextDb' >= DbNum - 1 PROVE FALSE
    BY <1>1, <1>3
  <2>1. d \in 0 .. UIntRange - 1 /\ d <= nextDb'
    BY <1>1, <1>3
  <2>2. d % DbNum = d
    BY <1>1
  <2> QED
    BY <1>4, <2>1, <2>2
<1> QED
  BY <1>4, <1>5 DEF Missed, SeenByRound

LEMMA ExhaustedMeansMissed ==
  ASSUME TypeOK, NothingLeft
  PROVE  NothingToEvict'
<1> USE DEF keyspace, config
<1>1. Evictable \subseteq Keys /\ Evictable' = Evictable /\ policy' = policy
  BY DEF TypeOK, Evictable, NothingLeft
<1>2. CASE ~AtRandom(policy)
  BY <1>1, <1>2 DEF NothingLeft, Exhausted, NothingToEvict
<1>3. CASE AtRandom(policy)
  <2>1. ASSUME NEW k \in Evictable PROVE Missed(DbOf[k])'
    <3>1. DbOf[k] \in Dbs /\ k \in InDb(Evictable, DbOf[k])
      BY <1>1 DEF Dbs, InDb
    <3>2. \A i \in Turns : Visits(i) # DbOf[k]
      BY <1>3, <3>1 DEF NothingLeft, Exhausted, Offers
    <3>3. nextDb' = Advanced(DbNum)
      BY <1>3 DEF NothingLeft
    <3> QED
      BY <1>1, <1>3, <3>1, <3>2, <3>3, FruitlessRound
  <2> QED
    BY <1>1, <2>1 DEF NothingToEvict
<1> QED
  BY <1>2, <1>3

\* The exception has an end: a counter whose range DbNum divides misses no
\* database.
LEMMA DivisorMissesNone ==
  ASSUME TypeOK, UIntRange % DbNum = 0, NEW d \in Dbs
  PROVE  ~Missed(d)
<1> SUFFICES ASSUME nextDb < DbNum - 1 PROVE SeenByRound(d)
  BY DEF Missed
<1>1. /\ nextDb \in 0 .. UIntRange - 1 /\ d \in 0 .. DbNum - 1
      /\ DbNum \in Nat \ {0} /\ UIntRange \in Nat /\ DbNum < UIntRange
  BY DEF TypeOK, Dbs
<1>2. CASE d <= nextDb
  <2>1. d % DbNum = d /\ d \in 0 .. UIntRange - 1
    BY <1>1
  <2> QED
    BY <1>2, <2>1 DEF SeenByRound
<1>3. CASE d > nextDb
  <2> DEFINE n == UIntRange - DbNum + d
             m == n % DbNum
             q == n \div DbNum
             u == UIntRange \div DbNum
  <2>1. n \in 0 .. UIntRange - 1 /\ n > nextDb + UIntRange - DbNum
    BY <1>1, <1>3
  <2>2. UIntRange = DbNum * u /\ u \in Int
    BY <1>1
  <2>3. m \in 0 .. DbNum - 1 /\ q \in Int /\ n = DbNum * q + m
    BY <1>1, <2>1
  <2>4. n = UIntRange - DbNum + d
    OBVIOUS
  <2> HIDE DEF n, m, q, u
  <2>5. DbNum * (q - u + 1) = DbNum * q - DbNum * u + DbNum
    BY <1>1, <2>2, <2>3
  <2>6. d = DbNum * (q - u + 1) + m
    BY <1>1, <2>2, <2>3, <2>4, <2>5
  <2>7. m = d
    BY <1>1, <2>2, <2>3, <2>6, SmallRemainder
  <2> QED
    BY <2>1, <2>7 DEF SeenByRound, m
<1> QED
  BY <1>1, <1>2, <1>3

-----------------------------------------------------------------------------
(* Type correctness. *)

LEMMA TypeInit == Init => TypeOK
<1> SUFFICES ASSUME Init PROVE TypeOK
  OBVIOUS
<1>1. P!EmptyEntry \in P!Entries
  BY DEF P!EmptyEntry, P!Entries
<1>2. pool \in [P!Slots -> P!Entries]
  BY <1>1 DEF Init
<1>3. nextDb \in 0 .. UIntRange - 1 /\ count \in 0 .. CheckEvery - 1
  BY DEF Init
<1>4. lazy \in 0 .. MaxLazy /\ other \in 0 .. MaxOther
  BY DEF Init
<1>5. policy \in Policies /\ maxmemory \in Limits /\ lazyfree \in BOOLEAN
  BY DEF Init
<1>6. paused \in BOOLEAN /\ timer \in BOOLEAN
  BY DEF Init
<1>7. dict \subseteq Keys /\ expires \subseteq Keys /\ todo \subseteq Keys
  BY DEF Init
<1>8. /\ caller \in {"none", "command", "timer"}
      /\ pc \in {"idle", "loop", "populate", "scan", "delete", "clock", "wait", "return"}
      /\ result \in {"OK", "RUNNING", "FAIL"}
  BY DEF Init
<1>9. tofree \in Nat /\ freed \in Nat /\ grown \in Nat /\ best \in Keys \cup {NULL}
  BY DEF Init
<1> QED
  BY <1>2, <1>3, <1>4, <1>5, <1>6, <1>7, <1>8, <1>9 DEF TypeOK

LEMMA TypeStep == TypeOK /\ [Next]_vars => TypeOK'
<1> SUFFICES ASSUME TypeOK, [Next]_vars PROVE TypeOK'
  OBVIOUS
<1> USE DEF keyspace, config, frame
<1>1. ASSUME NEW c \in {"command", "timer"}, Call(c) PROVE TypeOK'
  <2>1. tofree' \in Nat
    BY <1>1, UsedCounted DEF Call, Over, ToFree
  <2> QED
    BY <1>1, <2>1 DEF Call, Returns, TypeOK
<1>2. ASSUME LoopEnds PROVE TypeOK'
  BY <1>2 DEF LoopEnds, Returns, Finished, TypeOK
<1>3. ASSUME NothingLeft PROVE TypeOK'
  <2>1. nextDb' \in 0 .. UIntRange - 1
    BY <1>3, Advances DEF NothingLeft, TypeOK, Turns
  <2> QED
    BY <1>3, <2>1 DEF NothingLeft, TypeOK
<1>4. ASSUME Sample PROVE TypeOK'
  BY <1>4 DEF Sample, Evictable, TypeOK
<1>5. ASSUME Populate PROVE TypeOK'
  <2>1. pool \in Pools /\ todo \subseteq Keys
    BY DEF TypeOK, Pools
  <2>2. pool' \in Pools
    BY <1>5, <2>1, InsertTyped DEF Populate
  <2> QED
    BY <1>5, <2>2 DEF Populate, TypeOK, Pools
<1>6. ASSUME Scan PROVE TypeOK'
  <2>1. pool \in Pools /\ Evictable \subseteq Keys
    BY DEF TypeOK, Pools, Evictable
  <2>2. pool' \in Pools
    BY <1>6, <2>1, TakeTyped DEF Scan
  <2>3. best' \in Keys \cup {NULL}
    BY <1>6, <2>1 DEF Scan, Found, TypeOK
  <2> QED
    BY <1>6, <2>2, <2>3 DEF Scan, TypeOK, Pools
<1>7. ASSUME ScanEnds PROVE TypeOK'
  BY <1>7 DEF ScanEnds, TypeOK
<1>8. ASSUME PickRandom PROVE TypeOK'
  <2>1. best' \in Keys /\ nextDb' \in 0 .. UIntRange - 1
    BY <1>8, Advances DEF PickRandom, InDb, Evictable, TypeOK
  <2> QED
    BY <1>8, <2>1 DEF PickRandom, TypeOK
<1>9. ASSUME DeleteBest PROVE TypeOK'
  <2>1. PICK async \in BOOLEAN, released \in 0 .. lazy :
          /\ async => lazy - released < MaxLazy
          /\ lazy' = lazy - released + (IF async THEN 1 ELSE 0)
          /\ freed' = freed + Delta(async, released)
    BY <1>9 DEF DeleteBest
  <2>2. lazy' \in 0 .. MaxLazy /\ freed' \in Nat
    BY <2>1 DEF TypeOK, Delta
  <2>3. other' \in 0 .. MaxOther /\ grown' \in Nat
    BY <1>9 DEF DeleteBest, TypeOK
  <2>4. count' \in 0 .. CheckEvery - 1
    BY <1>9 DEF DeleteBest, TypeOK
  <2> QED
    BY <1>9, <2>2, <2>3, <2>4 DEF DeleteBest, TypeOK
<1>10. ASSUME Enough \/ OutOfTime \/ MoreTime PROVE TypeOK'
  BY <1>10 DEF Enough, OutOfTime, MoreTime, Returns, Finished, TypeOK
<1>11. ASSUME WaitEnds \/ GiveUp PROVE TypeOK'
  BY <1>11 DEF WaitEnds, GiveUp, Returns, TypeOK
<1>12. ASSUME TimerReturns PROVE TypeOK'
  BY <1>12 DEF TimerReturns, CallEnds, TypeOK
<1>13. ASSUME RunCommand PROVE TypeOK'
  <2>1. dict' \subseteq Keys /\ expires' \subseteq Keys
    BY <1>13 DEF RunCommand, Write, Remove, ChangeExpire, SetPolicy, SetMaxmemory,
                 TypeOK
  <2>2. policy' \in Policies /\ maxmemory' \in Limits /\ timer' \in BOOLEAN
    BY <1>13 DEF RunCommand, Write, Remove, ChangeExpire, SetPolicy, SetMaxmemory,
                 TypeOK
  <2>3. Command
    BY <1>13 DEF RunCommand, Write, Remove, ChangeExpire, SetPolicy, SetMaxmemory
  <2> QED
    BY <2>1, <2>2, <2>3 DEF Command, CallEnds, TypeOK
<1>14. ASSUME LazyFree PROVE TypeOK'
  BY <1>14 DEF LazyFree, TypeOK
<1>15. ASSUME NEW n \in 0 .. MaxOther, OtherMemory(n) PROVE TypeOK'
  BY <1>15 DEF OtherMemory, TypeOK
<1>16. ASSUME PauseOrResume PROVE TypeOK'
  BY <1>16 DEF PauseOrResume, TypeOK
<1>17. ASSUME UNCHANGED vars PROVE TypeOK'
  BY <1>17 DEF vars, TypeOK
<1> QED
  BY <1>1, <1>2, <1>3, <1>4, <1>5, <1>6, <1>7, <1>8, <1>9, <1>10, <1>11, <1>12,
     <1>13, <1>14, <1>15, <1>16, <1>17 DEF Next, Perform

\* Whatever the policies, limits and samples, the state of an eviction cycle
\* is one the code's types allow.
THEOREM TypeCorrect == Spec => []TypeOK
  BY TypeInit, TypeStep, PTL DEF Spec

-----------------------------------------------------------------------------
(***************************************************************************)
(* The inductive invariant.  Its first parts say what each point of the    *)
(* call may rely on; the last three are invariants of the runs.            *)
(***************************************************************************)
ExpiresInDict == expires \subseteq dict
IdleFresh == pc = "idle" => freed = 0 /\ grown = 0
BestFound == pc = "delete" => best \in Evictable
WaitsForLazy == pc = "wait" => NothingToEvict
OkMeansDone == pc = "return" /\ result = "OK" /\ timer /\ ~paused => ~Over
TimerCalls == caller = "timer" => timer

IInv ==
  /\ TypeOK /\ ExpiresInDict
  /\ IdleFresh /\ BestFound /\ WaitsForLazy /\ OkMeansDone /\ TimerCalls
  /\ FreedIsReleased /\ FailMeansNothingToEvict /\ WorkIsContinued

LEMMA InitIInv == Init => IInv
<1> SUFFICES ASSUME Init PROVE IInv
  OBVIOUS
<1>1. TypeOK
  BY TypeInit
<1>2. ExpiresInDict /\ IdleFresh /\ BestFound /\ WaitsForLazy /\ OkMeansDone /\ TimerCalls
  BY DEF Init, ExpiresInDict, IdleFresh, BestFound, WaitsForLazy, OkMeansDone, TimerCalls
<1>3. FreedIsReleased /\ FailMeansNothingToEvict /\ WorkIsContinued
  BY DEF Init, FreedIsReleased, FailMeansNothingToEvict, WorkIsContinued
<1> QED
  BY <1>1, <1>2, <1>3 DEF IInv

\* What the steps leave alone.
LEMMA SameUsed ==
  ASSUME UNCHANGED <<dict, lazy, other>> PROVE Used' = Used
  BY DEF Used

LEMMA SameOver ==
  ASSUME UNCHANGED <<dict, lazy, other, maxmemory>> PROVE Over' = Over
  BY SameUsed DEF Over

LEMMA SameEvictable ==
  ASSUME UNCHANGED <<dict, expires, policy>> PROVE Evictable' = Evictable
  BY DEF Evictable

LEMMA SameNothing ==
  ASSUME UNCHANGED <<dict, expires, policy, nextDb>>
  PROVE  NothingToEvict' = NothingToEvict
<1>1. Evictable' = Evictable /\ \A d : Missed(d)' = Missed(d)
  BY SameEvictable DEF Missed, SeenByRound
<1> QED
  BY <1>1 DEF NothingToEvict

\* A step that leaves keyspace, configuration and timer alone, and goes
\* from one point of the loop to another.
Inside == {"loop", "populate", "scan", "delete", "clock", "wait"}

LEMMA InsideStep ==
  ASSUME IInv, UNCHANGED <<keyspace, config, timer, caller, tofree, freed, grown>>,
         pc \in Inside, pc' \in Inside,
         BestFound', WaitsForLazy'
  PROVE  ExpiresInDict' /\ IdleFresh' /\ OkMeansDone' /\ TimerCalls'
         /\ FreedIsReleased' /\ FailMeansNothingToEvict' /\ WorkIsContinued'
<1> USE DEF keyspace, config, Inside
<1>1. ExpiresInDict' /\ IdleFresh' /\ OkMeansDone' /\ TimerCalls'
  BY DEF IInv, ExpiresInDict, IdleFresh, OkMeansDone, TimerCalls
<1>2. FreedIsReleased'
  BY SameUsed DEF IInv, FreedIsReleased
<1>3. FailMeansNothingToEvict' /\ WorkIsContinued'
  BY DEF FailMeansNothingToEvict, WorkIsContinued
<1> QED
  BY <1>1, <1>2, <1>3

\* A step that ends the call.
LEMMA ReturnStep ==
  ASSUME IInv, UNCHANGED <<keyspace, config, frame, caller, nextDb>>, NEW r, Returns(r),
         timer => timer',
         r = "OK" /\ timer' /\ ~paused => ~Over,
         r = "FAIL" => policy = "noeviction" \/ NothingToEvict,
         maxmemory # 0 /\ policy # "noeviction" /\ ~paused
           /\ Used > maxmemory + grown /\ ~NothingToEvict => timer'
  PROVE  ExpiresInDict' /\ IdleFresh' /\ BestFound' /\ WaitsForLazy' /\ OkMeansDone'
         /\ TimerCalls'
         /\ FreedIsReleased' /\ FailMeansNothingToEvict' /\ WorkIsContinued'
<1> USE DEF keyspace, config, frame, Returns
<1>1. ExpiresInDict' /\ IdleFresh' /\ BestFound' /\ WaitsForLazy' /\ TimerCalls'
  BY DEF IInv, ExpiresInDict, IdleFresh, BestFound, WaitsForLazy, TimerCalls
<1>2. OkMeansDone'
  BY SameOver DEF OkMeansDone
<1>3. FreedIsReleased'
  BY DEF FreedIsReleased
<1>4. FailMeansNothingToEvict'
  BY SameNothing DEF FailMeansNothingToEvict
<1>5. WorkIsContinued'
  BY SameNothing, SameUsed DEF WorkIsContinued
<1> QED
  BY <1>1, <1>2, <1>3, <1>4, <1>5

\* Everything the invariant says beside the types.
Rest ==
  /\ ExpiresInDict
  /\ IdleFresh /\ BestFound /\ WaitsForLazy /\ OkMeansDone /\ TimerCalls
  /\ FreedIsReleased /\ FailMeansNothingToEvict /\ WorkIsContinued

LEMMA CallStep ==
  ASSUME IInv, NEW c \in {"command", "timer"}, Call(c) PROVE Rest'
<1> USE DEF keyspace, config
<1>1. TypeOK /\ pc = "idle" /\ freed = 0 /\ grown = 0 /\ ExpiresInDict
  BY DEF Call, IInv, IdleFresh
<1>2. Used \in Nat /\ maxmemory \in Nat
  BY <1>1, UsedCounted
<1>3. Used' = Used /\ Over' = Over /\ Evictable' = Evictable
  BY SameUsed, SameOver, SameEvictable DEF Call
<1>4. UNCHANGED <<dict, expires, policy, maxmemory, paused, timer, freed, grown>>
  BY DEF Call
<1>5. CASE paused \/ ~Over
  <2>1. pc' = "return" /\ result' = "OK"
    BY <1>5 DEF Call, Returns
  <2>2. ExpiresInDict' /\ IdleFresh' /\ BestFound' /\ WaitsForLazy' /\ OkMeansDone'
    BY <1>1, <1>3, <1>4, <1>5, <2>1
       DEF ExpiresInDict, IdleFresh, BestFound, WaitsForLazy, OkMeansDone
  <2>3. TimerCalls' /\ FreedIsReleased' /\ FailMeansNothingToEvict'
    BY <1>4, <2>1 DEF Call, TimerCalls, FreedIsReleased, FailMeansNothingToEvict
  <2>4. WorkIsContinued'
    <3>1. ~(maxmemory # 0 /\ Used > maxmemory + grown) \/ paused
      BY <1>1, <1>2, <1>5 DEF Over
    <3> QED
      BY <1>3, <1>4, <3>1 DEF WorkIsContinued
  <2> QED
    BY <2>2, <2>3, <2>4 DEF Rest
<1>6. CASE ~(paused \/ ~Over) /\ policy = "noeviction"
  <2>1. pc' = "return" /\ result' = "FAIL"
    BY <1>6 DEF Call, Returns
  <2>2. ExpiresInDict' /\ IdleFresh' /\ BestFound' /\ WaitsForLazy' /\ OkMeansDone'
    BY <1>1, <1>4, <2>1
       DEF ExpiresInDict, IdleFresh, BestFound, WaitsForLazy, OkMeansDone
  <2>3. TimerCalls' /\ FreedIsReleased'
    BY <1>4, <2>1 DEF Call, TimerCalls, FreedIsReleased
  <2>4. FailMeansNothingToEvict' /\ WorkIsContinued'
    BY <1>4, <1>6 DEF FailMeansNothingToEvict, WorkIsContinued
  <2> QED
    BY <2>2, <2>3, <2>4 DEF Rest
<1>7. CASE ~(paused \/ ~Over) /\ policy # "noeviction"
  <2>1. pc' = "loop" /\ tofree' = Used - maxmemory
    BY <1>7 DEF Call, ToFree
  <2>2. ExpiresInDict' /\ IdleFresh' /\ BestFound' /\ WaitsForLazy' /\ OkMeansDone'
    BY <1>1, <1>4, <2>1
       DEF ExpiresInDict, IdleFresh, BestFound, WaitsForLazy, OkMeansDone
  <2>3. TimerCalls' /\ FailMeansNothingToEvict' /\ WorkIsContinued'
    BY <1>4, <2>1 DEF Call, TimerCalls, FailMeansNothingToEvict, WorkIsContinued
  <2>4. FreedIsReleased'
    BY <1>1, <1>2, <1>3, <1>4, <2>1 DEF FreedIsReleased
  <2> QED
    BY <2>2, <2>3, <2>4 DEF Rest
<1> QED
  BY <1>5, <1>6, <1>7

LEMMA DeleteStep == ASSUME IInv, DeleteBest PROVE Rest'
<1> USE DEF config
<1>1. TypeOK /\ pc = "delete" /\ best \in Evictable /\ expires \subseteq dict
  BY DEF DeleteBest, IInv, BestFound, ExpiresInDict
<1>2. best \in dict
  BY <1>1 DEF Evictable
<1>3. PICK async \in BOOLEAN, released \in 0 .. lazy :
        /\ lazy' = lazy - released + (IF async THEN 1 ELSE 0)
        /\ freed' = freed + Delta(async, released)
  BY DEF DeleteBest
<1>4. PICK n \in {0, 1} : other' = other + n /\ grown' = grown + n
  BY DEF DeleteBest
<1>5. /\ pc' \in {"clock", "loop"}
      /\ UNCHANGED <<policy, maxmemory, paused, timer, caller, tofree>>
      /\ dict' = dict \ {best} /\ expires' = expires \ {best}
  BY DEF DeleteBest
<1>6. ExpiresInDict' /\ IdleFresh' /\ BestFound' /\ WaitsForLazy' /\ OkMeansDone'
  BY <1>1, <1>5 DEF ExpiresInDict, IdleFresh, BestFound, WaitsForLazy, OkMeansDone
<1>7. TimerCalls' /\ FailMeansNothingToEvict' /\ WorkIsContinued'
  BY <1>5 DEF IInv, TimerCalls, FailMeansNothingToEvict, WorkIsContinued
<1>8. FreedIsReleased'
  <2>1. Cardinality(dict') = Cardinality(dict) - 1 /\ Cardinality(dict) \in Nat
    BY <1>1, <1>2, <1>5, KeyRemoved
  <2>2. /\ lazy \in Nat /\ other \in Nat /\ freed \in Nat /\ tofree \in Nat
        /\ grown \in Nat /\ maxmemory \in Nat
    BY <1>1 DEF TypeOK
  <2>3. Cardinality(dict) + lazy + other + freed <= maxmemory + tofree + grown
    BY <1>1 DEF IInv, FreedIsReleased, Used
  <2>4. Cardinality(dict') + lazy' + other' + freed' <= maxmemory' + tofree' + grown'
    BY <1>3, <1>4, <1>5, <2>1, <2>2, <2>3 DEF Delta
  <2> QED
    BY <2>4 DEF FreedIsReleased, Used
<1> QED
  BY <1>6, <1>7, <1>8 DEF Rest

LEMMA LazyFreeStep == ASSUME IInv, LazyFree PROVE Rest'
<1> USE DEF config, frame
<1>1. TypeOK /\ lazy' = lazy - 1
      /\ UNCHANGED <<dict, expires, other, config, frame, timer, caller, pc, result>>
  BY DEF LazyFree, IInv
<1>2. Used' = Used - 1 /\ Used \in Nat /\ maxmemory \in Nat
  <2>1. lazy \in Nat /\ other \in Nat /\ Cardinality(dict) \in Nat
    BY <1>1, KeysCounted DEF TypeOK
  <2> QED
    BY <1>1, <2>1, UsedCounted DEF Used
<1>3. /\ Evictable' = Evictable /\ NothingToEvict' = NothingToEvict
      /\ Over' => Over
  BY <1>1, <1>2, SameEvictable, SameNothing DEF Over, LazyFree
<1>4. ExpiresInDict' /\ IdleFresh' /\ BestFound' /\ WaitsForLazy' /\ TimerCalls'
  BY <1>1, <1>3 DEF IInv, ExpiresInDict, IdleFresh, BestFound, WaitsForLazy, TimerCalls
<1>5. OkMeansDone' /\ FailMeansNothingToEvict'
  BY <1>1, <1>3 DEF IInv, OkMeansDone, FailMeansNothingToEvict
<1>6. FreedIsReleased' /\ WorkIsContinued'
  <2>1. freed \in Nat /\ tofree \in Nat /\ grown \in Nat
    BY <1>1 DEF TypeOK
  <2>2. FreedIsReleased'
    BY <1>1, <1>2, <2>1 DEF IInv, FreedIsReleased
  <2>3. WorkIsContinued'
    BY <1>1, <1>2, <1>3, <2>1 DEF IInv, WorkIsContinued
  <2> QED
    BY <2>2, <2>3
<1> QED
  BY <1>4, <1>5, <1>6 DEF Rest

\* Between two calls only the expires and the timer matter.
LEMMA IdleStep ==
  ASSUME pc' = "idle", freed' = 0, grown' = 0, ExpiresInDict', TimerCalls'
  PROVE  Rest'
  BY DEF Rest, IdleFresh, BestFound, WaitsForLazy, OkMeansDone, FreedIsReleased,
         FailMeansNothingToEvict, WorkIsContinued

LEMMA CommandStep == ASSUME IInv, RunCommand PROVE Rest'
<1>1. Command
  BY DEF RunCommand, Write, Remove, ChangeExpire, SetPolicy, SetMaxmemory
<1>2. TimerCalls'
  BY <1>1 DEF Command, CallEnds, TimerCalls
<1>3. ExpiresInDict'
  BY DEF RunCommand, Write, Remove, ChangeExpire, SetPolicy, SetMaxmemory, IInv,
         ExpiresInDict
<1> QED
  BY <1>1, <1>2, <1>3, IdleStep DEF Command, CallEnds

LEMMA StepIInv == IInv /\ [Next]_vars => IInv'
<1> SUFFICES ASSUME IInv, [Next]_vars PROVE IInv'
  OBVIOUS
<1>1. TypeOK /\ TypeOK'
  BY TypeStep DEF IInv
<1>2. Rest'
  <2>1. ASSUME NEW c \in {"command", "timer"}, Call(c) PROVE Rest'
    BY <2>1, CallStep
  <2>2. CASE LoopEnds
    <3>1. freed >= tofree /\ freed \in Nat /\ tofree \in Nat /\ grown \in Nat
      BY <1>1, <2>2 DEF LoopEnds, TypeOK
    <3>2. Used <= maxmemory + grown
      <4>1. Used + freed <= maxmemory + tofree + grown
        BY <2>2 DEF LoopEnds, IInv, FreedIsReleased
      <4> QED
        BY <1>1, <3>1, <4>1, UsedCounted
    <3>3. ~(Used > maxmemory + grown)
      BY <1>1, <3>1, <3>2, UsedCounted
    <3>4. Returns(Finished) /\ Finished = (IF timer THEN "RUNNING" ELSE "OK")
      BY <2>2 DEF LoopEnds, Finished
    <3> QED
      BY <2>2, <3>3, <3>4, ReturnStep DEF LoopEnds, Rest
  <2>3. CASE NothingLeft
    <3>1. WaitsForLazy' /\ BestFound'
      BY <1>1, <2>3, ExhaustedMeansMissed DEF NothingLeft, WaitsForLazy, BestFound
    <3> QED
      BY <2>3, <3>1, InsideStep DEF NothingLeft, Rest, frame, Inside
  <2>4. CASE Sample
    <3>1. WaitsForLazy' /\ BestFound'
      BY <2>4 DEF Sample, WaitsForLazy, BestFound
    <3> QED
      BY <2>4, <3>1, InsideStep DEF Sample, Rest, Inside
  <2>5. CASE Populate
    <3>1. WaitsForLazy' /\ BestFound'
      BY <2>5 DEF Populate, WaitsForLazy, BestFound
    <3> QED
      BY <2>5, <3>1, InsideStep DEF Populate, Rest, Inside
  <2>6. CASE Scan
    <3>1. /\ pc = "scan"
          /\ (best' \in Evictable /\ pc' = "delete") \/ pc' = "scan"
      BY <2>6 DEF Scan, Found
    <3>2. Evictable' = Evictable
      BY <2>6, SameEvictable DEF Scan, keyspace, config
    <3>3. WaitsForLazy' /\ BestFound'
      BY <3>1, <3>2 DEF WaitsForLazy, BestFound
    <3> QED
      BY <2>6, <3>1, <3>3, InsideStep DEF Scan, Rest, Inside
  <2>7. CASE ScanEnds
    <3>1. WaitsForLazy' /\ BestFound'
      BY <2>7 DEF ScanEnds, WaitsForLazy, BestFound
    <3> QED
      BY <2>7, <3>1, InsideStep DEF ScanEnds, Rest, frame, Inside
  <2>8. CASE PickRandom
    <3>1. best' \in Evictable /\ pc' = "delete"
      BY <2>8 DEF PickRandom, InDb
    <3>2. Evictable' = Evictable
      BY <2>8, SameEvictable DEF PickRandom, keyspace, config
    <3>3. WaitsForLazy' /\ BestFound'
      BY <3>1, <3>2 DEF WaitsForLazy, BestFound
    <3> QED
      BY <2>8, <3>3, InsideStep DEF PickRandom, Rest, Inside
  <2>9. CASE DeleteBest
    BY <2>9, DeleteStep
  <2>10. CASE Enough
    <3>1. /\ Returns(Finished) /\ ~Over
          /\ UNCHANGED <<keyspace, config, frame, caller, timer, nextDb>>
      BY <2>10 DEF Enough
    <3>2. Finished # "FAIL"
      BY DEF Finished
    <3>3. ~(maxmemory # 0 /\ Used > maxmemory + grown)
      BY <1>1, <3>1, UsedCounted DEF Over, TypeOK
    <3> QED
      BY <3>1, <3>2, <3>3, ReturnStep DEF Rest
  <2>11. CASE OutOfTime
    <3>1. /\ Returns("RUNNING") /\ timer'
          /\ UNCHANGED <<keyspace, config, frame, caller, nextDb>>
      BY <2>11 DEF OutOfTime, Finished
    <3> QED
      BY <3>1, ReturnStep DEF Rest
  <2>12. CASE MoreTime
    <3>1. WaitsForLazy' /\ BestFound'
      BY <2>12 DEF MoreTime, WaitsForLazy, BestFound
    <3> QED
      BY <2>12, <3>1, InsideStep DEF MoreTime, Rest, frame, Inside
  <2>13. CASE WaitEnds
    <3>1. /\ Returns("OK") /\ ~Over
          /\ UNCHANGED <<keyspace, config, frame, caller, timer, nextDb>>
      BY <2>13 DEF WaitEnds
    <3>2. ~(maxmemory # 0 /\ Used > maxmemory + grown)
      BY <1>1, <3>1, UsedCounted DEF Over, TypeOK
    <3> QED
      BY <3>1, <3>2, ReturnStep DEF Rest
  <2>14. CASE GiveUp
    <3>1. /\ Returns("FAIL") /\ NothingToEvict
          /\ UNCHANGED <<keyspace, config, frame, caller, timer, nextDb>>
      BY <2>14 DEF GiveUp, IInv, WaitsForLazy
    <3> QED
      BY <3>1, ReturnStep DEF Rest
  <2>15. CASE TimerReturns
    BY <2>15, IdleStep DEF TimerReturns, CallEnds, keyspace, IInv, ExpiresInDict,
                           TimerCalls
  <2>16. CASE RunCommand
    BY <2>16, CommandStep
  <2>17. CASE LazyFree
    BY <2>17, LazyFreeStep
  <2>18. ASSUME NEW n \in 0 .. MaxOther, OtherMemory(n) PROVE Rest'
    BY <2>18, IdleStep DEF OtherMemory, frame, IInv, IdleFresh, ExpiresInDict,
                           TimerCalls
  <2>19. CASE PauseOrResume
    BY <2>19, IdleStep DEF PauseOrResume, keyspace, frame, IInv, IdleFresh,
                           ExpiresInDict, TimerCalls
  <2>20. CASE UNCHANGED vars
    <3>1. /\ Evictable' = Evictable /\ NothingToEvict' = NothingToEvict
          /\ Used' = Used /\ Over' = Over
      BY <2>20, SameEvictable, SameNothing, SameUsed, SameOver
         DEF vars, keyspace, config
    <3>2. ExpiresInDict' /\ IdleFresh' /\ BestFound' /\ WaitsForLazy' /\ OkMeansDone'
      BY <2>20, <3>1 DEF vars, keyspace, config, frame, IInv, ExpiresInDict, IdleFresh,
                         BestFound, WaitsForLazy, OkMeansDone
    <3>3. TimerCalls' /\ FreedIsReleased' /\ FailMeansNothingToEvict' /\ WorkIsContinued'
      BY <2>20, <3>1 DEF vars, keyspace, config, frame, IInv, TimerCalls,
                         FreedIsReleased, FailMeansNothingToEvict, WorkIsContinued
    <3> QED
      BY <3>2, <3>3 DEF Rest
  <2> QED
    BY <2>1, <2>2, <2>3, <2>4, <2>5, <2>6, <2>7, <2>8, <2>9, <2>10, <2>11, <2>12,
       <2>13, <2>14, <2>15, <2>16, <2>17, <2>18, <2>19, <2>20 DEF Next, Perform
<1> QED
  BY <1>1, <1>2 DEF IInv, Rest

LEMMA AlwaysIInv == Spec => []IInv
  BY InitIInv, StepIInv, PTL DEF Spec

-----------------------------------------------------------------------------
(* The theorems. *)

\* What the loop has counted as freed is really released, for any number of
\* keys, databases and samples and with the lazyfree thread at any pace.
THEOREM FreedIsReleasedCorrect == Spec => []FreedIsReleased
  BY AlwaysIInv, PTL DEF IInv

\* A command is refused only when nothing can be evicted, but for the keys
\* of a database that a round with a wrapping counter missed.
THEOREM FailMeansNothingToEvictCorrect == Spec => []FailMeansNothingToEvict
  BY AlwaysIInv, PTL DEF IInv

\* With a number of databases that divides the range of the counter, 16 for
\* one, there is no such exception: after EVICT_FAIL no database has a key
\* to evict.
THEOREM EveryDatabaseIsSeen ==
  ASSUME UIntRange % DbNum = 0
  PROVE  Spec => [](pc = "return" /\ result = "FAIL" =>
                      policy = "noeviction" \/ Evictable = {})
<1>1. IInv => (pc = "return" /\ result = "FAIL" =>
                 policy = "noeviction" \/ Evictable = {})
  <2> SUFFICES ASSUME IInv, pc = "return", result = "FAIL", policy # "noeviction",
                      NEW k \in Evictable
               PROVE  FALSE
    OBVIOUS
  <2>1. Missed(DbOf[k])
    BY DEF IInv, FailMeansNothingToEvict, NothingToEvict
  <2>2. DbOf[k] \in Dbs
    BY DEF IInv, TypeOK, Evictable, Dbs
  <2> QED
    BY <2>1, <2>2, DivisorMissesNone DEF IInv
<1> QED
  BY <1>1, AlwaysIInv, PTL

\* Work that a call leaves is continued by the time event.
THEOREM WorkIsContinuedCorrect == Spec => []WorkIsContinued
  BY AlwaysIInv, PTL DEF IInv

\* Only keys the policy allows are evicted.
THEOREM EvictsOnlyEvictableCorrect == Spec => EvictsOnlyEvictable
<1>1. IInv /\ [Next]_vars =>
        [DeleteBest => best \in dict /\ (AllKeys(policy) \/ best \in expires)]_vars
  BY DEF IInv, BestFound, ExpiresInDict, DeleteBest, Evictable
<1> QED
  BY <1>1, AlwaysIInv, PTL DEF Spec, EvictsOnlyEvictable

\* The time event stops only when its work is done.
THEOREM TimerStopsWhenDoneCorrect == Spec => TimerStopsWhenDone
<1>1. IInv /\ [Next]_vars =>
        [timer /\ ~timer' /\ ~paused =>
           ~Over \/ NothingToEvict \/ policy = "noeviction"]_vars
  <2> SUFFICES ASSUME IInv, Next, timer, ~timer', ~paused
               PROVE  ~Over \/ NothingToEvict \/ policy = "noeviction"
    BY DEF vars
  <2>1. TimerReturns
    <3>1. ~(\E c \in {"command", "timer"} : Call(c))
      BY DEF Call
    <3>2. ~Perform
      BY DEF Perform, LoopEnds, NothingLeft, Sample, Populate, Scan, ScanEnds,
             PickRandom, DeleteBest, Enough, OutOfTime, MoreTime, WaitEnds, GiveUp
    <3>3. ~RunCommand
      BY DEF RunCommand, Write, Remove, ChangeExpire, SetPolicy, SetMaxmemory, Command
    <3>4. ~LazyFree /\ ~PauseOrResume /\ ~(\E n \in 0 .. MaxOther : OtherMemory(n))
      BY DEF LazyFree, PauseOrResume, OtherMemory
    <3> QED
      BY <3>1, <3>2, <3>3, <3>4 DEF Next
  <2>2. pc = "return" /\ result \in {"OK", "FAIL"}
    BY <2>1 DEF TimerReturns, IInv, TypeOK
  <2> QED
    BY <2>2 DEF IInv, OkMeansDone, FailMeansNothingToEvict
<1> QED
  BY <1>1, AlwaysIInv, PTL DEF Spec, TimerStopsWhenDone
=============================================================================
