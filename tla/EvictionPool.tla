---------------------------- MODULE EvictionPool ----------------------------
(***************************************************************************)
(* The eviction pool of evict.c: a fixed array of candidate keys that      *)
(* outlives the calls of performEvictions() and is never cleaned when a    *)
(* key is deleted, changed or moved, or when the policy changes.           *)
(*                                                                         *)
(* An entry has two rank fields.  evictionPoolPopulate() (LRU, LFU and     *)
(* TTL policies) reads and writes "idle" and leaves "score" as it finds it *)
(* in the slot; evictionPoolPopulateLRUHistogram() reads and writes        *)
(* "score" and leaves "idle".  Ranks are small integers here: only their   *)
(* order matters to the pool.                                              *)
(***************************************************************************)
EXTENDS Integers, FiniteSets

CONSTANTS Keys,        \* the keys of the databases, a name and a dbid
          NULL,        \* the NULL key pointer of an empty slot
          PoolSize,    \* EVPOOL_SIZE
          IdleRanks,   \* idle times (0 is what a reset writes)
          ScoreRanks   \* scores: estimateObjectEvictionScore() returns -score

ASSUME PoolSizeAssumption == PoolSize \in Nat \ {0}
ASSUME NullAssumption == NULL \notin Keys
ASSUME RanksAssumption == /\ IdleRanks \subseteq Nat /\ 0 \in IdleRanks
                          /\ ScoreRanks \subseteq Int /\ 0 \in ScoreRanks
                          /\ \A r \in ScoreRanks : r <= 0

VARIABLES pool,        \* EvictionPoolLRU
          policy       \* the rank field server.maxmemory_policy goes by

vars == <<pool, policy>>

Slots == 0 .. PoolSize - 1
LastSlot == PoolSize - 1
RankFields == {"idle", "score"}
Ranks(f) == IF f = "idle" THEN IdleRanks ELSE ScoreRanks
Entries == [key : Keys \cup {NULL}, idle : IdleRanks, score : ScoreRanks]

EmptyEntry == [key |-> NULL, idle |-> 0, score |-> 0]
Occupied(p, k) == p[k].key # NULL
Candidates(p) == {k \in Slots : Occupied(p, k)}
Rank(e, f) == IF f = "idle" THEN e.idle ELSE e.score

-----------------------------------------------------------------------------
(***************************************************************************)
(* The insertion.  The while loop stops at slot k when k is the end of the *)
(* array, an empty slot, or a slot whose rank is not below the new one.    *)
(***************************************************************************)
\* Mutant of Passes: every policy compares idle times.
PassesByIdle(p, f, k, r) == Occupied(p, k) /\ p[k].idle < r

Passes(p, f, k, r) == Occupied(p, k) /\ Rank(p[k], f) < r

StopsAt(p, f, k, r) ==
  /\ k \in 0 .. PoolSize
  /\ \A i \in 0 .. k - 1 : Passes(p, f, i, r)
  /\ k \in Slots => ~Passes(p, f, k, r)

Rejects(p, k) == k = 0 /\ Occupied(p, LastSlot)

\* The two memmove calls: up from slot k, and down from slot k.
ShiftRight(p, k) == [i \in Slots |-> IF i <= k THEN p[i] ELSE p[i - 1]]
ShiftLeft(p, k) == [i \in Slots |-> IF i < k THEN p[i + 1] ELSE p[i]]

\* The policy's own rank is written; the other field keeps its old value.
Filled(e, f, key, r) ==
  IF f = "idle" THEN [e EXCEPT !.key = key, !.idle = r]
                ELSE [e EXCEPT !.key = key, !.score = r]

\* Mutant of Inserted: no k-- before the left shift.
InsertedNoDecrement(p, f, k, key, r) ==
  IF Rejects(p, k) THEN p
  ELSE IF k \in Slots /\ ~Occupied(p, k)
    THEN [p EXCEPT ![k] = Filled(p[k], f, key, r)]
  ELSE IF ~Occupied(p, LastSlot)
    THEN [ShiftRight(p, k) EXCEPT ![k] = Filled(p[k], f, key, r)]
  ELSE [ShiftLeft(p, k - 1) EXCEPT ![k] = Filled(p[k - 1], f, key, r)]

\* Mutant of Inserted: a full pool is shifted right and its last entry lost.
InsertedNoFullCheck(p, f, k, key, r) ==
  IF Rejects(p, k) THEN p
  ELSE IF k \in Slots /\ ~Occupied(p, k)
    THEN [p EXCEPT ![k] = Filled(p[k], f, key, r)]
  ELSE [ShiftRight(p, k) EXCEPT ![k] = Filled(p[k], f, key, r)]

Inserted(p, f, k, key, r) ==
  IF Rejects(p, k) THEN p
  ELSE IF k \in Slots /\ ~Occupied(p, k)
    THEN [p EXCEPT ![k] = Filled(p[k], f, key, r)]
  ELSE IF ~Occupied(p, LastSlot)
    THEN [ShiftRight(p, k) EXCEPT ![k] = Filled(p[k], f, key, r)]
  ELSE [ShiftLeft(p, k - 1) EXCEPT ![k - 1] = Filled(p[k - 1], f, key, r)]

-----------------------------------------------------------------------------
Init == /\ pool = [k \in Slots |-> EmptyEntry]
        /\ policy \in RankFields

\* One sampled key meets the pool, under the policy in force.
Insert(key, r) ==
  /\ \E k \in 0 .. PoolSize :
       /\ StopsAt(pool, policy, k, r)
       /\ pool' = Inserted(pool, policy, k, key, r)
  /\ UNCHANGED policy

\* performEvictions() goes backward from the best slot: it skips the empty
\* ones and takes the first occupied one, a ghost or not.
BestSlot(p, k) == Occupied(p, k) /\ \A j \in k + 1 .. LastSlot : ~Occupied(p, j)

\* Mutant of TakeBest: the removed slot keeps its ranks.
TakeBestNoReset ==
  /\ \E k \in Slots : /\ BestSlot(pool, k)
                      /\ pool' = [pool EXCEPT ![k].key = NULL]
  /\ UNCHANGED policy

TakeBest ==
  /\ \E k \in Slots : /\ BestSlot(pool, k)
                      /\ pool' = [pool EXCEPT ![k] = EmptyEntry]
  /\ UNCHANGED policy

\* CONFIG SET maxmemory-policy: the pool is left as it is.
SetPolicy(q) == /\ policy' = q
                /\ UNCHANGED pool

Next == \/ \E key \in Keys, r \in Ranks(policy) : Insert(key, r)
        \/ TakeBest
        \/ \E q \in RankFields : SetPolicy(q)

Spec == Init /\ [][Next]_vars

\* The same pool on a server whose policy is never changed.
FixedPolicySpec == Init /\ [][Next /\ UNCHANGED policy]_vars

-----------------------------------------------------------------------------
TypeOK == pool \in [Slots -> Entries] /\ policy \in RankFields

(***************************************************************************)
(* Whatever the policies in force and the order of insertions and picks,   *)
(* the occupied slots are a prefix of the array and the empty ones hold no *)
(* old rank.  The insertion relies on it: a full array is recognised by    *)
(* its last slot, a shift must not push an entry out of the array, and the *)
(* first empty slot must end the search.                                   *)
(***************************************************************************)
Prefix(p) == \A i, j \in Slots : i < j /\ Occupied(p, j) => Occupied(p, i)
CleanTail(p) == \A k \in Slots : ~Occupied(p, k) => p[k] = EmptyEntry
PoolShape == Prefix(pool) /\ CleanTail(pool)

(***************************************************************************)
(* Entries ascend by the rank of the policy in force, so that the backward *)
(* scan meets the best candidate first (evict.c:46-51).  A change of the   *)
(* policy may end that; no insertion and no pick does, and a pool that has *)
(* become ordered again stays so.                                          *)
(***************************************************************************)
OrderedBy(p, f) ==
  \A i, j \in Slots : i < j /\ Occupied(p, j) => Rank(p[i], f) <= Rank(p[j], f)
Ordered == OrderedBy(pool, policy)
OrderKept == [][Ordered /\ UNCHANGED policy => Ordered']_vars

(***************************************************************************)
(* An insertion in an ordered pool loses an entry only when the pool is    *)
(* full, and then one that is no better than anything the pool holds       *)
(* afterwards: the best candidates of earlier calls survive                *)
(* (evict.c:178-185).                                                      *)
(***************************************************************************)
Loses(i) == i \in Candidates(pool) /\ \A j \in Slots : pool'[j] # pool[i]

DropsOnlyWorst ==
  [][\A key \in Keys, r \in Ranks(policy) : Ordered /\ Insert(key, r) =>
       \A x \in Slots : Loses(x) =>
         /\ Candidates(pool) = Slots
         /\ \A y \in Slots : Rank(pool[x], policy) <= Rank(pool'[y], policy)]_vars
=============================================================================
