---------------------------- MODULE AccessHistory ----------------------------
(***************************************************************************)
(* The access metadata of a value object under a policy that ranks keys by *)
(* time: the lru field, the counter num_accesses and the array             *)
(* access_times, from the creation of the object through the commands that *)
(* look it up, overwrite it, copy it or move it, to the dump and back.     *)
(*                                                                         *)
(* access_times is read as an array of HISTORY_SIZE integers of the width  *)
(* the memmove calls assume, followed in the struct by the bit-field       *)
(* num_accesses: a store one past the array lands on the counter.          *)
(***************************************************************************)
EXTENDS Integers

CONSTANTS Names,          \* key names, the database number included
          None,          \* no object, or no idle time in the dump
          ArraySize,   \* HISTORY_SIZE
          CounterMod,    \* 2^ACCESS_BITS
          ClockMax,      \* LRU_CLOCK_MAX
          GarbageCounts  \* what an uninitialised counter may hold

ASSUME SizesAssumption == /\ ArraySize \in Nat \ {0}
                          /\ CounterMod \in Nat /\ CounterMod > ArraySize + 1
                          /\ ClockMax \in Nat
ASSUME GarbageAssumption == GarbageCounts \subseteq 0 .. CounterMod - 1

VARIABLES dict,     \* key -> its object
          clock,    \* server.lruclock, seconds modulo ClockMax + 1
          maxmemory_policy,   \* server.maxmemory_policy
          child,    \* hasActiveChildProcess()
          dump      \* key -> idle time in the last dump

historyVars == <<dict, clock, maxmemory_policy, child, dump>>

Times == 0 .. ClockMax
Indices == 0 .. ArraySize - 1
Policies == {"LRU", "HISTOGRAM"}
Kinds == {"raw", "embstr"}

(***************************************************************************)
(* An object.  The last two fields are history variables: "sound" until a  *)
(* path of the code puts the array out of step with the accesses, "seen"   *)
(* the time of the last access the histogram policy was to record.         *)
(***************************************************************************)
Objects == [num : 0 .. CounterMod - 1, times : [Indices -> Times], lru : Times,
            sound : BOOLEAN, seen : Times]

Live(k) == dict[k] # None

-----------------------------------------------------------------------------
(* Creation. *)

Zeroes == [i \in Indices |-> 0]

\* createObject() resets the counter; createEmbeddedStringObject() sets lru
\* alone, and the rest holds what the allocator returns.
Fresh(kind) ==
  {[num |-> n, times |-> Zeroes, lru |-> 0, sound |-> kind = "raw", seen |-> 0] :
     n \in IF kind = "raw" THEN {0} ELSE GarbageCounts}

(* Recording an access. *)

Shifted(times, now) ==
  [i \in Indices |-> IF i = ArraySize - 1 THEN now ELSE times[i + 1]]

\* Mutant of Recorded: the full array is not shifted.
RecordedNoShift(o, now) ==
  IF o.num < ArraySize
    THEN [o EXCEPT !.times[o.num] = now, !.num = @ + 1, !.seen = now]
    ELSE [o EXCEPT !.times[0] = now, !.seen = now]

\* updateLRUHistogram()
Recorded(o, now) ==
  IF o.num < ArraySize
    THEN [o EXCEPT !.times[o.num] = now, !.num = @ + 1, !.seen = now]
    ELSE [o EXCEPT !.times = Shifted(@, now), !.seen = now]

\* initOrUpdateObjectt(): with ArraySize stamps it stores past the array,
\* on the low byte of num_accesses, and increments the counter it read
\* before the store or the one the store left.
InitOrUpdate(o, now) ==
  IF o.num < ArraySize
    THEN {[o EXCEPT !.times[o.num] = now, !.num = @ + 1]}
  ELSE IF o.num = ArraySize
    THEN {[o EXCEPT !.num = n] : n \in {ArraySize + 1, (now + 1) % CounterMod}}
  ELSE {[o EXCEPT !.times = Shifted(@, now), !.num = (@ + 1) % CounterMod]}

\* The last step of lookupKey(), unless a child is saving or the client or
\* the command asked not to touch the key.
Touched(o, touch) ==
  IF child \/ ~touch THEN o
  ELSE IF maxmemory_policy = "HISTOGRAM" THEN Recorded(o, clock)
  ELSE [o EXCEPT !.lru = clock]

\* initObjectLRUOrLFU(), called when an object enters a dictionary.
Entered(o) ==
  IF maxmemory_policy = "HISTOGRAM"
    THEN {[p EXCEPT !.lru = clock, !.seen = clock] : p \in InitOrUpdate(o, clock)}
    ELSE {[o EXCEPT !.lru = clock]}

-----------------------------------------------------------------------------
HistoryInit == /\ dict = [k \in Names |-> None]
        /\ dump = [k \in Names |-> None]
        /\ clock = 0
        /\ maxmemory_policy \in Policies
        /\ child = FALSE

\* lookupKeyRead() and lookupKeyWrite() on an existing key.
Lookup(k, touch) ==
  /\ Live(k)
  /\ dict' = [dict EXCEPT ![k] = Touched(@, touch)]
  /\ UNCHANGED <<clock, maxmemory_policy, child, dump>>

\* SET, or the first command of a type, on a missing key: dbAdd().
Add(k, kind) ==
  /\ ~Live(k)
  /\ \E o \in Fresh(kind) : \E p \in Entered(o) : dict' = [dict EXCEPT ![k] = p]
  /\ UNCHANGED <<clock, maxmemory_policy, child, dump>>

\* SET on an existing key, or the replacement of a shared or encoded string
\* before it is modified: dbSetValue() carries lru over and nothing else.
Overwrite(k, kind, touch) ==
  /\ Live(k)
  /\ \E o \in Fresh(kind) :
       dict' = [dict EXCEPT ![k] = [o EXCEPT !.lru = Touched(dict[k], touch).lru]]
  /\ UNCHANGED <<clock, maxmemory_policy, child, dump>>

\* RENAME, and MOVE when the target is free: the object itself is added
\* again under the new name.
Rename(k, l, touch) ==
  /\ k # l /\ Live(k)
  /\ \E o \in Entered([Touched(dict[k], touch) EXCEPT !.sound = FALSE]) :
       dict' = [dict EXCEPT ![l] = o, ![k] = None]
  /\ UNCHANGED <<clock, maxmemory_policy, child, dump>>

\* COPY: the source is looked up, the target is a duplicate with the source's
\* encoding.
Copy(k, l, kind, touch) ==
  /\ k # l /\ Live(k)
  /\ \E o \in Fresh(kind) : \E p \in Entered(o) :
       dict' = [dict EXCEPT ![k] = Touched(@, touch), ![l] = p]
  /\ UNCHANGED <<clock, maxmemory_policy, child, dump>>

Delete(k) ==
  /\ Live(k)
  /\ dict' = [dict EXCEPT ![k] = None]
  /\ UNCHANGED <<clock, maxmemory_policy, child, dump>>

-----------------------------------------------------------------------------
(* The dump.  Both policies carry the LRU flag, so the idle time is saved. *)

\* estimateObjectIdleTime(), in seconds
IdleTime(lru) == IF clock >= lru THEN clock - lru ELSE clock + (ClockMax - lru)

Save ==
  /\ dump' = [k \in Names |-> IF Live(k) THEN IdleTime(dict[k].lru) ELSE None]
  /\ UNCHANGED <<dict, clock, maxmemory_policy, child>>

\* Mutant of Unwrapped: the underflow is corrected as for a clock that
\* counts ClockMax + 1 seconds.
UnwrappedModulo(t) == IF t < 0 THEN t + ClockMax + 1 ELSE t

Unwrapped(t) == IF t < 0 THEN t + ClockMax ELSE t

\* objectSetLRUOrLFU(): the idle time, a duration, is pushed as a stamp.
Restored(o, idle) ==
  {[p EXCEPT !.lru = Unwrapped(clock - idle), !.sound = FALSE] :
     p \in InitOrUpdate(o, idle)}

LoadOutcomes(k, kind) ==
  IF dump[k] = None THEN {None}
  ELSE UNION {UNION {Restored(p, dump[k]) : p \in Entered(o)} : o \in Fresh(kind)}

\* The server restarts and loads the dump.
Restart ==
  /\ \E kind \in [Names -> Kinds] :
       dict' \in {d \in [Names -> UNION {LoadOutcomes(k, kind[k]) : k \in Names}] :
                    \A k \in Names : d[k] \in LoadOutcomes(k, kind[k])}
  /\ child' = FALSE
  /\ UNCHANGED <<clock, maxmemory_policy, dump>>

-----------------------------------------------------------------------------
\* serverCron() refreshes the clock.  When it wraps, the stamps of the
\* living objects are no longer in the order of the accesses.
Tick ==
  /\ clock' = (clock + 1) % (ClockMax + 1)
  /\ dict' = [k \in Names |->
                IF Live(k) /\ clock' = 0 THEN [dict[k] EXCEPT !.sound = FALSE]
                                         ELSE dict[k]]
  /\ UNCHANGED <<maxmemory_policy, child, dump>>

\* CONFIG SET maxmemory-policy: accesses made under the other policy are not
\* in the array.
SetMaxmemoryPolicy(q) ==
  /\ maxmemory_policy' = q
  /\ UNCHANGED <<dict, clock, child, dump>>

ForkOrReap == /\ child' = ~child
              /\ UNCHANGED <<dict, clock, maxmemory_policy, dump>>

HistoryNext ==
  \/ \E k \in Names, touch \in BOOLEAN : Lookup(k, touch)
  \/ \E k \in Names, kind \in Kinds : Add(k, kind)
  \/ \E k \in Names, kind \in Kinds, touch \in BOOLEAN : Overwrite(k, kind, touch)
  \/ \E k, l \in Names, touch \in BOOLEAN : Rename(k, l, touch)
  \/ \E k, l \in Names, kind \in Kinds, touch \in BOOLEAN : Copy(k, l, kind, touch)
  \/ \E k \in Names : Delete(k)
  \/ Save
  \/ Restart
  \/ Tick
  \/ \E q \in Policies : SetMaxmemoryPolicy(q)
  \/ ForkOrReap

HistorySpec == HistoryInit /\ [][HistoryNext]_historyVars

-----------------------------------------------------------------------------
HistoryTypeOK == /\ dict \in [Names -> Objects \cup {None}]
          /\ dump \in [Names -> Times \cup {None}]
          /\ clock \in Times
          /\ maxmemory_policy \in Policies
          /\ child \in BOOLEAN

(***************************************************************************)
(* The history of an object: no more stamps than the array has room for,   *)
(* in the order of the accesses, none in the future, the last one the last *)
(* access the policy was to record.                                        *)
(***************************************************************************)
FitsArray(o) == o.num <= ArraySize
Stamps(o) == {i \in Indices : i < o.num}
Chronological(o) ==
  \A i, j \in Stamps(o) : i <= j => o.times[i] <= o.times[j]
EndsWithLast(o) == o.num > 0 => o.times[o.num - 1] = o.seen

(***************************************************************************)
(* Objects that came from createObject(), were not renamed, moved or       *)
(* loaded and did not live through a wrap of the clock have a true         *)
(* history, whatever is done with them and whatever the policy changes.    *)
(***************************************************************************)
SoundHistory ==
  \A k \in Names : Live(k) /\ dict[k].sound =>
    /\ FitsArray(dict[k])
    /\ Chronological(dict[k])
    /\ EndsWithLast(dict[k])
    /\ dict[k].seen <= clock

(***************************************************************************)
(* A dump and a reload keep the idle time of the LRU policy: the           *)
(* correction of the underflow in objectSetLRUOrLFU() and the unwrapping   *)
(* in estimateObjectIdleTime() agree, on every idle time short of the full  *)
(* period of the clock (which is loaded as zero).                          *)
(***************************************************************************)
IdleSurvivesReload ==
  [][Restart => \A k \in Names : dict'[k] # None /\ dump[k] < ClockMax =>
                  IdleTime(dict'[k].lru) = dump[k]]_historyVars

(***************************************************************************)
(* What the project's README says of the metadata.                         *)
(***************************************************************************)
\* "Stores the last X access timestamps" (README.md:79): the counter never
\* points past the array, for objects whose counter was initialised.
StampsFitTheArray == \A k \in Names : Live(k) => FitsArray(dict[k])
=============================================================================
