--------------------------- MODULE KeyspaceProofs ---------------------------
(***************************************************************************)
(* Proofs about the keyspace of db.c for any databases, keys, roles and    *)
(* clock: the assertions of the code never fail and the two dictionaries   *)
(* agree, watchers and waiting clients are told of every change, and the   *)
(* server implements module LiveKeyspace.  Liveness is left to TLC.        *)
(***************************************************************************)
EXTENDS Keyspace, TLAPS

USE KeyspaceAssumption

-----------------------------------------------------------------------------
(* The dictionaries. *)

Sound(d) == d \in Data /\ Agree(d)

LEMMA DeletedFacts ==
  ASSUME NEW d, Sound(d), NEW K
  PROVE  /\ Sound(Deleted(d, K))
         /\ \A k \in Keys :
              /\ Deleted(d, K).dict[k] = IF k \in K THEN NULL ELSE d.dict[k]
              /\ Deleted(d, K).expires[k] = IF k \in K THEN Never ELSE d.expires[k]
              /\ Has(Deleted(d, K), k) <=> Has(d, k) /\ k \notin K
<1>1. Never \in Never .. MaxTime
  BY DEF Never
<1>2. Deleted(d, K) \in Data
  BY <1>1 DEF Sound, Data, Deleted
<1>3. \A k \in Keys :
        /\ Deleted(d, K).dict[k] = IF k \in K THEN NULL ELSE d.dict[k]
        /\ Deleted(d, K).expires[k] = IF k \in K THEN Never ELSE d.expires[k]
  BY DEF Deleted
<1> QED
  BY <1>2, <1>3 DEF Sound, Agree, Has

LEMMA KeptFacts ==
  ASSUME NEW d, Sound(d), NEW K, NEW k \in Keys, k \notin K, NEW e, e = Deleted(d, K)
  PROVE  /\ Sound(e) /\ e.dict[k] = d.dict[k] /\ e.expires[k] = d.expires[k]
         /\ Has(d, k) => Has(e, k)
  BY DeletedFacts

LEMMA PlacedFacts ==
  ASSUME NEW d, Sound(d), NEW k \in Keys, NEW v \in Values,
         NEW when \in Never .. MaxTime
  PROVE  /\ Sound(Placed(d, k, v, when))
         /\ \A x \in Keys :
              /\ Placed(d, k, v, when).dict[x] = IF x = k THEN v ELSE d.dict[x]
              /\ Placed(d, k, v, when).expires[x] =
                   IF x = k /\ when # Never THEN when ELSE d.expires[x]
              /\ Has(Placed(d, k, v, when), x) <=> Has(d, x) \/ x = k
<1>1. Placed(d, k, v, when) \in Data
  BY DEF Sound, Data, Placed
<1>2. \A x \in Keys :
        /\ Placed(d, k, v, when).dict[x] = IF x = k THEN v ELSE d.dict[x]
        /\ Placed(d, k, v, when).expires[x] =
             IF x = k /\ when # Never THEN when ELSE d.expires[x]
  BY DEF Sound, Data, Placed
<1> QED
  BY <1>1, <1>2 DEF Sound, Agree, Has

\* An expire of a key that is there may be any time.
LEMMA TimedFacts ==
  ASSUME NEW d, Sound(d), NEW k \in Keys, Has(d, k), NEW when \in Never .. MaxTime
  PROVE  LET t == [d EXCEPT !.expires[k] = when] IN
         /\ Sound(t)
         /\ t.dict = d.dict
         /\ \A x \in Keys : t.expires[x] = IF x = k THEN when ELSE d.expires[x]
<1> DEFINE t == [d EXCEPT !.expires[k] = when]
<1>1. t \in Data /\ t.dict = d.dict
  BY DEF Sound, Data
<1>2. \A x \in Keys : t.expires[x] = IF x = k THEN when ELSE d.expires[x]
  BY DEF Sound, Data
<1> QED
  BY <1>1, <1>2 DEF Sound, Agree, Has

LEMMA LazilyFacts ==
  ASSUME NEW c, NEW K, NEW mode
  PROVE  /\ Lazily(c, K, mode) \subseteq K
         /\ \A k \in Lazily(c, K, mode) : Has(data, k) /\ Expired(data, k)
  BY DEF Lazily, Present

RoleTyped == role \in {"master", "readonly", "writable"}

\* A client that may write finds every key that the lookup left: in a role
\* that may write an expired key is deleted, or counts as one that is there.
LEMMA FoundIsThere ==
  ASSUME Sound(data), RoleTyped, NEW c, Writes(c),
         NEW K \in SUBSET Keys, NEW k \in K,
         NEW gone, Lazily(c, K, "write") \subseteq gone,
         NEW d, d = Deleted(data, gone)
  PROVE  Missing(c, d, k) <=> ~Has(d, k)
<1>1. ASSUME Has(d, k), Expired(d, k) PROVE role # "master" /\ c = "link"
  <2>1. /\ d.expires[k] = IF k \in gone THEN Never ELSE data.expires[k]
        /\ Has(d, k) <=> Has(data, k) /\ k \notin gone
    BY DeletedFacts
  <2>2. Has(data, k) /\ Expired(data, k) /\ k \notin Lazily(c, K, "write")
    BY <1>1, <2>1 DEF Expired
  <2>3. ~Deletes(c, "write")
    BY <2>2 DEF Lazily, Present
  <2> QED
    BY <2>3 DEF Deletes, Writes, RoleTyped
<1> QED
  BY <1>1 DEF Missing

-----------------------------------------------------------------------------
(* What a step makes known of a change. *)

Told(d, e, sig) ==
  \A k \in Keys :
    /\ e.dict[k] # d.dict[k] \/ e.expires[k] # d.expires[k] => k \in sig.touched
    /\ ~Has(d, k) /\ Has(e, k) => k \in sig.ready
    /\ Has(d, k) /\ ~Has(e, k) => k \in sig.deleted

\* What every step keeps, whoever takes it.
Good == Sound(data') /\ Told(data, data', signals') /\ failed' = failed

LEMMA RefusedGood ==
  ASSUME Sound(data), failed \in BOOLEAN, NEW c, NEW gone, NEW answer,
         Refused(c, gone, answer)
  PROVE  Good
<1>1. data' = Deleted(data, gone) /\ signals' = Signalled(Silent, gone)
  BY DEF Refused, Answer
<1>2. signals'.touched = gone /\ signals'.deleted = gone
  BY <1>1 DEF Signalled, Silent
<1> QED
  BY <1>1, <1>2, DeletedFacts DEF Good, Told, Refused, AssertThat

\* All keys but b are in d what they are in data without the keys of gone.
Others(d, gone, b) ==
  \A x \in Keys \ {b} :
    /\ d.dict[x] = IF x \in gone THEN NULL ELSE data.dict[x]
    /\ d.expires[x] = IF x \in gone THEN Never ELSE data.expires[x]

LEMMA ToldPlaced ==
  ASSUME Sound(data), NEW gone, NEW d, Sound(d), NEW sig, NEW b \in Keys,
         NEW v \in Values, NEW when \in Never .. MaxTime,
         NEW e, e = Placed(d, b, v, when),
         Others(d, gone, b),
         {b} \cup gone \subseteq sig.touched, b \in sig.ready,
         gone \subseteq sig.deleted
  PROVE  Sound(e) /\ Told(data, e, sig)
<1>1. /\ Sound(e)
      /\ \A x \in Keys :
           /\ e.dict[x] = IF x = b THEN v ELSE d.dict[x]
           /\ e.expires[x] = IF x = b /\ when # Never THEN when ELSE d.expires[x]
  BY PlacedFacts
<1>2. Has(e, b)
  BY <1>1 DEF Has
<1>3. ASSUME NEW x \in Keys \ {b}, x \notin gone
      PROVE  /\ e.dict[x] = data.dict[x] /\ e.expires[x] = data.expires[x]
             /\ Has(e, x) <=> Has(data, x)
  BY <1>1, <1>3 DEF Has, Others
<1>4. ASSUME NEW x \in Keys \ {b}, x \in gone PROVE ~Has(e, x)
  BY <1>1, <1>4 DEF Has, Others
<1> QED
  BY <1>1, <1>2, <1>3, <1>4 DEF Told

LEMMA ToldDeleted ==
  ASSUME NEW d, NEW e, Sound(e), NEW sig, Told(d, e, sig),
         NEW K, K \subseteq sig.touched, K \subseteq sig.deleted
  PROVE  Sound(Deleted(e, K)) /\ Told(d, Deleted(e, K), sig)
<1>1. PICK f : f = Deleted(e, K)
  OBVIOUS
<1>2. /\ Sound(f)
      /\ \A x \in Keys :
           /\ x \notin K => f.dict[x] = e.dict[x] /\ f.expires[x] = e.expires[x]
           /\ Has(f, x) <=> Has(e, x) /\ x \notin K
  BY <1>1, DeletedFacts
<1>3. Told(d, f, sig)
  BY <1>2 DEF Told
<1> QED
  BY <1>1, <1>2, <1>3

LEMMA SetGood ==
  ASSUME Sound(data), RoleTyped, failed \in BOOLEAN, NEW c,
         NEW k \in Keys, NEW v \in Values, NEW keepttl \in BOOLEAN,
         Set(c, k, v, keepttl)
  PROVE  Good
<1>1. PICK gone, d, e : /\ gone = Lazily(c, {k}, "write")
                        /\ d = Deleted(data, gone)
                        /\ e = Placed(d, k, v, Never)
  OBVIOUS
<1>2. /\ Writes(c)
      /\ AssertThat(~Missing(c, d, k) <=> Has(d, k))
      /\ data' = [e EXCEPT !.expires[k] = IF keepttl THEN @ ELSE Never]
      /\ signals' = Signalled(Signal({k}, {k} \ Present(d, {k}), Present(d, {k})),
                              gone)
  BY <1>1 DEF Set, Answer
<1>3. Missing(c, d, k) <=> ~Has(d, k)
  BY <1>1, <1>2, FoundIsThere
<1>4. /\ signals'.touched = {k} \cup gone
      /\ signals'.ready = {k} \ Present(d, {k})
      /\ signals'.deleted = Present(d, {k}) \cup gone
  BY <1>2 DEF Signalled, Signal
<1>5. Sound(d) /\ Never \in Never .. MaxTime
  BY <1>1, DeletedFacts DEF Never
<1>6. /\ Sound(e) /\ Has(e, k)
      /\ e.expires[k] \in Never .. MaxTime
      /\ \A x \in Keys : x # k => /\ e.dict[x] = d.dict[x]
                                  /\ e.expires[x] = d.expires[x]
                                  /\ Has(e, x) <=> Has(d, x)
  <2>1. Sound(e)
    BY <1>1, <1>5, PlacedFacts
  <2>2. \A x \in Keys :
          /\ e.dict[x] = IF x = k THEN v ELSE d.dict[x]
          /\ Has(e, x) <=> Has(d, x) \/ x = k
    BY <1>1, <1>5, PlacedFacts
  <2>3. \A x \in Keys :
          e.expires[x] = IF x = k /\ Never # Never THEN Never ELSE d.expires[x]
    BY <1>1, <1>5, PlacedFacts
  <2>4. e.expires[k] \in Never .. MaxTime
    BY <2>1 DEF Sound, Data
  <2> QED
    BY <2>1, <2>2, <2>3, <2>4
<1>7. PICK when \in Never .. MaxTime : data' = [e EXCEPT !.expires[k] = when]
  BY <1>2, <1>5, <1>6 DEF Sound, Data
<1>8. /\ Sound(data') /\ data'.dict = e.dict
      /\ \A x \in Keys : x # k => data'.expires[x] = e.expires[x]
  BY <1>6, <1>7, TimedFacts
<1>9. \A x \in Keys : Has(data', x) <=> Has(e, x)
  BY <1>8 DEF Has
<1>10. \A x \in Keys :
         /\ x \notin gone => /\ d.dict[x] = data.dict[x]
                            /\ d.expires[x] = data.expires[x]
         /\ Has(d, x) <=> Has(data, x) /\ x \notin gone
  BY <1>1, DeletedFacts
<1>11. k \in Present(d, {k}) <=> Has(d, k)
  BY DEF Present
<1>12. ASSUME NEW x \in Keys, x # k, x \notin gone
       PROVE  /\ data'.dict[x] = data.dict[x] /\ data'.expires[x] = data.expires[x]
              /\ Has(data', x) <=> Has(data, x)
  BY <1>6, <1>8, <1>9, <1>10, <1>12
<1>13. /\ \A x \in gone : Has(data, x)
       /\ Has(data', k) /\ (~Has(data, k) => k \in signals'.ready)
       /\ {k} \cup gone = signals'.touched /\ gone \subseteq signals'.deleted
  BY <1>1, <1>4, <1>6, <1>9, <1>10, <1>11, LazilyFacts
<1>14. Told(data, data', signals')
  BY <1>12, <1>13 DEF Told
<1> QED
  BY <1>2, <1>3, <1>8, <1>14 DEF Good, AssertThat

LEMMA ExpireGood ==
  ASSUME Sound(data), RoleTyped, failed \in BOOLEAN, NEW c,
         NEW k \in Keys, NEW when \in Never .. MaxTime,
         NEW gone, gone = Lazily(c, {k}, "write"),
         NEW d, d = Deleted(data, gone), Writes(c), ~Missing(c, d, k),
         data' = [d EXCEPT !.expires[k] = when],
         failed' = failed, signals' = Signalled(Signal({k}, {}, {}), gone)
  PROVE  Good
<1>1. Sound(d) /\ Has(d, k)
  BY DeletedFacts, FoundIsThere
<1>2. /\ Sound(data') /\ data'.dict = d.dict
      /\ \A x \in Keys : x # k => data'.expires[x] = d.expires[x]
  BY <1>1, TimedFacts
<1>3. \A x \in Keys : Has(data', x) <=> Has(d, x)
  BY <1>2 DEF Has
<1>4. signals'.touched = {k} \cup gone /\ signals'.deleted = {} \cup gone
  BY DEF Signalled, Signal
<1>5. \A x \in Keys :
        /\ x \notin gone => /\ d.dict[x] = data.dict[x]
                           /\ d.expires[x] = data.expires[x]
        /\ Has(d, x) <=> Has(data, x) /\ x \notin gone
  BY DeletedFacts
<1>6. Told(data, data', signals')
  BY <1>2, <1>3, <1>4, <1>5 DEF Told
<1> QED
  BY <1>2, <1>6 DEF Good

LEMMA DelGood ==
  ASSUME Sound(data), failed \in BOOLEAN, NEW c, NEW K \in SUBSET Keys, Del(c, K)
  PROVE  Good
<1>1. PICK gone, found : /\ gone = Lazily(c, K, "read")
                         /\ found = Present(data, K) \ gone
  OBVIOUS
<1>2. /\ data' = Deleted(data, gone \cup found) /\ failed' = failed
      /\ signals' = Signalled(Signal(found, {}, found), gone)
  BY <1>1 DEF Del, Answer, AssertThat
<1>3. signals'.touched = found \cup gone /\ signals'.deleted = found \cup gone
  BY <1>2 DEF Signalled, Signal
<1> QED
  BY <1>2, <1>3, DeletedFacts DEF Good, Told

\* What RENAME, MOVE and COPY do to the entry they overwrite.
LEMMA RoomFacts ==
  ASSUME Sound(data), NEW c, NEW gone, NEW d, d = Deleted(data, gone),
         NEW b \in Keys, Missing(c, d, b) <=> ~Has(d, b),
         NEW d1, Missing(c, d, b) => d1 = d,
         ~Missing(c, d, b) => d1 = Deleted(d, {b})
  PROVE  Sound(d) /\ Sound(d1) /\ ~Has(d1, b) /\ Others(d1, gone, b)
<1>1. /\ Sound(d)
      /\ \A x \in Keys :
           /\ d.dict[x] = IF x \in gone THEN NULL ELSE data.dict[x]
           /\ d.expires[x] = IF x \in gone THEN Never ELSE data.expires[x]
  BY DeletedFacts
<1>2. CASE Missing(c, d, b)
  BY <1>1, <1>2 DEF Others
<1>3. CASE ~Missing(c, d, b)
  <2>1. d1 = Deleted(d, {b})
    BY <1>3
  <2> QED
    BY <1>1, <2>1, DeletedFacts DEF Others
<1> QED
  BY <1>2, <1>3

LEMMA RenameGood ==
  ASSUME Sound(data), RoleTyped, failed \in BOOLEAN, NEW c,
         NEW a \in Keys, NEW b \in Keys, NEW nx \in BOOLEAN, Rename(c, a, b, nx)
  PROVE  Good
<1>1. PICK gone1, gone, d, d1 :
        /\ gone1 = Lazily(c, {a}, "write") /\ gone = Lazily(c, {a, b}, "write")
        /\ d = Deleted(data, gone)
        /\ d1 = IF ~Missing(c, d, b) THEN Deleted(d, {b}) ELSE d
  OBVIOUS
<1>2. \/ \E g, answer : Refused(c, g, answer)
      \/ /\ ~Missing(c, d, a) /\ a # b /\ AssertThat(~Has(d1, b))
         /\ data' = Deleted(Placed(d1, b, d.dict[a], d.expires[a]), {a})
         /\ signals' =
              Signalled(Signal({a, b}, {b},
                               {a} \cup (IF ~Missing(c, d, b) THEN {b} ELSE {})), gone)
  BY <1>1 DEF Rename, Answer
<1>3. CASE \E g, answer : Refused(c, g, answer)
  BY <1>3, RefusedGood
<1>4. CASE /\ ~Missing(c, d, a) /\ a # b /\ AssertThat(~Has(d1, b))
           /\ data' = Deleted(Placed(d1, b, d.dict[a], d.expires[a]), {a})
           /\ signals' =
                Signalled(Signal({a, b}, {b},
                            {a} \cup (IF ~Missing(c, d, b) THEN {b} ELSE {})), gone)
  <2>1. Writes(c)
    BY DEF Rename
  <2>2. (Missing(c, d, a) <=> ~Has(d, a)) /\ (Missing(c, d, b) <=> ~Has(d, b))
    BY <1>1, <2>1, FoundIsThere
  <2>3. /\ {a, b} \cup gone \subseteq signals'.touched /\ b \in signals'.ready
        /\ {a} \cup gone \subseteq signals'.deleted
    BY <1>4 DEF Signalled, Signal
  <2>4. PICK e : e = Placed(d1, b, d.dict[a], d.expires[a])
    OBVIOUS
  <2>5. /\ Missing(c, d, b) => d1 = d
        /\ ~Missing(c, d, b) => d1 = Deleted(d, {b})
    BY <1>1
  <2>6. Sound(d) /\ Sound(d1) /\ ~Has(d1, b) /\ Others(d1, gone, b)
    BY <1>1, <2>2, <2>5, RoomFacts
  <2>7. d.dict[a] \in Values /\ d.expires[a] \in Never .. MaxTime
    BY <1>4, <2>2, <2>6 DEF Sound, Data, Has
  <2>8. Sound(e) /\ Told(data, e, signals')
    BY <2>3, <2>4, <2>6, <2>7, ToldPlaced
  <2>9. Sound(data') /\ Told(data, data', signals')
    BY <1>4, <2>3, <2>4, <2>8, ToldDeleted
  <2> QED
    BY <1>4, <2>6, <2>9 DEF Good, AssertThat
<1> QED
  BY <1>2, <1>3, <1>4

LEMMA MoveGood ==
  ASSUME Sound(data), RoleTyped, failed \in BOOLEAN, NEW c,
         NEW a \in Keys, NEW db \in Dbs, Move(c, a, db)
  PROVE  Good
<1>1. PICK b, gone1, gone, d :
        /\ b = <<db, a[2]>> /\ gone1 = Lazily(c, {a}, "write")
        /\ gone = Lazily(c, {a, b}, "write") /\ d = Deleted(data, gone)
  OBVIOUS
<1>2. \/ \E g, answer : Refused(c, g, answer)
      \/ /\ ~Missing(c, d, a) /\ Missing(c, d, b) /\ AssertThat(~Has(d, b))
         /\ data' = Deleted(Placed(d, b, d.dict[a], d.expires[a]), {a})
         /\ signals' = Signalled(Signal({a, b}, {b}, {a}), gone)
  BY <1>1 DEF Move, Answer
<1>3. CASE \E g, answer : Refused(c, g, answer)
  BY <1>3, RefusedGood
<1>4. CASE /\ ~Missing(c, d, a) /\ Missing(c, d, b) /\ AssertThat(~Has(d, b))
           /\ data' = Deleted(Placed(d, b, d.dict[a], d.expires[a]), {a})
           /\ signals' = Signalled(Signal({a, b}, {b}, {a}), gone)
  <2>1. Writes(c) /\ b \in Keys
    BY <1>1 DEF Move, Keys
  <2>2. (Missing(c, d, a) <=> ~Has(d, a)) /\ (Missing(c, d, b) <=> ~Has(d, b))
    BY <1>1, <2>1, FoundIsThere
  <2>3. /\ {a, b} \cup gone \subseteq signals'.touched /\ b \in signals'.ready
        /\ {a} \cup gone \subseteq signals'.deleted
    BY <1>4 DEF Signalled, Signal
  <2>4. PICK e : e = Placed(d, b, d.dict[a], d.expires[a])
    OBVIOUS
  <2>5. Sound(d) /\ Others(d, gone, b)
    BY <1>1, DeletedFacts DEF Others
  <2>6. d.dict[a] \in Values /\ d.expires[a] \in Never .. MaxTime
    BY <1>4, <2>2, <2>5 DEF Sound, Data, Has
  <2>7. Sound(e) /\ Told(data, e, signals')
    BY <2>1, <2>3, <2>4, <2>5, <2>6, ToldPlaced
  <2>8. Sound(data') /\ Told(data, data', signals')
    BY <1>4, <2>3, <2>4, <2>7, ToldDeleted
  <2> QED
    BY <1>4, <2>2, <2>8 DEF Good, AssertThat
<1> QED
  BY <1>2, <1>3, <1>4

\* The source of COPY was read: it is there after the lookups of both keys.
LEMMA SourceStays ==
  ASSUME Sound(data), RoleTyped, NEW c, Writes(c), NEW a \in Keys, NEW b \in Keys,
         a # b, ~Missing(c, data, a),
         NEW gone, gone \subseteq Lazily(c, {a}, "read") \cup Lazily(c, {b}, "write"),
         NEW d, d = Deleted(data, gone)
  PROVE  /\ Sound(d) /\ a \notin gone
         /\ d.dict[a] \in Values /\ d.expires[a] \in Never .. MaxTime
         /\ d.dict[a] = data.dict[a] /\ d.expires[a] = data.expires[a]
<1>1. Has(data, a) /\ a \notin Lazily(c, {a}, "read")
  BY DEF Missing, Lazily, Deletes, Writes, RoleTyped
<1>2. a \notin gone
  BY <1>1, LazilyFacts
<1>3. /\ Sound(d) /\ Has(d, a)
      /\ d.dict[a] = data.dict[a] /\ d.expires[a] = data.expires[a]
  BY <1>1, <1>2, KeptFacts
<1> QED
  BY <1>2, <1>3 DEF Sound, Data, Has

LEMMA CopyGood ==
  ASSUME Sound(data), RoleTyped, failed \in BOOLEAN, NEW c,
         NEW a \in Keys, NEW b \in Keys, NEW replace \in BOOLEAN,
         Copy(c, a, b, replace)
  PROVE  Good
<1>1. PICK gone1, gone, d, d1 :
        /\ gone1 = Lazily(c, {a}, "read")
        /\ gone = gone1 \cup Lazily(c, {b}, "write")
        /\ d = Deleted(data, gone)
        /\ d1 = IF ~Missing(c, d, b) THEN Deleted(d, {b}) ELSE d
  OBVIOUS
<1>2. \/ \E g, answer : Refused(c, g, answer)
      \/ /\ ~Missing(c, data, a) /\ AssertThat(~Has(d1, b))
         /\ data' = Placed(d1, b, d.dict[a], d.expires[a])
         /\ signals' =
              Signalled(Signal({b}, {b}, IF ~Missing(c, d, b) THEN {b} ELSE {}), gone)
  BY <1>1 DEF Copy, Answer
<1>3. CASE \E g, answer : Refused(c, g, answer)
  BY <1>3, RefusedGood
<1>4. CASE /\ ~Missing(c, data, a) /\ AssertThat(~Has(d1, b))
           /\ data' = Placed(d1, b, d.dict[a], d.expires[a])
           /\ signals' =
              Signalled(Signal({b}, {b}, IF ~Missing(c, d, b) THEN {b} ELSE {}), gone)
  <2>1. Writes(c) /\ a # b
    BY DEF Copy
  <2>2. Missing(c, d, b) <=> ~Has(d, b)
    <3>1. Lazily(c, {b}, "write") \subseteq gone
      BY <1>1
    <3> QED
      BY <1>1, <2>1, <3>1, FoundIsThere
  <2>3. /\ {b} \cup gone \subseteq signals'.touched /\ b \in signals'.ready
        /\ gone \subseteq signals'.deleted
    BY <1>4 DEF Signalled, Signal
  <2>4. /\ Missing(c, d, b) => d1 = d
        /\ ~Missing(c, d, b) => d1 = Deleted(d, {b})
    BY <1>1
  <2>5. Sound(d) /\ Sound(d1) /\ ~Has(d1, b) /\ Others(d1, gone, b)
    BY <1>1, <2>2, <2>4, RoomFacts
  <2>6. d.dict[a] \in Values /\ d.expires[a] \in Never .. MaxTime
    <3>1. /\ gone \subseteq Lazily(c, {a}, "read") \cup Lazily(c, {b}, "write")
          /\ ~Missing(c, data, a)
      BY <1>1, <1>4
    <3>2. d = Deleted(data, gone)
      BY <1>1
    <3> QED
      BY <2>1, <3>1, <3>2, SourceStays
  <2>7. Sound(data') /\ Told(data, data', signals')
    BY <1>4, <2>3, <2>5, <2>6, ToldPlaced
  <2> QED
    BY <1>4, <2>5, <2>7 DEF Good, AssertThat
<1> QED
  BY <1>2, <1>3, <1>4

LEMMA SwappedFacts ==
  ASSUME NEW d, Sound(d), NEW db1 \in Dbs, NEW db2 \in Dbs
  PROVE  /\ Sound(Swapped(d, db1, db2))
         /\ \A k \in Keys :
              /\ Twin(k, db1, db2) \in Keys
              /\ Swapped(d, db1, db2).dict[k] = d.dict[Twin(k, db1, db2)]
              /\ Swapped(d, db1, db2).expires[k] = d.expires[Twin(k, db1, db2)]
              /\ db1 = db2 \/ k \notin InDb(db1) \cup InDb(db2)
                   => Twin(k, db1, db2) = k
<1>1. \A k \in Keys :
        /\ Twin(k, db1, db2) \in Keys
        /\ db1 = db2 \/ k \notin InDb(db1) \cup InDb(db2) => Twin(k, db1, db2) = k
  BY DEF Keys, Twin, InDb
<1>2. \A k \in Keys :
        /\ Swapped(d, db1, db2).dict[k] = d.dict[Twin(k, db1, db2)]
        /\ Swapped(d, db1, db2).expires[k] = d.expires[Twin(k, db1, db2)]
  BY DEF Swapped
<1>3. Swapped(d, db1, db2) \in Data
  BY <1>1 DEF Swapped, Sound, Data
<1>4. Agree(Swapped(d, db1, db2))
  BY <1>1, <1>2 DEF Agree, Sound, Has
<1> QED
  BY <1>1, <1>2, <1>3, <1>4 DEF Sound

LEMMA SwapGood ==
  ASSUME Sound(data), failed \in BOOLEAN, NEW c,
         NEW db1 \in Dbs, NEW db2 \in Dbs, SwapDb(c, db1, db2)
  PROVE  Good
<1>1. PICK both, left : /\ both = InDb(db1) \cup InDb(db2)
                        /\ left = {k \in both : Has(data, k) # Has(data', k)}
  OBVIOUS
<1>2. /\ data' = Swapped(data, db1, db2) /\ failed' = failed
      /\ db1 # db2 => signals' =
           Signalled(Signal(TouchedBySwap(db1, db2), Present(data', both), left), {})
  BY <1>1 DEF SwapDb, Answer, AssertThat
<1>3. ASSUME db1 # db2
      PROVE  /\ signals'.touched = TouchedBySwap(db1, db2)
             /\ signals'.ready = Present(data', both)
             /\ signals'.deleted = left
  <2>1. PICK t, p : t = TouchedBySwap(db1, db2) /\ p = Present(data', both)
    OBVIOUS
  <2>2. signals' = Signalled(Signal(t, p, left), {})
    BY <1>2, <1>3, <2>1
  <2> QED
    BY <2>1, <2>2 DEF Signalled, Signal
<1>4. /\ Sound(data')
      /\ \A k \in Keys :
           /\ Twin(k, db1, db2) \in Keys
           /\ data'.dict[k] = data.dict[Twin(k, db1, db2)]
           /\ data'.expires[k] = data.expires[Twin(k, db1, db2)]
           /\ db1 = db2 \/ k \notin both => Twin(k, db1, db2) = k
  BY <1>1, <1>2, SwappedFacts
<1>5. ASSUME NEW k \in Keys, db1 = db2 \/ k \notin both
      PROVE  data'.dict[k] = data.dict[k] /\ data'.expires[k] = data.expires[k]
  BY <1>4, <1>5
<1>6. ASSUME NEW k \in both, db1 # db2,
             data'.dict[k] # data.dict[k] \/ data'.expires[k] # data.expires[k]
      PROVE  k \in signals'.touched
  <2>1. k \in Keys
    BY <1>1 DEF InDb
  <2>2. Has(data, k) \/ Has(data, Twin(k, db1, db2))
    BY <1>4, <1>6, <2>1 DEF Sound, Agree, Has
  <2> QED
    BY <1>1, <1>3, <1>6, <2>2 DEF TouchedBySwap
<1>7. ASSUME NEW k \in both, db1 # db2
      PROVE  /\ ~Has(data, k) /\ Has(data', k) => k \in signals'.ready
             /\ Has(data, k) /\ ~Has(data', k) => k \in signals'.deleted
  BY <1>1, <1>3, <1>7 DEF Present
<1> QED
  BY <1>2, <1>4, <1>5, <1>6, <1>7 DEF Good, Told, Has

LEMMA FlushGood ==
  ASSUME Sound(data), failed \in BOOLEAN, NEW c, NEW flushed, Flush(c, flushed)
  PROVE  Good
<1>1. PICK K, found : K = {k \in Keys : k[1] \in flushed} /\ found = Present(data, K)
  OBVIOUS
<1>2. /\ data' = Deleted(data, K) /\ failed' = failed
      /\ signals' = Signalled(Signal(found, {}, found), {})
  BY <1>1 DEF Flush, Answer, AssertThat
<1>3. signals'.touched = found /\ signals'.deleted = found
  BY <1>2 DEF Signalled, Signal
<1>4. \A k \in Keys : Has(data, k) \/ (data.dict[k] = NULL /\ data.expires[k] = Never)
  BY DEF Sound, Agree, Has
<1> QED
  BY <1>1, <1>2, <1>3, <1>4, DeletedFacts DEF Good, Told, Present

LEMMA ExpiringGood ==
  ASSUME Sound(data), RoleTyped, failed \in BOOLEAN, NEW c, NEW k \in Keys,
         \/ Persist(c, k)
         \/ \E when \in 0 .. MaxTime : Expire(c, k, when)
  PROVE  Good
<1>1. PICK gone, d : gone = Lazily(c, {k}, "write") /\ d = Deleted(data, gone)
  OBVIOUS
<1>2. \/ \E answer : Refused(c, gone, answer)
      \/ \E when \in Never .. MaxTime :
           /\ Writes(c) /\ ~Missing(c, d, k) /\ failed' = failed
           /\ data' = [d EXCEPT !.expires[k] = when]
           /\ signals' = Signalled(Signal({k}, {}, {}), gone)
  <2>1. CASE Persist(c, k)
    <3>1. Never \in Never .. MaxTime
      BY DEF Never
    <3> QED
      BY <1>1, <2>1, <3>1 DEF Persist, Answer, AssertThat
  <2>2. CASE \E when \in 0 .. MaxTime : Expire(c, k, when)
    <3>1. PICK when \in 0 .. MaxTime : Expire(c, k, when)
      BY <2>2
    <3>2. when \in Never .. MaxTime
      BY DEF Never
    <3>3. \/ \E answer : Refused(c, gone, answer)
          \/ /\ Writes(c) /\ ~Missing(c, d, k) /\ failed' = (failed \/ ~Has(d, k))
             /\ data' = [d EXCEPT !.expires[k] = when]
             /\ signals' = Signalled(Signal({k}, {}, {}), gone)
      BY <1>1, <3>1 DEF Expire, Answer, AssertThat
    <3>4. ~Missing(c, d, k) => Has(d, k)
      BY DEF Missing
    <3> QED
      BY <3>2, <3>3, <3>4
  <2> QED
    BY <2>1, <2>2
<1>3. CASE \E answer : Refused(c, gone, answer)
  BY <1>3, RefusedGood
<1>4. ASSUME NEW when \in Never .. MaxTime,
             Writes(c), ~Missing(c, d, k), failed' = failed,
             data' = [d EXCEPT !.expires[k] = when],
             signals' = Signalled(Signal({k}, {}, {}), gone)
      PROVE  Good
  BY <1>1, <1>4, ExpireGood
<1> QED
  BY <1>2, <1>3, <1>4

\* Every command that writes, of a user or of the master.
LEMMA WriteGood ==
  ASSUME Sound(data), RoleTyped, failed \in BOOLEAN, NEW c, Write(c)
  PROVE  Good /\ UNCHANGED <<now, role, paused, asking>>
<1>1. Good
  <2>1. CASE \E k \in Keys, v \in Values, keepttl \in BOOLEAN : Set(c, k, v, keepttl)
    BY <2>1, SetGood
  <2>2. CASE \/ \E k \in Keys, when \in 0 .. MaxTime : Expire(c, k, when)
             \/ \E k \in Keys : Persist(c, k)
    BY <2>2, ExpiringGood
  <2>3. CASE \E db \in Dbs : \E K \in SUBSET InDb(db) \ {{}} : Del(c, K)
    BY <2>3, DelGood DEF InDb
  <2>4. CASE \E a, b \in Keys, nx \in BOOLEAN : Rename(c, a, b, nx)
    BY <2>4, RenameGood
  <2>5. CASE \E a \in Keys, db \in Dbs : Move(c, a, db)
    BY <2>5, MoveGood
  <2>6. CASE \E a, b \in Keys, replace \in BOOLEAN : Copy(c, a, b, replace)
    BY <2>6, CopyGood
  <2>7. CASE \E db1, db2 \in Dbs : SwapDb(c, db1, db2)
    BY <2>7, SwapGood
  <2>8. CASE \E flushed \in {{db} : db \in Dbs} \cup {Dbs} : Flush(c, flushed)
    BY <2>8, FlushGood
  <2> QED
    BY <2>1, <2>2, <2>3, <2>4, <2>5, <2>6, <2>7, <2>8 DEF Write
<1>2. UNCHANGED <<now, role, paused, asking>>
  <2>1. ASSUME NEW gone, NEW answer, NEW cmds, NEW sig, Answer(c, gone, answer, cmds, sig)
        PROVE  UNCHANGED <<now, role, paused, asking>>
    BY <2>1 DEF Answer
  <2>2. ASSUME NEW k, NEW v, NEW keepttl, Set(c, k, v, keepttl)
        PROVE  UNCHANGED <<now, role, paused, asking>>
    BY <2>1, <2>2 DEF Set
  <2>3. ASSUME NEW k, \/ Persist(c, k) \/ \E when \in 0 .. MaxTime : Expire(c, k, when)
        PROVE  UNCHANGED <<now, role, paused, asking>>
    BY <2>1, <2>3 DEF Persist, Expire, Refused
  <2>4. ASSUME NEW K, Del(c, K) PROVE UNCHANGED <<now, role, paused, asking>>
    BY <2>1, <2>4 DEF Del
  <2>5. ASSUME NEW a, NEW b, NEW nx, Rename(c, a, b, nx)
        PROVE  UNCHANGED <<now, role, paused, asking>>
    BY <2>1, <2>5 DEF Rename, Refused
  <2>6. ASSUME NEW a, NEW db, Move(c, a, db)
        PROVE  UNCHANGED <<now, role, paused, asking>>
    BY <2>1, <2>6 DEF Move, Refused
  <2>7. ASSUME NEW a, NEW b, NEW replace, Copy(c, a, b, replace)
        PROVE  UNCHANGED <<now, role, paused, asking>>
    BY <2>1, <2>7 DEF Copy, Refused
  <2>8. ASSUME NEW db1, NEW db2, SwapDb(c, db1, db2)
        PROVE  UNCHANGED <<now, role, paused, asking>>
    BY <2>1, <2>8 DEF SwapDb
  <2>9. ASSUME NEW flushed, Flush(c, flushed)
        PROVE  UNCHANGED <<now, role, paused, asking>>
    BY <2>1, <2>9 DEF Flush
  <2> QED
    BY <2>2, <2>3, <2>4, <2>5, <2>6, <2>7, <2>8, <2>9 DEF Write
<1> QED
  BY <1>1, <1>2

-----------------------------------------------------------------------------
(* The other steps. *)

LEMMA UnchangedGood ==
  ASSUME Sound(data), UNCHANGED <<data, failed>> PROVE Good
  BY DEF Good, Told

LEMMA RemovesGood ==
  ASSUME Sound(data), NEW k \in Keys, Removes(k)
  PROVE  Good /\ UNCHANGED <<now, role, paused, asking>>
<1>1. /\ data' = Deleted(data, {k}) /\ failed' = failed
      /\ signals'.touched = {k} /\ signals'.deleted = {k}
      /\ UNCHANGED <<now, role, paused, asking>>
  BY DEF Removes, Quietly, Signal
<1> QED
  BY <1>1, DeletedFacts DEF Good, Told

AskTyped == asking \in [db : Dbs, tries : 1 .. MaxTries, turn : BOOLEAN,
                       allvolatile : BOOLEAN] \cup {NULL}

\* The loop of RANDOMKEY: the tries do not run below one.
LEMMA QueryGood ==
  ASSUME Sound(data), RoleTyped, AskTyped, failed \in BOOLEAN, Query
  PROVE  Good /\ AskTyped' /\ UNCHANGED <<now, role, paused>>
<1>1. CASE \/ \E k \in Keys : Read(k)
           \/ \E db \in Dbs : Scan(db) \/ KeysCommand(db)
  <2>1. PICK gone, answer : Refused("user", gone, answer)
    BY <1>1 DEF Read, Scan, KeysCommand
  <2>2. UNCHANGED <<now, role, paused, asking>>
    BY <2>1 DEF Refused, Answer
  <2> QED
    BY <2>1, <2>2, RefusedGood DEF AskTyped
<1>2. ASSUME NEW db \in Dbs, AskRandom(db)
      PROVE  Good /\ AskTyped' /\ UNCHANGED <<now, role, paused>>
  <2>1. UNCHANGED <<data, now, role, paused, failed>>
    BY <1>2 DEF AskRandom
  <2>2. AskTyped'
    <3>1. MaxTries \in 1 .. MaxTries
      OBVIOUS
    <3> QED
      BY <1>2, <3>1 DEF AskRandom, AskTyped
  <2> QED
    BY <2>1, <2>2, UnchangedGood
<1>3. CASE RandomEmpty \/ RandomFound
  <2>1. asking' = NULL /\ UNCHANGED <<data, now, role, paused, failed>>
    BY <1>3 DEF RandomEmpty, RandomFound, RandomIs
  <2> QED
    BY <2>1, UnchangedGood DEF AskTyped
<1>4. CASE RandomAgain
  <2>1. PICK k \in Present(data, InDb(asking.db)) :
          LET gone == Lazily("user", {k}, "read") IN
          /\ Expired(data, k) /\ ~LastTry(k)
          /\ data' = Deleted(data, gone)
          /\ Quietly(Propagated(gone, <<>>), Signalled(Silent, gone))
    BY <1>4 DEF RandomAgain
  <2>2. /\ asking # NULL /\ UNCHANGED <<now, role, paused, failed>>
        /\ asking' = [asking EXCEPT !.tries = IF Counted THEN @ - 1 ELSE @,
                                   !.turn = ~@]
    BY <1>4 DEF RandomAgain
  <2>3. PICK gone : /\ data' = Deleted(data, gone)
                    /\ signals' = Signalled(Silent, gone)
    BY <2>1 DEF Quietly
  <2>4. signals'.touched = gone /\ signals'.deleted = gone
    BY <2>3 DEF Signalled, Silent
  <2>5. Good
    BY <2>2, <2>3, <2>4, DeletedFacts DEF Good, Told
  <2>6. Counted => asking.tries # 1
    BY <2>1 DEF LastTry, Expired, Never
  <2>7. PICK tries : /\ tries = IF Counted THEN asking.tries - 1 ELSE asking.tries
                     /\ asking' = [asking EXCEPT !.tries = tries,
                                               !.turn = ~asking.turn]
    BY <2>2 DEF AskTyped
  <2>8. tries \in 1 .. MaxTries
    BY <2>2, <2>6, <2>7 DEF AskTyped
  <2>9. AskTyped'
    BY <2>2, <2>7, <2>8 DEF AskTyped
  <2> QED
    BY <2>2, <2>5, <2>9
<1> QED
  BY <1>1, <1>2, <1>3, <1>4 DEF Query, RandomKey

-----------------------------------------------------------------------------
(* The specification. *)

\* The inductive invariant.  The signals need the agreement of the
\* dictionaries: an expire without its key would be moved by SWAPDB, and
\* dropped by FLUSHDB, without touching anyone.
IInv == TypeOK /\ ExpiresHaveKeys /\ NoAssertFails

LEMMA InitIInv == Init => IInv
<1> SUFFICES ASSUME Init PROVE IInv
  OBVIOUS
<1>1. data \in Data /\ Agree(data) /\ role \in {"master", "readonly", "writable"}
  BY DEF Init
<1>2. now \in 0 .. MaxTime /\ paused = FALSE /\ asking = NULL /\ failed = FALSE
  BY DEF Init
<1>3. TypeOK
  BY <1>1, <1>2 DEF TypeOK
<1> QED
  BY <1>1, <1>2, <1>3 DEF IInv, ExpiresHaveKeys, NoAssertFails

LEMMA StepGood ==
  ASSUME IInv, Next
  PROVE  Good /\ TypeOK'
<1>1. /\ Sound(data) /\ RoleTyped /\ AskTyped /\ failed \in BOOLEAN
      /\ now \in 0 .. MaxTime /\ paused \in BOOLEAN
  BY DEF IInv, TypeOK, ExpiresHaveKeys, Sound, RoleTyped, AskTyped
<1>2. Good => data' \in Data /\ failed' \in BOOLEAN
  BY <1>1 DEF Good, Sound
<1>3. CASE Query
  <2>1. Good /\ AskTyped' /\ UNCHANGED <<now, role, paused>>
    BY <1>1, <1>3, QueryGood
  <2> QED
    BY <1>1, <1>2, <2>1 DEF TypeOK, RoleTyped, AskTyped
<1>4. CASE Write("user")
  <2>1. Good /\ UNCHANGED <<now, role, paused, asking>>
    BY <1>1, <1>4, WriteGood
  <2> QED
    BY <1>1, <1>2, <2>1 DEF TypeOK, RoleTyped, AskTyped
<1>5. CASE \E k \in Keys : Evict(k) \/ ExpireCycle(k)
  <2>1. Good /\ UNCHANGED <<now, role, paused, asking>>
    BY <1>1, <1>5, RemovesGood DEF Evict, ExpireCycle
  <2> QED
    BY <1>1, <1>2, <2>1 DEF TypeOK, RoleTyped, AskTyped
<1>6. CASE Tick \/ PauseOrResume \/ Promote
  <2>1. /\ UNCHANGED <<data, failed, asking>>
        /\ now' \in 0 .. MaxTime /\ paused' \in BOOLEAN
        /\ role' \in {"master", "readonly", "writable"}
    <3>1. CASE Tick
      BY <1>1, <3>1 DEF Tick, RoleTyped
    <3>2. CASE PauseOrResume
      BY <1>1, <3>2 DEF PauseOrResume, RoleTyped
    <3>3. CASE Promote
      BY <1>1, <3>3 DEF Promote
    <3> QED
      BY <1>6, <3>1, <3>2, <3>3
  <2>2. Good
    BY <1>1, <2>1, UnchangedGood
  <2> QED
    BY <1>1, <1>2, <2>1, <2>2 DEF TypeOK, AskTyped
<1> QED
  BY <1>3, <1>4, <1>5, <1>6 DEF Next

LEMMA StepIInv == IInv /\ [Next]_vars => IInv'
<1>1. ASSUME IInv, Next PROVE IInv'
  <2>1. Good /\ TypeOK'
    BY <1>1, StepGood
  <2> QED
    BY <1>1, <2>1 DEF Good, Sound, IInv, ExpiresHaveKeys, NoAssertFails
<1>2. ASSUME IInv, UNCHANGED vars PROVE IInv'
  BY <1>2 DEF IInv, TypeOK, ExpiresHaveKeys, NoAssertFails, vars, Agree, Has
<1> QED
  BY <1>1, <1>2

LEMMA SpecIInv == Spec => []IInv
  BY InitIInv, StepIInv, PTL DEF Spec

\* The variables keep their types: the tries of RANDOMKEY never reach zero.
THEOREM TypeCorrect == Spec => []TypeOK
  BY SpecIInv, PTL DEF IInv

\* The dictionaries of a database agree: an expire has its key.
THEOREM ExpiresHaveKeysCorrect == Spec => []ExpiresHaveKeys
  BY SpecIInv, PTL DEF IInv

\* The assertions of dbAdd(), dbSetValue() and setExpire() hold in every
\* command, in every role and whatever is paused.
THEOREM NoAssertFailsCorrect == Spec => []NoAssertFails
  BY SpecIInv, PTL DEF IInv

\* The three together: what every command starts from and leaves behind.
THEOREM KeyspaceSoundCorrect == Spec => []KeyspaceSound
  BY TypeCorrect, ExpiresHaveKeysCorrect, NoAssertFailsCorrect, PTL DEF KeyspaceSound

\* Every change of a key, or of its expire, touches those who watch it.
THEOREM ChangesAreTouchedCorrect == Spec => ChangesAreTouched
<1> DEFINE Touching ==
      \A k \in Keys :
        data'.dict[k] # data.dict[k] \/ data'.expires[k] # data.expires[k]
          => k \in signals'.touched
<1>1. IInv /\ [Next]_vars => [Touching]_vars
  BY StepGood DEF Good, Told
<1>2. Spec => [][Touching]_vars
  BY <1>1, SpecIInv, PTL DEF Spec
<1> QED
  BY <1>2 DEF ChangesAreTouched

\* A key that appears or goes wakes the clients blocked on that.
THEOREM WaitersAreServedCorrect == Spec => WaitersAreServed
<1> DEFINE Serving ==
      \A k \in Keys :
        /\ ~Has(data, k) /\ Has(data', k) => k \in signals'.ready
        /\ Has(data, k) /\ ~Has(data', k) => k \in signals'.deleted
<1>1. IInv /\ [Next]_vars => [Serving]_vars
  BY StepGood DEF Good, Told
<1>2. Spec => [][Serving]_vars
  BY <1>1, SpecIInv, PTL DEF Spec
<1> QED
  BY <1>2 DEF WaitersAreServed

-----------------------------------------------------------------------------
(* The refinement: what clients see of each step. *)

\* What clients see of key k in dictionaries d.
Entry(d, k) == IF ~Has(d, k) \/ Expired(d, k) THEN Gone
               ELSE [val |-> d.dict[k], when |-> d.expires[k]]

LEMMA LiveIs ==
  /\ Live = [k \in Keys |-> Live[k]]
  /\ \A k \in Keys : Live[k] = Entry(data, k)
<1>1. Live = [k \in Keys |-> Entry(data, k)]
  BY DEF Live, Missing, Entry
<1> QED
  BY <1>1

LEMMA LiveBecomes ==
  ASSUME UNCHANGED now
  PROVE  /\ Live' = [k \in Keys |-> Live'[k]]
         /\ \A k \in Keys : Live'[k] = Entry(data', k)
<1>1. Live' = [k \in Keys |-> Entry(data', k)]
  BY DEF Live, Missing, Entry, Expired
<1> QED
  BY <1>1

LEMMA EntryDeleted ==
  ASSUME NEW d, Sound(d), NEW K, NEW e, e = Deleted(d, K)
  PROVE  \A k \in Keys : /\ k \in K => Entry(e, k) = Gone
                         /\ k \notin K => Entry(e, k) = Entry(d, k)
<1>1. \A k \in Keys :
        /\ e.dict[k] = IF k \in K THEN NULL ELSE d.dict[k]
        /\ e.expires[k] = IF k \in K THEN Never ELSE d.expires[k]
  BY DeletedFacts
<1> QED
  BY <1>1 DEF Entry, Has, Expired

\* A key that a lookup deletes had already gone.
LEMMA EntryLazily ==
  ASSUME Sound(data), NEW gone, \A k \in gone : Expired(data, k),
         NEW d, d = Deleted(data, gone)
  PROVE  \A k \in Keys : Entry(d, k) = Entry(data, k)
<1>1. \A k \in gone : Entry(data, k) = Gone
  BY DEF Entry
<1> QED
  BY <1>1, EntryDeleted

LEMMA EntryPlaced ==
  ASSUME NEW d, Sound(d), NEW b \in Keys, ~Has(d, b),
         NEW v \in Values, NEW when \in Never .. MaxTime,
         NEW e, e = Placed(d, b, v, when)
  PROVE  /\ ~(when >= 0 /\ now > when) => Entry(e, b) = [val |-> v, when |-> when]
         /\ \A k \in Keys \ {b} : Entry(e, k) = Entry(d, k)
<1>1. /\ d.expires[b] = Never /\ v # NULL
  BY DEF Sound, Agree
<1>2. \A k \in Keys :
        /\ e.dict[k] = IF k = b THEN v ELSE d.dict[k]
        /\ e.expires[k] = IF k = b /\ when # Never THEN when ELSE d.expires[k]
  BY PlacedFacts
<1>3. e.dict[b] = v /\ e.expires[b] = when
  BY <1>1, <1>2
<1>4. \A k \in Keys \ {b} : e.dict[k] = d.dict[k] /\ e.expires[k] = d.expires[k]
  BY <1>2
<1> QED
  BY <1>1, <1>3, <1>4 DEF Entry, Has, Expired

\* For a user a key is missing when there is nothing to see.
LEMMA MissingIsGone ==
  ASSUME NEW d, NEW k
  PROVE  /\ Missing("user", d, k) <=> Entry(d, k) = Gone
         /\ ~Missing("user", d, k) =>
              /\ Entry(d, k) = [val |-> d.dict[k], when |-> d.expires[k]]
              /\ ~(d.expires[k] >= 0 /\ now > d.expires[k])
  BY DEF Missing, Entry, Gone, Has, Expired

\* A refused command: nothing is to be seen of it but the answer.
LEMMA RefusedLive ==
  ASSUME Sound(data), NEW gone, \A k \in gone : Expired(data, k), NEW answer,
         Refused("user", gone, answer)
  PROVE  Live' = Live /\ reply' = answer /\ UNCHANGED <<now, role>>
<1>1. /\ data' = Deleted(data, gone) /\ reply' = answer
      /\ UNCHANGED <<now, role>>
  BY DEF Refused, Answer
<1>2. \A k \in Keys : Entry(data', k) = Entry(data, k)
  BY <1>1, EntryLazily
<1> QED
  BY <1>1, <1>2, LiveIs, LiveBecomes

LEMMA SetLive ==
  ASSUME Sound(data), RoleTyped, NEW k \in Keys, NEW v \in Values,
         NEW keepttl \in BOOLEAN, Set("user", k, v, keepttl)
  PROVE  L!Set(k, v, keepttl)
<1>1. PICK gone, d, e : /\ gone = Lazily("user", {k}, "write")
                        /\ d = Deleted(data, gone)
                        /\ e = Placed(d, k, v, Never)
  OBVIOUS
<1>2. /\ Writes("user")
      /\ data' = [e EXCEPT !.expires[k] = IF keepttl THEN @ ELSE Never]
      /\ reply' = <<"set", {"ok"}>> /\ UNCHANGED <<now, role>>
  BY <1>1 DEF Set, Answer, Says
<1>3. Sound(d) /\ Never \in Never .. MaxTime
  BY <1>1, DeletedFacts DEF Never
<1>4. \A x \in Keys : Entry(d, x) = Entry(data, x)
  <2>1. \A x \in gone : Expired(data, x)
    BY <1>1, LazilyFacts
  <2> QED
    BY <1>1, <2>1, EntryLazily
<1>5. /\ e \in Data /\ e.dict[k] = v /\ e.expires[k] = d.expires[k]
      /\ \A x \in Keys \ {k} : e.dict[x] = d.dict[x] /\ e.expires[x] = d.expires[x]
  <2>1. Sound(e)
    BY <1>1, <1>3, PlacedFacts
  <2>2. \A x \in Keys : e.dict[x] = IF x = k THEN v ELSE d.dict[x]
    BY <1>1, <1>3, PlacedFacts
  <2>3. \A x \in Keys :
          e.expires[x] = IF x = k /\ Never # Never THEN Never ELSE d.expires[x]
    BY <1>1, <1>3, PlacedFacts
  <2> QED
    BY <2>1, <2>2, <2>3 DEF Sound
<1>6. PICK t : /\ t = IF keepttl THEN e.expires[k] ELSE Never
               /\ data' = [e EXCEPT !.expires[k] = t]
  BY <1>2, <1>5 DEF Data
<1>7. /\ data'.dict[k] = v /\ data'.expires[k] = t
      /\ \A x \in Keys \ {k} : /\ data'.dict[x] = d.dict[x]
                               /\ data'.expires[x] = d.expires[x]
  BY <1>5, <1>6 DEF Data
<1>8. Live[k].when = d.expires[k] /\ ~(d.expires[k] >= 0 /\ now > d.expires[k])
  <2>1. Missing("user", d, k) <=> ~Has(d, k)
    BY <1>1, <1>2, FoundIsThere
  <2>2. CASE Has(d, k)
    BY <1>4, <2>1, <2>2, LiveIs, MissingIsGone
  <2>3. CASE ~Has(d, k)
    <3>1. d.expires[k] = Never
      BY <1>3, <2>3 DEF Sound, Agree
    <3>2. Live[k] = Gone
      BY <1>4, <2>3, LiveIs DEF Entry
    <3> QED
      BY <3>1, <3>2 DEF Gone, Never
  <2> QED
    BY <2>2, <2>3
<1>9. Entry(data', k) = [val |-> v, when |-> t]
  <2>1. ~(t >= 0 /\ now > t)
    BY <1>5, <1>6, <1>8 DEF Never
  <2> QED
    BY <1>7, <2>1 DEF Entry, Has, Expired
<1>10. \A x \in Keys \ {k} : Entry(data', x) = Entry(d, x)
  BY <1>7 DEF Entry, Has, Expired
<1>11. /\ Live'[k] = [val |-> v, when |-> IF keepttl THEN Live[k].when ELSE Never]
       /\ \A x \in Keys \ {k} : Live'[x] = Live[x]
  BY <1>2, <1>4, <1>5, <1>6, <1>8, <1>9, <1>10, LiveIs, LiveBecomes
<1>12. Live' = [Live EXCEPT ![k] =
                 [val |-> v, when |-> IF keepttl THEN @.when ELSE Never]]
  BY <1>2, <1>11, LiveIs, LiveBecomes
<1> QED
  BY <1>2, <1>12 DEF L!Set, L!Answer, L!Never, Never

LEMMA ExpireLive ==
  ASSUME Sound(data), RoleTyped, NEW k \in Keys, NEW when \in 0 .. MaxTime,
         now \in 0 .. MaxTime, Expire("user", k, when)
  PROVE  L!Expire(k, when)
<1>1. PICK gone, d : gone = Lazily("user", {k}, "write") /\ d = Deleted(data, gone)
  OBVIOUS
<1>2. (\A x \in gone : Expired(data, x)) /\ Sound(d)
  BY <1>1, LazilyFacts, DeletedFacts
<1>3. \A x \in Keys : Entry(d, x) = Entry(data, x)
  BY <1>1, <1>2, EntryLazily
<1>4. \/ Missing("user", d, k) /\ Refused("user", gone, Says("expire", "no"))
      \/ /\ ~Missing("user", d, k) /\ when > now
         /\ data' = [d EXCEPT !.expires[k] = when]
         /\ reply' = <<"expire", {"ok"}>> /\ UNCHANGED <<now, role>>
  BY <1>1 DEF Expire, Answer, Says
<1>5. CASE Missing("user", d, k) /\ Refused("user", gone, Says("expire", "no"))
  <2>1. Live[k] = Gone
    BY <1>3, <1>5, LiveIs, MissingIsGone
  <2>2. Live' = Live /\ reply' = <<"expire", {"no"}>> /\ UNCHANGED <<now, role>>
    BY <1>2, <1>5, RefusedLive DEF Says
  <2> QED
    BY <2>1, <2>2 DEF L!Expire, L!Refuse, L!Answer, L!Is, L!Gone, L!Never, Gone, Never
<1>6. CASE /\ ~Missing("user", d, k) /\ when > now
           /\ data' = [d EXCEPT !.expires[k] = when]
           /\ reply' = <<"expire", {"ok"}>> /\ UNCHANGED <<now, role>>
  <2>1. /\ Live[k] = [val |-> d.dict[k], when |-> d.expires[k]] /\ Live[k] # Gone
    BY <1>3, <1>6, LiveIs, MissingIsGone
  <2>2. /\ data'.dict = d.dict /\ data'.expires[k] = when
        /\ \A x \in Keys \ {k} : data'.expires[x] = d.expires[x]
    BY <1>2, <1>6 DEF Sound, Data
  <2>3. Has(d, k)
    BY <1>6 DEF Missing
  <2>4. Entry(data', k) = [val |-> d.dict[k], when |-> when]
    BY <1>6, <2>2, <2>3 DEF Entry, Has, Expired
  <2>5. \A x \in Keys \ {k} : Entry(data', x) = Entry(d, x)
    BY <2>2 DEF Entry, Has, Expired
  <2>6. /\ Live'[k] = [Live[k] EXCEPT !.when = when]
        /\ \A x \in Keys \ {k} : Live'[x] = Live[x]
    BY <1>3, <1>6, <2>1, <2>4, <2>5, LiveIs, LiveBecomes
  <2>7. Live' = [Live EXCEPT ![k].when = when]
    BY <1>6, <2>6, LiveIs, LiveBecomes
  <2> QED
    BY <1>6, <2>1, <2>7 DEF L!Expire, L!Answer, L!Is, L!Gone, L!Never, Gone, Never
<1> QED
  BY <1>4, <1>5, <1>6

LEMMA PersistLive ==
  ASSUME Sound(data), RoleTyped, NEW k \in Keys, Persist("user", k)
  PROVE  L!Persist(k)
<1>1. PICK gone, d : gone = Lazily("user", {k}, "write") /\ d = Deleted(data, gone)
  OBVIOUS
<1>2. (\A x \in gone : Expired(data, x)) /\ Sound(d)
  BY <1>1, LazilyFacts, DeletedFacts
<1>3. \A x \in Keys : Entry(d, x) = Entry(data, x)
  BY <1>1, <1>2, EntryLazily
<1>4. \/ /\ Missing("user", d, k) \/ d.expires[k] = Never
         /\ Refused("user", gone, Says("persist", "no"))
      \/ /\ ~Missing("user", d, k) /\ d.expires[k] # Never
         /\ data' = [d EXCEPT !.expires[k] = Never]
         /\ reply' = <<"persist", {"ok"}>> /\ UNCHANGED <<now, role>>
  BY <1>1 DEF Persist, Answer, Says
<1>5. /\ Missing("user", d, k) => Live[k] = Gone
      /\ ~Missing("user", d, k) =>
           Live[k] = [val |-> d.dict[k], when |-> d.expires[k]]
  BY <1>3, LiveIs, MissingIsGone
<1>6. CASE /\ Missing("user", d, k) \/ d.expires[k] = Never
           /\ Refused("user", gone, Says("persist", "no"))
  <2>1. Live[k].when = Never
    BY <1>5, <1>6 DEF Gone
  <2>2. Live' = Live /\ reply' = <<"persist", {"no"}>> /\ UNCHANGED <<now, role>>
    BY <1>2, <1>6, RefusedLive DEF Says
  <2> QED
    BY <2>1, <2>2 DEF L!Persist, L!Refuse, L!Answer, L!Never, Never
<1>7. CASE /\ ~Missing("user", d, k) /\ d.expires[k] # Never
           /\ data' = [d EXCEPT !.expires[k] = Never]
           /\ reply' = <<"persist", {"ok"}>> /\ UNCHANGED <<now, role>>
  <2>1. /\ data'.dict = d.dict /\ data'.expires[k] = Never
        /\ \A x \in Keys \ {k} : data'.expires[x] = d.expires[x]
    BY <1>2, <1>7 DEF Sound, Data
  <2>2. Has(d, k)
    BY <1>7 DEF Missing
  <2>3. Entry(data', k) = [val |-> d.dict[k], when |-> Never]
    BY <2>1, <2>2 DEF Entry, Has, Expired, Never
  <2>4. \A x \in Keys \ {k} : Entry(data', x) = Entry(d, x)
    BY <2>1 DEF Entry, Has, Expired
  <2>5. /\ Live'[k] = [Live[k] EXCEPT !.when = Never]
        /\ \A x \in Keys \ {k} : Live'[x] = Live[x]
    BY <1>3, <1>5, <1>7, <2>3, <2>4, LiveIs, LiveBecomes
  <2>6. Live' = [Live EXCEPT ![k].when = Never] /\ Live[k].when # Never
    BY <1>5, <1>7, <2>5, LiveIs, LiveBecomes
  <2> QED
    BY <1>7, <2>6 DEF L!Persist, L!Answer, L!Never, Never
<1> QED
  BY <1>4, <1>6, <1>7

LEMMA DelLive ==
  ASSUME Sound(data), RoleTyped, NEW K \in SUBSET Keys, Del("user", K)
  PROVE  L!Del(K)
<1>1. PICK gone, found : /\ gone = Lazily("user", K, "read")
                         /\ found = Present(data, K) \ gone
  OBVIOUS
<1>2. /\ Writes("user") /\ data' = Deleted(data, gone \cup found)
      /\ reply' = <<"del", {IF found = {} THEN "no" ELSE "ok"}>>
      /\ UNCHANGED <<now, role>>
  BY <1>1 DEF Del, Answer, Says
<1>3. \A k \in K : k \in gone \cup found \/ Entry(data, k) = Gone
  BY <1>1 DEF Present, Entry
<1>4. gone \cup found \subseteq K
  BY <1>1, LazilyFacts DEF Present
<1>5. \A k \in Keys : /\ k \in K => Live'[k] = Gone
                      /\ k \notin K => Live'[k] = Live[k]
  <2>1. \A k \in Keys : /\ k \in gone \cup found => Entry(data', k) = Gone
                        /\ k \notin gone \cup found => Entry(data', k) = Entry(data, k)
    BY <1>2, EntryDeleted
  <2> QED
    BY <1>2, <1>3, <1>4, <2>1, LiveIs, LiveBecomes
<1>6. Live' = [k \in Keys |-> IF k \in K THEN Gone ELSE Live[k]]
  BY <1>2, <1>5, LiveBecomes
<1>7. CASE found = {}
  <2>1. \A k \in K : Live[k] = Gone
    BY <1>1, <1>3, <1>7, LiveIs, LazilyFacts DEF Entry
  <2> QED
    BY <1>2, <1>6, <1>7, <2>1
    DEF L!Del, L!Answer, L!Is, L!Without, L!Keys, Keys, L!Gone, L!Never, Gone, Never
<1>8. CASE found # {}
  <2>1. role # "master" \/ \E k \in K : Live[k] # Gone
    <3>1. SUFFICES ASSUME role = "master" PROVE \E k \in K : Live[k] # Gone
      OBVIOUS
    <3>2. PICK k \in found : k \in K /\ Has(data, k) /\ k \notin gone
      BY <1>1, <1>8 DEF Present
    <3>3. ~Expired(data, k)
      BY <1>1, <1>2, <3>1, <3>2 DEF Lazily, Present, Deletes, Writes
    <3> QED
      BY <3>2, <3>3, LiveIs DEF Entry, Gone, Has
  <2>2. reply' = <<"del", {"ok"}>>
    BY <1>2, <1>8
  <2> QED
    BY <1>2, <1>6, <2>1, <2>2
    DEF L!Del, L!Answer, L!Is, L!Without, L!Keys, Keys, L!Gone, L!Never, Gone, Never
<1> QED
  BY <1>7, <1>8

\* The entry that RENAME, MOVE and COPY make.
LEMMA MovedLive ==
  ASSUME Sound(data), NEW gone, \A x \in gone : Expired(data, x),
         NEW d, d = Deleted(data, gone),
         NEW a \in Keys, NEW b \in Keys, a # b, ~Missing("user", d, a),
         Missing("user", d, b) <=> ~Has(d, b),
         NEW d1, Missing("user", d, b) => d1 = d,
         ~Missing("user", d, b) => d1 = Deleted(d, {b}),
         NEW e, e = Placed(d1, b, d.dict[a], d.expires[a])
  PROVE  /\ Sound(e) /\ Live[a] # Gone /\ Entry(e, b) = Live[a]
         /\ \A x \in Keys \ {b} : Entry(e, x) = Live[x]
<1>1. Sound(d) /\ Sound(d1) /\ ~Has(d1, b)
  BY RoomFacts
<1>2. \A x \in Keys : Entry(d, x) = Live[x]
  BY EntryLazily, LiveIs
<1>3. \A x \in Keys \ {b} : Entry(d1, x) = Live[x]
  <2>1. CASE Missing("user", d, b)
    BY <1>2, <2>1
  <2>2. CASE ~Missing("user", d, b)
    BY <1>1, <1>2, <2>2, EntryDeleted
  <2> QED
    BY <2>1, <2>2
<1>4. /\ Live[a] = [val |-> d.dict[a], when |-> d.expires[a]] /\ Live[a] # Gone
      /\ ~(d.expires[a] >= 0 /\ now > d.expires[a])
  BY <1>2, MissingIsGone
<1>5. d.dict[a] \in Values /\ d.expires[a] \in Never .. MaxTime
  BY <1>1 DEF Missing, Has, Sound, Data
<1>6. Sound(e)
  BY <1>1, <1>5, PlacedFacts
<1>7. /\ Entry(e, b) = [val |-> d.dict[a], when |-> d.expires[a]]
      /\ \A x \in Keys \ {b} : Entry(e, x) = Entry(d1, x)
  BY <1>1, <1>4, <1>5, EntryPlaced
<1> QED
  BY <1>3, <1>4, <1>6, <1>7

\* What clients see when the source of RENAME or MOVE goes.
LEMMA MovedAway ==
  ASSUME NEW e, Sound(e), NEW a \in Keys, NEW b \in Keys, a # b, UNCHANGED now,
         Entry(e, b) = Live[a], \A x \in Keys \ {b} : Entry(e, x) = Live[x],
         data' = Deleted(e, {a})
  PROVE  Live' = [[k \in Keys |-> IF k \in {a} THEN Gone ELSE Live[k]]
                    EXCEPT ![b] = Live[a]]
<1>1. Entry(data', a) = Gone /\ \A x \in Keys \ {a} : Entry(data', x) = Entry(e, x)
  BY EntryDeleted
<1>2. \A x \in Keys : Live'[x] = IF x = b THEN Live[a]
                              ELSE IF x = a THEN Gone ELSE Live[x]
  BY <1>1, LiveBecomes
<1> QED
  BY <1>2, LiveBecomes

\* What the refused forms of the commands on two keys know of the first one.
LEMMA FirstLive ==
  ASSUME Sound(data), NEW gone, \A x \in gone : Expired(data, x), NEW k \in Keys
  PROVE  Missing("user", Deleted(data, gone), k) <=> Live[k] = Gone
<1>1. PICK d : d = Deleted(data, gone)
  OBVIOUS
<1>2. Entry(d, k) = Live[k]
  BY <1>1, EntryLazily, LiveIs
<1> QED
  BY <1>1, <1>2, MissingIsGone

LEMMA RenameLive ==
  ASSUME Sound(data), RoleTyped, NEW a \in Keys, NEW b \in Keys,
         NEW nx \in BOOLEAN, Rename("user", a, b, nx)
  PROVE  L!Rename(a, b, nx)
<1>1. PICK gone1, gone, d, d1 :
        /\ gone1 = Lazily("user", {a}, "write")
        /\ gone = Lazily("user", {a, b}, "write")
        /\ d = Deleted(data, gone)
        /\ d1 = IF ~Missing("user", d, b) THEN Deleted(d, {b}) ELSE d
  OBVIOUS
<1>2. /\ \A x \in gone1 : Expired(data, x)
      /\ \A x \in gone : Expired(data, x)
  BY <1>1, LazilyFacts
<1>3. /\ Missing("user", Deleted(data, gone1), a) <=> Live[a] = Gone
      /\ Missing("user", d, a) <=> Live[a] = Gone
      /\ Missing("user", d, b) <=> Live[b] = Gone
  BY <1>1, <1>2, FirstLive
<1>4. CASE /\ Missing("user", Deleted(data, gone1), a)
           /\ Refused("user", gone1, Says("rename", "nokey"))
  <2>1. Live' = Live /\ reply' = <<"rename", {"nokey"}>> /\ UNCHANGED <<now, role>>
    BY <1>2, <1>4, RefusedLive DEF Says
  <2> QED
    BY <1>3, <1>4, <2>1
    DEF L!Rename, L!Refuse, L!Answer, L!Is, L!Gone, L!Never, Gone, Never
<1>5. CASE /\ ~Missing("user", d, a) /\ a = b
           /\ Refused("user", gone, Says("rename", IF nx THEN "no" ELSE "ok"))
  <2>1. PICK word : word = IF nx THEN "no" ELSE "ok"
    OBVIOUS
  <2>2. Refused("user", gone, Says("rename", word))
    BY <1>5, <2>1
  <2>3. Live' = Live /\ reply' = <<"rename", {word}>> /\ UNCHANGED <<now, role>>
    BY <1>2, <2>2, RefusedLive DEF Says
  <2> QED
    BY <1>3, <1>5, <2>1, <2>3
    DEF L!Rename, L!Refuse, L!Answer, L!Is, L!Gone, L!Never, Gone, Never
<1>6. CASE /\ ~Missing("user", d, a) /\ a # b /\ ~Missing("user", d, b) /\ nx
           /\ Refused("user", gone, Says("rename", "no"))
  <2>1. Live' = Live /\ reply' = <<"rename", {"no"}>> /\ UNCHANGED <<now, role>>
    BY <1>2, <1>6, RefusedLive DEF Says
  <2> QED
    BY <1>3, <1>6, <2>1
    DEF L!Rename, L!Refuse, L!Answer, L!Is, L!Gone, L!Never, Gone, Never
<1>7. CASE /\ ~Missing("user", d, a) /\ a # b /\ ~(~Missing("user", d, b) /\ nx)
           /\ data' = Deleted(Placed(d1, b, d.dict[a], d.expires[a]), {a})
           /\ reply' = <<"rename", {"ok"}>> /\ UNCHANGED <<now, role>>
  <2>1. Writes("user")
    BY DEF Rename
  <2>2. Missing("user", d, b) <=> ~Has(d, b)
    BY <1>1, <2>1, FoundIsThere
  <2>3. PICK e : e = Placed(d1, b, d.dict[a], d.expires[a])
    OBVIOUS
  <2>4. /\ Missing("user", d, b) => d1 = d
        /\ ~Missing("user", d, b) => d1 = Deleted(d, {b})
    BY <1>1
  <2>5. /\ Sound(e) /\ Live[a] # Gone /\ Entry(e, b) = Live[a]
        /\ \A x \in Keys \ {b} : Entry(e, x) = Live[x]
    <3>1. d = Deleted(data, gone) /\ ~Missing("user", d, a) /\ a # b
      BY <1>1, <1>7
    <3>2. \A x \in gone : Expired(data, x)
      BY <1>2
    <3> QED
      BY <2>2, <2>3, <2>4, <3>1, <3>2, MovedLive
  <2>6. Live' = [[k \in Keys |-> IF k \in {a} THEN Gone ELSE Live[k]]
                    EXCEPT ![b] = Live[a]]
    BY <1>7, <2>3, <2>5, MovedAway
  <2> QED
    BY <1>3, <1>7, <2>5, <2>6
    DEF L!Rename, L!Answer, L!Is, L!Without, L!Keys, Keys, L!Gone, L!Never, Gone, Never
<1> QED
  BY <1>1, <1>4, <1>5, <1>6, <1>7 DEF Rename, Answer, Says

LEMMA MoveLive ==
  ASSUME Sound(data), RoleTyped, NEW a \in Keys, NEW db \in Dbs,
         Move("user", a, db)
  PROVE  <<db, a[2]>> \in Keys /\ L!Move(a, <<db, a[2]>>)
<1>1. PICK b, gone1, gone, d :
        /\ b = <<db, a[2]>> /\ gone1 = Lazily("user", {a}, "write")
        /\ gone = Lazily("user", {a, b}, "write") /\ d = Deleted(data, gone)
  OBVIOUS
<1>2. /\ \A x \in gone1 : Expired(data, x)
      /\ \A x \in gone : Expired(data, x)
  BY <1>1, LazilyFacts
<1>3. b \in Keys /\ a # b /\ Writes("user")
  BY <1>1 DEF Move, Keys
<1>4. /\ Missing("user", Deleted(data, gone1), a) <=> Live[a] = Gone
      /\ Missing("user", d, a) <=> Live[a] = Gone
      /\ Missing("user", d, b) <=> Live[b] = Gone
  BY <1>1, <1>2, <1>3, FirstLive
<1>5. CASE /\ Missing("user", Deleted(data, gone1), a)
           /\ Refused("user", gone1, Says("move", "no"))
  <2>1. Live' = Live /\ reply' = <<"move", {"no"}>> /\ UNCHANGED <<now, role>>
    BY <1>2, <1>5, RefusedLive DEF Says
  <2>2. L!Move(a, b)
    BY <1>4, <1>5, <2>1
    DEF L!Move, L!Refuse, L!Answer, L!Is, L!Gone, L!Never, Gone, Never
  <2> QED
    BY <1>1, <1>3, <2>2
<1>6. CASE /\ ~Missing("user", d, a) /\ ~Missing("user", d, b)
           /\ Refused("user", gone, Says("move", "no"))
  <2>1. Live' = Live /\ reply' = <<"move", {"no"}>> /\ UNCHANGED <<now, role>>
    BY <1>2, <1>6, RefusedLive DEF Says
  <2>2. L!Move(a, b)
    BY <1>4, <1>6, <2>1
    DEF L!Move, L!Refuse, L!Answer, L!Is, L!Gone, L!Never, Gone, Never
  <2> QED
    BY <1>1, <1>3, <2>2
<1>7. CASE /\ ~Missing("user", d, a) /\ Missing("user", d, b)
           /\ data' = Deleted(Placed(d, b, d.dict[a], d.expires[a]), {a})
           /\ reply' = <<"move", {"ok"}>> /\ UNCHANGED <<now, role>>
  <2>1. Missing("user", d, b) <=> ~Has(d, b)
    BY <1>1, <1>3, FoundIsThere
  <2>2. PICK e : e = Placed(d, b, d.dict[a], d.expires[a])
    OBVIOUS
  <2>3. /\ Sound(e) /\ Live[a] # Gone /\ Entry(e, b) = Live[a]
        /\ \A x \in Keys \ {b} : Entry(e, x) = Live[x]
    <3>1. d = Deleted(data, gone) /\ ~Missing("user", d, a) /\ Missing("user", d, b)
      BY <1>1, <1>7
    <3>2. \A x \in gone : Expired(data, x)
      BY <1>2
    <3>3. PICK d1 : d1 = d
      OBVIOUS
    <3>4. /\ Missing("user", d, b) => d1 = d
          /\ ~Missing("user", d, b) => d1 = Deleted(d, {b})
      BY <3>1, <3>3
    <3>5. e = Placed(d1, b, d.dict[a], d.expires[a]) /\ ~Missing("user", d, a)
      BY <2>2, <3>1, <3>3
    <3>6. d = Deleted(data, gone) /\ b \in Keys /\ a # b
      BY <1>3, <3>1
    <3> QED
      BY <2>1, <3>2, <3>4, <3>5, <3>6, MovedLive
  <2>4. Live' = [[k \in Keys |-> IF k \in {a} THEN Gone ELSE Live[k]]
                    EXCEPT ![b] = Live[a]]
    BY <1>3, <1>7, <2>2, <2>3, MovedAway
  <2>5. L!Move(a, b)
    BY <1>4, <1>7, <2>3, <2>4
    DEF L!Move, L!Answer, L!Is, L!Without, L!Keys, Keys, L!Gone, L!Never, Gone, Never
  <2> QED
    BY <1>1, <1>3, <2>5
<1> QED
  BY <1>1, <1>5, <1>6, <1>7 DEF Move, Answer, Says

LEMMA CopyLive ==
  ASSUME Sound(data), RoleTyped, NEW a \in Keys, NEW b \in Keys,
         NEW replace \in BOOLEAN, Copy("user", a, b, replace)
  PROVE  L!Copy(a, b, replace) /\ a # b
<1>1. PICK gone1, gone, d, d1 :
        /\ gone1 = Lazily("user", {a}, "read")
        /\ gone = gone1 \cup Lazily("user", {b}, "write")
        /\ d = Deleted(data, gone)
        /\ d1 = IF ~Missing("user", d, b) THEN Deleted(d, {b}) ELSE d
  OBVIOUS
<1>2. /\ \A x \in gone1 : Expired(data, x)
      /\ \A x \in gone : Expired(data, x)
  BY <1>1, LazilyFacts
<1>3. /\ Missing("user", data, a) <=> Live[a] = Gone
      /\ Missing("user", d, a) <=> Live[a] = Gone
      /\ Missing("user", d, b) <=> Live[b] = Gone
  BY <1>1, <1>2, FirstLive, LiveIs, MissingIsGone
<1>4. CASE Missing("user", data, a) /\ Refused("user", gone1, Says("copy", "no"))
  <2>1. Live' = Live /\ reply' = <<"copy", {"no"}>> /\ UNCHANGED <<now, role>>
    BY <1>2, <1>4, RefusedLive DEF Says
  <2> QED
    BY <1>3, <1>4, <2>1
    DEF Copy, L!Copy, L!Refuse, L!Answer, L!Is, L!Gone, L!Never, Gone, Never
<1>5. CASE /\ ~Missing("user", data, a) /\ ~Missing("user", d, b) /\ ~replace
           /\ Refused("user", gone, Says("copy", "no"))
  <2>1. Live' = Live /\ reply' = <<"copy", {"no"}>> /\ UNCHANGED <<now, role>>
    BY <1>2, <1>5, RefusedLive DEF Says
  <2> QED
    BY <1>3, <1>5, <2>1
    DEF Copy, L!Copy, L!Refuse, L!Answer, L!Is, L!Gone, L!Never, Gone, Never
<1>6. CASE /\ ~Missing("user", data, a) /\ ~(~Missing("user", d, b) /\ ~replace)
           /\ data' = Placed(d1, b, d.dict[a], d.expires[a])
           /\ reply' = <<"copy", {"ok"}>> /\ UNCHANGED <<now, role>>
  <2>1. Writes("user") /\ a # b
    BY DEF Copy
  <2>2. Missing("user", d, b) <=> ~Has(d, b)
    <3>1. Lazily("user", {b}, "write") \subseteq gone
      BY <1>1
    <3> QED
      BY <1>1, <2>1, <3>1, FoundIsThere
  <2>3. /\ Missing("user", d, b) => d1 = d
        /\ ~Missing("user", d, b) => d1 = Deleted(d, {b})
    BY <1>1
  <2>4. /\ Live[a] # Gone /\ Entry(data', b) = Live[a]
        /\ \A x \in Keys \ {b} : Entry(data', x) = Live[x]
    <3>1. d = Deleted(data, gone) /\ ~Missing("user", d, a)
      BY <1>1, <1>3, <1>6
    <3> QED
      BY <1>2, <1>6, <2>1, <2>2, <2>3, <3>1, MovedLive
  <2>5. Live' = [Live EXCEPT ![b] = Live[a]]
    BY <1>6, <2>4, LiveIs, LiveBecomes
  <2> QED
    BY <1>3, <1>6, <2>1, <2>4, <2>5
    DEF L!Copy, L!Answer, L!Is, L!Gone, L!Never, Gone, Never
<1> QED
  BY <1>1, <1>4, <1>5, <1>6 DEF Copy, Answer, Says

LEMMA SwapLive ==
  ASSUME Sound(data), NEW db1 \in Dbs, NEW db2 \in Dbs, SwapDb("user", db1, db2)
  PROVE  L!Swap(db1, db2)
<1>1. /\ data' = Swapped(data, db1, db2) /\ reply' = <<"swapdb", {"ok"}>>
      /\ UNCHANGED <<now, role>>
  BY DEF SwapDb, Answer, Says
<1>2. \A k \in Keys : /\ Twin(k, db1, db2) \in Keys
                      /\ data'.dict[k] = data.dict[Twin(k, db1, db2)]
                      /\ data'.expires[k] = data.expires[Twin(k, db1, db2)]
  BY <1>1, SwappedFacts
<1>3. \A k \in Keys : Entry(data', k) = Entry(data, Twin(k, db1, db2))
  BY <1>2 DEF Entry, Has, Expired
<1>4. Live' = [k \in Keys |-> Live[Twin(k, db1, db2)]]
  BY <1>1, <1>2, <1>3, LiveIs, LiveBecomes
<1> QED
  BY <1>1, <1>4 DEF L!Swap, L!Answer, L!Keys, Keys, L!Twin, Twin

LEMMA FlushLive ==
  ASSUME Sound(data), NEW flushed, Flush("user", flushed)
  PROVE  L!Flush(flushed)
<1>1. PICK K : K = {k \in Keys : k[1] \in flushed}
  OBVIOUS
<1>2. /\ data' = Deleted(data, K) /\ reply' = <<"flush", {"ok"}>>
      /\ UNCHANGED <<now, role>>
  BY <1>1 DEF Flush, Answer, Says
<1>3. Live' = [k \in Keys |-> IF k \in K THEN Gone ELSE Live[k]]
  <2>1. \A k \in Keys : /\ k \in K => Entry(data', k) = Gone
                        /\ k \notin K => Entry(data', k) = Entry(data, k)
    BY <1>2, EntryDeleted
  <2> QED
    BY <1>2, <2>1, LiveIs, LiveBecomes
<1> QED
  BY <1>1, <1>2, <1>3
  DEF L!Flush, L!Answer, L!Without, L!Keys, Keys, L!Gone, L!Never, Gone, Never

LEMMA RemovesLive ==
  ASSUME Sound(data), NEW k \in Keys, Removes(k)
  PROVE  L!Evict(k)
<1>1. data' = Deleted(data, {k}) /\ reply' = <<>> /\ UNCHANGED <<now, role>>
  BY DEF Removes, Quietly
<1>2. Live' = [x \in Keys |-> IF x \in {k} THEN Gone ELSE Live[x]]
  <2>1. \A x \in Keys : /\ x \in {k} => Entry(data', x) = Gone
                        /\ x \notin {k} => Entry(data', x) = Entry(data, x)
    BY <1>1, EntryDeleted
  <2> QED
    BY <1>1, <2>1, LiveIs, LiveBecomes
<1> QED
  BY <1>1, <1>2
  DEF L!Evict, L!Without, L!Keys, Keys, L!Gone, L!Never, Gone, Never

LEMMA TickLive ==
  ASSUME Sound(data), now \in 0 .. MaxTime, Tick
  PROVE  L!Tick
<1>1. now' = now + 1 /\ data' = data /\ reply' = <<>> /\ role' = role
  BY DEF Tick, Quietly
<1>2. Live' = [k \in Keys |->
                 IF ~Has(data, k) \/ (data.expires[k] >= 0 /\ now' > data.expires[k])
                 THEN Gone
                 ELSE [val |-> data.dict[k], when |-> data.expires[k]]]
  BY <1>1 DEF Live, Missing, Expired, Has
<1>3. ASSUME NEW k \in Keys
      PROVE  Live'[k] = IF Live[k].when >= 0 /\ now' > Live[k].when THEN Gone
                        ELSE Live[k]
  <2>1. data.expires[k] \in Never .. MaxTime
    BY DEF Sound, Data
  <2>2. CASE ~Has(data, k) \/ Expired(data, k)
    <3>1. Live[k] = Gone /\ Gone.when = Never
      BY <2>2, LiveIs DEF Entry, Gone
    <3> QED
      BY <1>1, <1>2, <2>1, <2>2, <3>1 DEF Expired, Never
  <2>3. CASE ~(~Has(data, k) \/ Expired(data, k))
    <3>1. Live[k] = [val |-> data.dict[k], when |-> data.expires[k]]
      BY <2>3, LiveIs DEF Entry
    <3> QED
      BY <1>2, <2>3, <3>1
  <2> QED
    BY <2>2, <2>3
<1>4. Live' = [k \in Keys |-> IF k \in {x \in Keys : Live[x].when >= 0
                                                     /\ now' > Live[x].when}
                              THEN Gone ELSE Live[k]]
  BY <1>2, <1>3
<1> QED
  BY <1>1, <1>4 DEF L!Tick, L!Without, L!Keys, Keys, L!Gone, L!Never, Gone, Never

LEMMA ReadLive ==
  ASSUME Sound(data), NEW k \in Keys, Read(k)
  PROVE  L!Read(k)
<1>1. PICK gone, shown :
        /\ gone = Lazily("user", {k}, "read")
        /\ shown = IF Missing("user", data, k) THEN {} ELSE {data.dict[k]}
  OBVIOUS
<1>2. (\A x \in gone : Expired(data, x)) /\ Refused("user", gone, <<"get", shown>>)
  BY <1>1, LazilyFacts DEF Read
<1>3. Live' = Live /\ reply' = <<"get", shown>> /\ UNCHANGED <<now, role>>
  BY <1>2, RefusedLive
<1>4. shown = IF Live[k] # Gone THEN {Live[k].val} ELSE {}
  <2>1. Missing("user", data, k) <=> Live[k] = Gone
    BY LiveIs, MissingIsGone
  <2>2. ~Missing("user", data, k) => Live[k].val = data.dict[k]
    BY LiveIs, MissingIsGone
  <2> QED
    BY <1>1, <2>1, <2>2
<1> QED
  BY <1>3, <1>4 DEF L!Read, L!Shows, L!Is, L!Gone, L!Never, Gone, Never

LEMMA ListLive ==
  ASSUME Sound(data), NEW db \in Dbs, Scan(db) \/ KeysCommand(db)
  PROVE  L!List(db)
<1>1. PICK gone \in {{}, Lazily("user", InDb(db), "read")} :
        Refused("user", gone, Visible(db))
  BY DEF Scan, KeysCommand
<1>2. \A x \in gone : Expired(data, x)
  BY <1>1, LazilyFacts
<1>3. Live' = Live /\ reply' = Visible(db) /\ UNCHANGED <<now, role>>
  BY <1>1, <1>2, RefusedLive
<1>4. Visible(db) = <<"keys", {k[2] : k \in {x \in InDb(db) : Live[x] # Gone}}>>
  <2>1. {x \in InDb(db) : ~Missing("user", data, x)} = {x \in InDb(db) : Live[x] # Gone}
    BY LiveIs, MissingIsGone DEF InDb
  <2> QED
    BY <2>1 DEF Visible
<1> QED
  BY <1>3, <1>4
  DEF L!List, L!Shows, L!Is, L!InDb, InDb, L!Keys, Keys, L!Gone, L!Never, Gone, Never

LEMMA QuietLive ==
  ASSUME Sound(data), PauseOrResume \/ \E db \in Dbs : AskRandom(db)
  PROVE  L!Work
<1>1. data' = data /\ reply' = <<>> /\ UNCHANGED <<now, role>>
  BY DEF PauseOrResume, AskRandom, Quietly
<1> QED
  BY <1>1, LiveIs, LiveBecomes DEF L!Work, L!Quiet

LEMMA PromoteLive ==
  ASSUME Promote
  PROVE  L!Promote
<1>1. data' = data /\ reply' = <<>> /\ UNCHANGED now /\ role' = "master"
  BY DEF Promote, Quietly
<1> QED
  BY <1>1, LiveIs, LiveBecomes DEF L!Promote, L!Quiet

LEMMA RandomLive ==
  ASSUME Sound(data), AskTyped, RandomKey
  PROVE  L!Work \/ \E db \in Dbs : L!RandomKey(db)
<1>1. CASE RandomAgain
  <2>1. PICK k : /\ data' = Deleted(data, Lazily("user", {k}, "read"))
                 /\ reply' = <<>> /\ UNCHANGED <<now, role>>
    BY <1>1 DEF RandomAgain, Quietly
  <2>2. PICK gone : gone = Lazily("user", {k}, "read")
    OBVIOUS
  <2>3. \A x \in gone : Expired(data, x)
    BY <2>2, LazilyFacts
  <2>4. \A x \in Keys : Entry(data', x) = Entry(data, x)
    BY <2>1, <2>2, <2>3, EntryLazily
  <2>5. Live' = Live
    BY <2>1, <2>4, LiveIs, LiveBecomes
  <2> QED
    BY <2>1, <2>5 DEF L!Work, L!Quiet
<1>2. CASE RandomEmpty \/ RandomFound
  <2>1. PICK db \in Dbs : asking # NULL /\ asking.db = db
    BY <1>2 DEF AskTyped, RandomEmpty, RandomFound
  <2>2. data' = data /\ UNCHANGED <<now, role>>
    BY <1>2 DEF RandomEmpty, RandomFound, RandomIs
  <2>3. Live' = Live
    BY <2>2, LiveIs, LiveBecomes
  <2>4. CASE RandomEmpty
    <3>1. reply' = <<"random", {}>> /\ Present(data, InDb(db)) = {}
      BY <2>1, <2>4 DEF RandomEmpty, RandomIs
    <3>2. \A k \in InDb(db) : Live[k] = Gone
      BY <3>1, LiveIs DEF Present, Entry, InDb
    <3>3. L!RandomKey(db)
      BY <2>2, <2>3, <3>1, <3>2
      DEF L!RandomKey, L!Shows, L!Is, L!InDb, InDb, L!Keys, Keys,
          L!Gone, L!Never, Gone, Never
    <3> QED
      BY <3>3
  <2>5. CASE RandomFound
    <3>1. PICK k \in Present(data, InDb(db)) :
            /\ LastTry(k) \/ ~Expired(data, k)
            /\ reply' = <<"random", {k[2]}>>
      BY <2>1, <2>5 DEF RandomFound, RandomIs
    <3>2. k \in InDb(db) /\ k \in Keys /\ Has(data, k)
      BY <3>1 DEF Present, InDb
    <3>3. role # "master" \/ Live[k] # Gone
      BY <3>1, <3>2, LiveIs DEF LastTry, Counted, Entry, Has, Gone
    <3>4. L!RandomKey(db)
      BY <2>2, <2>3, <3>1, <3>2, <3>3
      DEF L!RandomKey, L!Refuse, L!Answer, L!Is, L!InDb, InDb, L!Keys, Keys,
          L!Gone, L!Never, Gone, Never
    <3> QED
      BY <3>4
  <2> QED
    BY <1>2, <2>4, <2>5
<1> QED
  BY <1>1, <1>2 DEF RandomKey

LEMMA WriteLive ==
  ASSUME Sound(data), RoleTyped, now \in 0 .. MaxTime, Write("user")
  PROVE  L!Next
<1> USE DEF L!Keys, Keys, L!InDb, InDb
<1>1. ASSUME NEW k \in Keys, NEW v \in Values, NEW keepttl \in BOOLEAN,
             Set("user", k, v, keepttl)
      PROVE  L!Next
  BY <1>1, SetLive DEF L!Next
<1>2. ASSUME NEW k \in Keys, NEW when \in 0 .. MaxTime, Expire("user", k, when)
      PROVE  L!Next
  BY <1>2, ExpireLive DEF L!Next
<1>3. ASSUME NEW k \in Keys, Persist("user", k) PROVE L!Next
  BY <1>3, PersistLive DEF L!Next
<1>4. ASSUME NEW db \in Dbs, NEW K \in SUBSET InDb(db), Del("user", K) PROVE L!Next
  BY <1>4, DelLive DEF L!Next
<1>5. ASSUME NEW a \in Keys, NEW b \in Keys, NEW nx \in BOOLEAN,
             Rename("user", a, b, nx)
      PROVE  L!Next
  BY <1>5, RenameLive DEF L!Next
<1>6. ASSUME NEW a \in Keys, NEW db \in Dbs, Move("user", a, db) PROVE L!Next
  BY <1>6, MoveLive DEF L!Next
<1>7. ASSUME NEW a \in Keys, NEW b \in Keys, NEW replace \in BOOLEAN,
             Copy("user", a, b, replace)
      PROVE  L!Next
  BY <1>7, CopyLive DEF L!Next
<1>8. ASSUME NEW db1 \in Dbs, NEW db2 \in Dbs, SwapDb("user", db1, db2) PROVE L!Next
  BY <1>8, SwapLive DEF L!Next
<1>9. ASSUME NEW flushed \in SUBSET Dbs, Flush("user", flushed) PROVE L!Next
  BY <1>9, FlushLive DEF L!Next
<1> QED
  BY <1>1, <1>2, <1>3, <1>4, <1>5, <1>6, <1>7, <1>8, <1>9 DEF Write

LEMMA StepLive ==
  ASSUME Sound(data), TypeOK, [Next]_vars
  PROVE  L!Next \/ UNCHANGED L!vars
<1> USE DEF L!Keys, Keys, L!InDb, InDb
<1>1. RoleTyped /\ AskTyped /\ now \in 0 .. MaxTime
  BY DEF TypeOK, RoleTyped, AskTyped
<1>2. ASSUME NEW k \in Keys, Read(k) PROVE L!Next
  BY <1>2, ReadLive DEF L!Next
<1>3. ASSUME NEW db \in Dbs, Scan(db) \/ KeysCommand(db) PROVE L!Next
  BY <1>3, ListLive DEF L!Next
<1>4. ASSUME PauseOrResume \/ \E db \in Dbs : AskRandom(db) PROVE L!Next
  BY <1>4, QuietLive DEF L!Next
<1>5. CASE RandomKey
  BY <1>1, <1>5, RandomLive DEF L!Next
<1>6. CASE Write("user")
  BY <1>1, <1>6, WriteLive
<1>7. ASSUME NEW k \in Keys, Evict(k) \/ ExpireCycle(k) PROVE L!Next
  BY <1>7, RemovesLive DEF Evict, ExpireCycle, L!Next
<1>8. CASE Tick
  BY <1>1, <1>8, TickLive DEF L!Next
<1>9. CASE Promote
  BY <1>9, PromoteLive DEF L!Next
<1>10. CASE UNCHANGED vars
  <2>1. UNCHANGED <<data, now, reply, role>>
    BY <1>10 DEF vars
  <2> QED
    BY <2>1, LiveIs, LiveBecomes DEF L!vars
<1> QED
  BY <1>2, <1>3, <1>4, <1>5, <1>6, <1>7, <1>8, <1>9, <1>10 DEF Next, Query

LEMMA InitLive == Init => L!Init
<1> SUFFICES ASSUME Init PROVE L!Init
  OBVIOUS
<1>1. data \in Data /\ now = 0 /\ reply = <<>>
  BY DEF Init
<1>2. \A k \in Keys : Live[k] \in L!Entries
  BY <1>1, LiveIs
  DEF Data, Entry, Has, L!Entries, L!Gone, L!Never, Gone, Never
<1>3. Live \in [Keys -> L!Entries]
  BY <1>2, LiveIs
<1> QED
  BY <1>1, <1>3 DEF L!Init, L!Keys, Keys

\* The server implements the map of module LiveKeyspace, in every role: when
\* and by whom an expired key is deleted is not to be seen.
THEOREM LiveCorrect == Spec => LiveSpec
<1>1. IInv /\ [Next]_vars => [L!Next]_(L!vars)
  BY StepLive DEF IInv, TypeOK, ExpiresHaveKeys, Sound
<1>2. Spec => L!Init /\ [][L!Next]_(L!vars)
  BY <1>1, InitLive, SpecIInv, PTL DEF Spec
<1> QED
  BY <1>2 DEF LiveSpec, L!Spec

-----------------------------------------------------------------------------
(* The replication stream: what a command does to dictionaries in which no *)
(* key counts as expired, and what the master sends of it.                 *)

\* The entry that is overwritten goes first.
Room(d, b) == IF Has(d, b) THEN Deleted(d, {b}) ELSE d

AfterSet(d, k, v, keepttl) ==
  [Placed(d, k, v, Never) EXCEPT !.expires[k] = IF keepttl THEN @ ELSE Never]
AfterExpire(d, k, when) == IF Has(d, k) THEN [d EXCEPT !.expires[k] = when] ELSE d
AfterRename(d, a, b, nx) ==
  IF ~Has(d, a) \/ a = b \/ (Has(d, b) /\ nx) THEN d
  ELSE Deleted(Placed(Room(d, b), b, d.dict[a], d.expires[a]), {a})
AfterMove(d, a, db) ==
  IF ~Has(d, a) \/ Has(d, <<db, a[2]>>) THEN d
  ELSE Deleted(Placed(d, <<db, a[2]>>, d.dict[a], d.expires[a]), {a})
AfterCopy(d, a, b, replace) ==
  IF ~Has(d, a) \/ (Has(d, b) /\ ~replace) THEN d
  ELSE Placed(Room(d, b), b, d.dict[a], d.expires[a])

\* The dictionaries after a command.
Applied(d, cmd) ==
  CASE cmd.op = "set"     -> AfterSet(d, cmd.key, cmd.val, cmd.keepttl)
    [] cmd.op = "expire"  -> AfterExpire(d, cmd.key, cmd.when)
    [] cmd.op = "persist" -> AfterExpire(d, cmd.key, Never)
    [] cmd.op = "del"     -> Deleted(d, cmd.keys)
    [] cmd.op = "rename"  -> AfterRename(d, cmd.from, cmd.to, cmd.nx)
    [] cmd.op = "move"    -> AfterMove(d, cmd.key, cmd.db)
    [] cmd.op = "copy"    -> AfterCopy(d, cmd.from, cmd.to, cmd.replace)
    [] cmd.op = "swapdb"  -> Swapped(d, cmd.one, cmd.two)
    [] cmd.op = "flush"   -> Deleted(d, {k \in Keys : k[1] \in cmd.dbs})

\* The commands that a master sends.
Commands ==
  [op : {"set"}, key : Keys, val : Values, keepttl : BOOLEAN]
    \cup [op : {"expire"}, key : Keys, when : 0 .. MaxTime]
    \cup [op : {"persist"}, key : Keys]
    \cup [op : {"del"}, keys : SUBSET Keys]
    \cup [op : {"rename"}, from : Keys, to : Keys, nx : BOOLEAN]
    \cup [op : {"move"}, key : Keys, db : Dbs]
    \cup [op : {"copy"}, from : Keys, to : Keys, replace : BOOLEAN]
    \cup [op : {"swapdb"}, one : Dbs, two : Dbs]
    \cup [op : {"flush"}, dbs : {{db} : db \in Dbs} \cup {Dbs}]

\* A command as the link to the master executes it.
Executes(cmd) ==
  \/ cmd.op = "set" /\ Set("link", cmd.key, cmd.val, cmd.keepttl)
  \/ cmd.op = "expire" /\ Expire("link", cmd.key, cmd.when)
  \/ cmd.op = "persist" /\ Persist("link", cmd.key)
  \/ cmd.op = "del" /\ Del("link", cmd.keys)
  \/ cmd.op = "rename" /\ Rename("link", cmd.from, cmd.to, cmd.nx)
  \/ cmd.op = "move" /\ Move("link", cmd.key, cmd.db)
  \/ cmd.op = "copy" /\ Copy("link", cmd.from, cmd.to, cmd.replace)
  \/ cmd.op = "swapdb" /\ SwapDb("link", cmd.one, cmd.two)
  \/ cmd.op = "flush" /\ Flush("link", cmd.dbs)

DeletionOf(gone) == [op |-> "del", keys |-> gone]

\* The keys found expired go, then the command is executed on what is left.
\* It is sent, with the deletions before it, unless it changed nothing.
Effect(cmd) ==
  \E gone \in SUBSET Keys :
    /\ role = "readonly" => gone = {}
    /\ data' = Applied(Deleted(data, gone), cmd)
    /\ role = "master" =>
         \/ out' = Propagated(gone, <<cmd>>)
         \/ out' = Propagated(gone, <<>>) /\ data' = Deleted(data, gone)

\* Dictionaries with the same entries are the same.
LEMMA SameData ==
  ASSUME NEW d, Sound(d), NEW e, Sound(e),
         \A k \in Keys : d.dict[k] = e.dict[k] /\ d.expires[k] = e.expires[k]
  PROVE  d = e
<1>1. d.dict = e.dict
  BY DEF Sound, Data
<1>2. d.expires = e.expires
  BY DEF Sound, Data
<1> QED
  BY <1>1, <1>2 DEF Sound, Data

LEMMA NothingDeleted ==
  ASSUME NEW d, Sound(d) PROVE Deleted(d, {}) = d
<1>1. PICK e : e = Deleted(d, {})
  OBVIOUS
<1>2. Sound(e) /\ \A k \in Keys : e.dict[k] = d.dict[k] /\ e.expires[k] = d.expires[k]
  BY <1>1, DeletedFacts
<1> QED
  BY <1>1, <1>2, SameData

\* Roles and clients for which the lookups of a command settle what is there.
Settled(c) == role # "writable" /\ Writes(c)

LEMMA SettledIs ==
  ASSUME RoleTyped, NEW c, Settled(c)
  PROVE  \/ role = "master" /\ c = "user" /\ ~paused
         \/ role = "readonly" /\ c = "link"
  BY DEF RoleTyped, Settled, Writes

LEMMA LinkDeletesNothing ==
  ASSUME RoleTyped, NEW c, NEW K, NEW mode, role = "readonly"
  PROVE  Lazily(c, K, mode) = {}
  BY DEF Lazily, Deletes

\* The lookups that settle what is there of K.
LEMMA LookedUp ==
  ASSUME Sound(data), RoleTyped, NEW c, Settled(c), NEW K \in SUBSET Keys,
         NEW gone, gone = Lazily(c, K, "write"), NEW d, d = Deleted(data, gone)
  PROVE  /\ Sound(d) /\ gone \in SUBSET Keys
         /\ role = "readonly" => gone = {}
         /\ \A k \in K : Missing(c, d, k) <=> ~Has(d, k)
<1>1. gone \in SUBSET Keys /\ (role = "readonly" => gone = {})
  BY LazilyFacts, LinkDeletesNothing
<1>2. Writes(c) /\ Lazily(c, K, "write") \subseteq gone
  BY DEF Settled
<1>3. \A k \in K : Missing(c, d, k) <=> ~Has(d, k)
  BY <1>2, FoundIsThere
<1> QED
  BY <1>1, <1>3, DeletedFacts

LEMMA RefusedEffect ==
  ASSUME NEW c, NEW gone \in SUBSET Keys, NEW answer, Refused(c, gone, answer),
         role = "readonly" => gone = {},
         NEW cmd, Applied(Deleted(data, gone), cmd) = Deleted(data, gone)
  PROVE  Effect(cmd)
<1>1. data' = Applied(Deleted(data, gone), cmd) /\ data' = Deleted(data, gone)
  BY DEF Refused
<1>2. role = "master" => out' = Propagated(gone, <<>>)
  BY DEF Refused, Answer
<1> QED
  BY <1>1, <1>2 DEF Effect

LEMMA DoneEffect ==
  ASSUME NEW c, NEW gone \in SUBSET Keys, NEW answer, NEW sig, NEW cmd,
         Answer(c, gone, answer, <<cmd>>, sig),
         role = "readonly" => gone = {},
         data' = Applied(Deleted(data, gone), cmd)
  PROVE  Effect(cmd)
<1>1. role = "master" => out' = Propagated(gone, <<cmd>>)
  BY DEF Answer
<1> QED
  BY <1>1 DEF Effect

LEMMA AppliedIs ==
  ASSUME NEW d
  PROVE
  /\ \A k, v, keepttl :
       Applied(d, [op |-> "set", key |-> k, val |-> v, keepttl |-> keepttl])
         = AfterSet(d, k, v, keepttl)
  /\ \A k, when :
       Applied(d, [op |-> "expire", key |-> k, when |-> when]) = AfterExpire(d, k, when)
  /\ \A k : Applied(d, [op |-> "persist", key |-> k]) = AfterExpire(d, k, Never)
  /\ \A K : Applied(d, DeletionOf(K)) = Deleted(d, K)
  /\ \A a, b, nx :
       Applied(d, [op |-> "rename", from |-> a, to |-> b, nx |-> nx])
         = AfterRename(d, a, b, nx)
  /\ \A a, db : Applied(d, [op |-> "move", key |-> a, db |-> db]) = AfterMove(d, a, db)
  /\ \A a, b, replace :
       Applied(d, [op |-> "copy", from |-> a, to |-> b, replace |-> replace])
         = AfterCopy(d, a, b, replace)
  /\ \A db1, db2 :
       Applied(d, [op |-> "swapdb", one |-> db1, two |-> db2]) = Swapped(d, db1, db2)
  /\ \A flushed :
       Applied(d, [op |-> "flush", dbs |-> flushed])
         = Deleted(d, {k \in Keys : k[1] \in flushed})
  BY DEF Applied, DeletionOf

LEMMA SetEffect ==
  ASSUME Sound(data), RoleTyped, NEW c, Settled(c),
         NEW k \in Keys, NEW v, NEW keepttl, Set(c, k, v, keepttl)
  PROVE  Effect([op |-> "set", key |-> k, val |-> v, keepttl |-> keepttl])
<1>1. PICK gone, sig :
        /\ gone = Lazily(c, {k}, "write")
        /\ data' = AfterSet(Deleted(data, gone), k, v, keepttl)
        /\ Answer(c, gone, Says("set", "ok"),
                  <<[op |-> "set", key |-> k, val |-> v, keepttl |-> keepttl]>>, sig)
  BY DEF Set, AfterSet
<1>2. gone \in SUBSET Keys /\ (role = "readonly" => gone = {})
  BY <1>1, LazilyFacts, LinkDeletesNothing
<1>3. PICK cmd : cmd = [op |-> "set", key |-> k, val |-> v, keepttl |-> keepttl]
  OBVIOUS
<1>4. Applied(Deleted(data, gone), cmd) = AfterSet(Deleted(data, gone), k, v, keepttl)
  BY <1>3, AppliedIs
<1>5. Answer(c, gone, Says("set", "ok"), <<cmd>>, sig)
  BY <1>1, <1>3
<1>6. Effect(cmd)
  BY <1>1, <1>2, <1>4, <1>5, DoneEffect
<1> QED
  BY <1>3, <1>6

\* EXPIRE and PERSIST.
LEMMA ExpireEffect ==
  ASSUME Sound(data), RoleTyped, NEW c, Settled(c), NEW k \in Keys, NEW when,
         Expire(c, k, when)
  PROVE  Effect([op |-> "expire", key |-> k, when |-> when])
<1>1. PICK gone, d : gone = Lazily(c, {k}, "write") /\ d = Deleted(data, gone)
  OBVIOUS
<1>2. /\ Writes(c)
      /\ \/ Missing(c, d, k) /\ \E answer : Refused(c, gone, answer)
         \/ /\ ~Missing(c, d, k) /\ data' = [d EXCEPT !.expires[k] = when]
            /\ \E answer, sig :
                 Answer(c, gone, answer, <<[op |-> "expire", key |-> k, when |-> when]>>, sig)
  BY <1>1 DEF Expire
<1>3. gone \in SUBSET Keys /\ (role = "readonly" => gone = {})
  BY <1>1, LazilyFacts, LinkDeletesNothing
<1>4. Missing(c, d, k) <=> ~Has(d, k)
  BY <1>1, <1>2, FoundIsThere
<1>5. CASE Missing(c, d, k)
  <2>1. AfterExpire(d, k, when) = d
    BY <1>4, <1>5 DEF AfterExpire
  <2>2. Applied(d, [op |-> "expire", key |-> k, when |-> when]) = d
    BY <2>1, AppliedIs
  <2> QED
    BY <1>1, <1>2, <1>3, <1>5, <2>2, RefusedEffect
<1>6. CASE ~Missing(c, d, k)
  <2>1. data' = Applied(d, [op |-> "expire", key |-> k, when |-> when])
    BY <1>2, <1>4, <1>6, AppliedIs DEF AfterExpire
  <2> QED
    BY <1>1, <1>2, <1>3, <1>6, <2>1, DoneEffect
<1> QED
  BY <1>5, <1>6

LEMMA PersistEffect ==
  ASSUME Sound(data), RoleTyped, NEW c, Settled(c), NEW k \in Keys, Persist(c, k)
  PROVE  Effect([op |-> "persist", key |-> k])
<1>1. PICK gone, d : gone = Lazily(c, {k}, "write") /\ d = Deleted(data, gone)
  OBVIOUS
<1> DEFINE had == ~Missing(c, d, k) /\ d.expires[k] # Never
<1>2. /\ Writes(c)
      /\ \/ ~had /\ \E answer : Refused(c, gone, answer)
         \/ /\ had /\ data' = [d EXCEPT !.expires[k] = Never]
            /\ \E answer, sig :
                 Answer(c, gone, answer, <<[op |-> "persist", key |-> k]>>, sig)
  BY <1>1 DEF Persist
<1>3. gone \in SUBSET Keys /\ (role = "readonly" => gone = {})
  BY <1>1, LazilyFacts, LinkDeletesNothing
<1>4. (Missing(c, d, k) <=> ~Has(d, k)) /\ Sound(d)
  BY <1>1, <1>2, FoundIsThere, DeletedFacts
<1>5. CASE ~had
  <2>1. AfterExpire(d, k, Never) = d
    <3>1. CASE Has(d, k)
      <4>1. d.expires[k] = Never
        BY <1>4, <1>5, <3>1
      <4> QED
        BY <1>4, <4>1 DEF AfterExpire, Sound, Data
    <3> QED
      BY <3>1 DEF AfterExpire
  <2>2. Applied(d, [op |-> "persist", key |-> k]) = d
    BY <2>1, AppliedIs
  <2> QED
    BY <1>1, <1>2, <1>3, <1>5, <2>2, RefusedEffect
<1>6. CASE had
  <2>1. data' = Applied(d, [op |-> "persist", key |-> k])
    BY <1>2, <1>4, <1>6, AppliedIs DEF AfterExpire
  <2> QED
    BY <1>1, <1>2, <1>3, <1>6, <2>1, DoneEffect
<1> QED
  BY <1>5, <1>6

LEMMA DelEffect ==
  ASSUME Sound(data), RoleTyped, NEW c, Settled(c), NEW K \in SUBSET Keys, Del(c, K)
  PROVE  Effect(DeletionOf(K))
<1>1. PICK gone, found : /\ gone = Lazily(c, K, "read")
                         /\ found = Present(data, K) \ gone
  OBVIOUS
<1>2. /\ data' = Deleted(data, gone \cup found)
      /\ role = "master" =>
           out' = Propagated(gone, IF found = {} THEN <<>> ELSE <<DeletionOf(K)>>)
  BY <1>1 DEF Del, Answer, DeletionOf
<1>3. gone \in SUBSET Keys /\ (role = "readonly" => gone = {})
  BY <1>1, LazilyFacts, LinkDeletesNothing
<1>4. PICK d, e : d = Deleted(data, gone) /\ e = Deleted(d, K)
  OBVIOUS
<1>5. /\ Sound(d) /\ Sound(e) /\ Sound(data')
      /\ \A k \in Keys :
           /\ d.dict[k] = IF k \in gone THEN NULL ELSE data.dict[k]
           /\ d.expires[k] = IF k \in gone THEN Never ELSE data.expires[k]
           /\ e.dict[k] = IF k \in K THEN NULL ELSE d.dict[k]
           /\ e.expires[k] = IF k \in K THEN Never ELSE d.expires[k]
           /\ data'.dict[k] = IF k \in gone \cup found THEN NULL ELSE data.dict[k]
           /\ data'.expires[k] = IF k \in gone \cup found THEN Never ELSE data.expires[k]
  BY <1>2, <1>4, DeletedFacts
<1>6. \A k \in K : k \in gone \cup found \/ (data.dict[k] = NULL /\ data.expires[k] = Never)
  BY <1>1 DEF Present, Sound, Agree, Has
<1>7. gone \cup found \subseteq K
  BY <1>1, LazilyFacts DEF Present
<1>8. data' = e
  BY <1>5, <1>6, <1>7, SameData
<1>9. data' = Applied(Deleted(data, gone), DeletionOf(K))
  BY <1>4, <1>8, AppliedIs
<1>10. found = {} => data' = Deleted(data, gone)
  BY <1>2
<1> QED
  BY <1>2, <1>3, <1>9, <1>10 DEF Effect

LEMMA RenameEffect ==
  ASSUME Sound(data), RoleTyped, NEW c, Settled(c), NEW a \in Keys, NEW b \in Keys,
         NEW nx \in BOOLEAN, Rename(c, a, b, nx)
  PROVE  Effect([op |-> "rename", from |-> a, to |-> b, nx |-> nx])
<1>1. PICK gone1, gone, d1, d, cmd :
        /\ gone1 = Lazily(c, {a}, "write") /\ gone = Lazily(c, {a, b}, "write")
        /\ d1 = Deleted(data, gone1) /\ d = Deleted(data, gone)
        /\ cmd = [op |-> "rename", from |-> a, to |-> b, nx |-> nx]
  OBVIOUS
<1>2. /\ gone1 \in SUBSET Keys /\ gone \in SUBSET Keys
      /\ role = "readonly" => gone1 = {} /\ gone = {}
      /\ Missing(c, d1, a) <=> ~Has(d1, a)
      /\ Missing(c, d, a) <=> ~Has(d, a)
      /\ Missing(c, d, b) <=> ~Has(d, b)
  <2>1. /\ gone1 \in SUBSET Keys /\ (role = "readonly" => gone1 = {})
        /\ \A k \in {a} : Missing(c, d1, k) <=> ~Has(d1, k)
    BY <1>1, LookedUp
  <2>2. /\ gone \in SUBSET Keys /\ (role = "readonly" => gone = {})
        /\ \A k \in {a, b} : Missing(c, d, k) <=> ~Has(d, k)
    BY <1>1, LookedUp
  <2> QED
    BY <2>1, <2>2
<1>3. /\ Applied(d1, cmd) = AfterRename(d1, a, b, nx)
      /\ Applied(d, cmd) = AfterRename(d, a, b, nx)
  BY <1>1, AppliedIs
<1>4. \/ Missing(c, d1, a) /\ \E answer : Refused(c, gone1, answer)
      \/ /\ a = b \/ (~Missing(c, d, b) /\ nx)
         /\ \E answer : Refused(c, gone, answer)
      \/ /\ ~Missing(c, d, a) /\ a # b /\ ~(~Missing(c, d, b) /\ nx)
         /\ data' = Deleted(Placed(IF ~Missing(c, d, b) THEN Deleted(d, {b}) ELSE d,
                                   b, d.dict[a], d.expires[a]), {a})
         /\ \E answer, sig : Answer(c, gone, answer, <<cmd>>, sig)
  BY <1>1 DEF Rename, Renames
<1>5. CASE Missing(c, d1, a) /\ \E answer : Refused(c, gone1, answer)
  <2>1. Applied(d1, cmd) = d1
    BY <1>2, <1>3, <1>5 DEF AfterRename
  <2> QED
    BY <1>1, <1>2, <1>5, <2>1, RefusedEffect
<1>6. CASE /\ a = b \/ (~Missing(c, d, b) /\ nx)
           /\ \E answer : Refused(c, gone, answer)
  <2>1. Applied(d, cmd) = d
    BY <1>2, <1>3, <1>6 DEF AfterRename
  <2> QED
    BY <1>1, <1>2, <1>6, <2>1, RefusedEffect
<1>7. CASE /\ ~Missing(c, d, a) /\ a # b /\ ~(~Missing(c, d, b) /\ nx)
           /\ data' = Deleted(Placed(IF ~Missing(c, d, b) THEN Deleted(d, {b}) ELSE d,
                                     b, d.dict[a], d.expires[a]), {a})
           /\ \E answer, sig : Answer(c, gone, answer, <<cmd>>, sig)
  <2>1. data' = AfterRename(d, a, b, nx)
    BY <1>2, <1>7 DEF AfterRename, Room
  <2>2. data' = Applied(d, cmd)
    BY <1>3, <2>1
  <2> QED
    BY <1>1, <1>2, <1>7, <2>2, DoneEffect
<1> QED
  BY <1>1, <1>4, <1>5, <1>6, <1>7

LEMMA MoveEffect ==
  ASSUME Sound(data), RoleTyped, NEW c, Settled(c), NEW a \in Keys, NEW db \in Dbs,
         Move(c, a, db)
  PROVE  Effect([op |-> "move", key |-> a, db |-> db])
<1>1. PICK b, gone1, gone, d1, d, cmd :
        /\ b = <<db, a[2]>>
        /\ gone1 = Lazily(c, {a}, "write") /\ gone = Lazily(c, {a, b}, "write")
        /\ d1 = Deleted(data, gone1) /\ d = Deleted(data, gone)
        /\ cmd = [op |-> "move", key |-> a, db |-> db]
  OBVIOUS
<1>2. b \in Keys
  BY <1>1 DEF Keys
<1>3. /\ gone1 \in SUBSET Keys /\ gone \in SUBSET Keys
      /\ role = "readonly" => gone1 = {} /\ gone = {}
      /\ Missing(c, d1, a) <=> ~Has(d1, a)
      /\ Missing(c, d, a) <=> ~Has(d, a)
      /\ Missing(c, d, b) <=> ~Has(d, b)
  <2>1. /\ gone1 \in SUBSET Keys /\ (role = "readonly" => gone1 = {})
        /\ \A k \in {a} : Missing(c, d1, k) <=> ~Has(d1, k)
    BY <1>1, LookedUp
  <2>2. /\ gone \in SUBSET Keys /\ (role = "readonly" => gone = {})
        /\ \A k \in {a, b} : Missing(c, d, k) <=> ~Has(d, k)
    BY <1>1, <1>2, LookedUp
  <2> QED
    BY <2>1, <2>2
<1>4. /\ Applied(d1, cmd) = AfterMove(d1, a, db)
      /\ Applied(d, cmd) = AfterMove(d, a, db)
  BY <1>1, AppliedIs
<1>5. \/ Missing(c, d1, a) /\ \E answer : Refused(c, gone1, answer)
      \/ ~Missing(c, d, b) /\ \E answer : Refused(c, gone, answer)
      \/ /\ ~Missing(c, d, a) /\ Missing(c, d, b)
         /\ data' = Deleted(Placed(d, b, d.dict[a], d.expires[a]), {a})
         /\ \E answer, sig : Answer(c, gone, answer, <<cmd>>, sig)
  BY <1>1 DEF Move
<1>6. CASE Missing(c, d1, a) /\ \E answer : Refused(c, gone1, answer)
  <2>1. Applied(d1, cmd) = d1
    BY <1>3, <1>4, <1>6 DEF AfterMove
  <2> QED
    BY <1>1, <1>3, <1>6, <2>1, RefusedEffect
<1>7. CASE ~Missing(c, d, b) /\ \E answer : Refused(c, gone, answer)
  <2>1. Applied(d, cmd) = d
    BY <1>1, <1>3, <1>4, <1>7 DEF AfterMove
  <2> QED
    BY <1>1, <1>3, <1>7, <2>1, RefusedEffect
<1>8. CASE /\ ~Missing(c, d, a) /\ Missing(c, d, b)
           /\ data' = Deleted(Placed(d, b, d.dict[a], d.expires[a]), {a})
           /\ \E answer, sig : Answer(c, gone, answer, <<cmd>>, sig)
  <2>1. data' = AfterMove(d, a, db)
    BY <1>1, <1>3, <1>8 DEF AfterMove
  <2>2. data' = Applied(d, cmd)
    BY <1>4, <2>1
  <2> QED
    BY <1>1, <1>3, <1>8, <2>2, DoneEffect
<1> QED
  BY <1>1, <1>5, <1>6, <1>7, <1>8

LEMMA CopyEffect ==
  ASSUME Sound(data), RoleTyped, NEW c, Settled(c), NEW a \in Keys, NEW b \in Keys,
         NEW replace \in BOOLEAN, Copy(c, a, b, replace)
  PROVE  Effect([op |-> "copy", from |-> a, to |-> b, replace |-> replace])
<1>1. PICK gone1, gone, d1, d, cmd :
        /\ gone1 = Lazily(c, {a}, "read")
        /\ gone = gone1 \cup Lazily(c, {b}, "write")
        /\ d1 = Deleted(data, gone1) /\ d = Deleted(data, gone)
        /\ cmd = [op |-> "copy", from |-> a, to |-> b, replace |-> replace]
  OBVIOUS
<1>2. Writes(c) /\ a # b
  BY DEF Copy
<1>3. /\ gone1 \in SUBSET Keys /\ gone \in SUBSET Keys
      /\ role = "readonly" => gone1 = {} /\ gone = {}
  BY <1>1, LazilyFacts, LinkDeletesNothing
<1>4. Missing(c, d, b) <=> ~Has(d, b)
  <2>1. Lazily(c, {b}, "write") \subseteq gone
    BY <1>1
  <2> QED
    BY <1>1, <1>2, <2>1, FoundIsThere
<1>5. Missing(c, data, a) => ~Has(d1, a)
  <2>1. Has(d1, a) <=> Has(data, a) /\ a \notin gone1
    BY <1>1, DeletedFacts
  <2>2. CASE role = "master" /\ c = "user" /\ ~paused
    BY <1>1, <2>1, <2>2 DEF Missing, Lazily, Deletes, Present
  <2>3. CASE role = "readonly" /\ c = "link"
    BY <2>1, <2>3 DEF Missing
  <2> QED
    BY <2>2, <2>3, SettledIs
<1>6. ~Missing(c, data, a) => Has(d, a)
  <2>1. Has(d, a) <=> Has(data, a) /\ a \notin gone
    <3>1. d = Deleted(data, gone)
      BY <1>1
    <3> QED
      BY <3>1, DeletedFacts
  <2> QED
    BY <1>1, <1>2, <2>1, SourceStays DEF Missing
<1>7. /\ Applied(d1, cmd) = AfterCopy(d1, a, b, replace)
      /\ Applied(d, cmd) = AfterCopy(d, a, b, replace)
  BY <1>1, AppliedIs
<1>8. \/ Missing(c, data, a) /\ \E answer : Refused(c, gone1, answer)
      \/ ~Missing(c, d, b) /\ ~replace /\ \E answer : Refused(c, gone, answer)
      \/ /\ ~Missing(c, data, a) /\ ~(~Missing(c, d, b) /\ ~replace)
         /\ data' = Placed(IF ~Missing(c, d, b) THEN Deleted(d, {b}) ELSE d,
                           b, d.dict[a], d.expires[a])
         /\ \E answer, sig : Answer(c, gone, answer, <<cmd>>, sig)
  BY <1>1 DEF Copy, Copies
<1>9. CASE Missing(c, data, a) /\ \E answer : Refused(c, gone1, answer)
  <2>1. Applied(d1, cmd) = d1
    BY <1>5, <1>7, <1>9 DEF AfterCopy
  <2> QED
    BY <1>1, <1>3, <1>9, <2>1, RefusedEffect
<1>10. CASE ~Missing(c, d, b) /\ ~replace /\ \E answer : Refused(c, gone, answer)
  <2>1. Applied(d, cmd) = d
    BY <1>4, <1>7, <1>10 DEF AfterCopy
  <2> QED
    BY <1>1, <1>3, <1>10, <2>1, RefusedEffect
<1>11. CASE /\ ~Missing(c, data, a) /\ ~(~Missing(c, d, b) /\ ~replace)
            /\ data' = Placed(IF ~Missing(c, d, b) THEN Deleted(d, {b}) ELSE d,
                              b, d.dict[a], d.expires[a])
            /\ \E answer, sig : Answer(c, gone, answer, <<cmd>>, sig)
  <2>1. data' = AfterCopy(d, a, b, replace)
    BY <1>4, <1>6, <1>11 DEF AfterCopy, Room
  <2>2. data' = Applied(d, cmd)
    BY <1>7, <2>1
  <2> QED
    BY <1>1, <1>3, <1>11, <2>2, DoneEffect
<1> QED
  BY <1>1, <1>8, <1>9, <1>10, <1>11

\* SWAPDB and the flushes look no key up.
LEMMA WholeEffect ==
  ASSUME Sound(data), NEW cmd, NEW c, NEW answer, NEW sig,
         Answer(c, {}, answer, <<cmd>>, sig), data' = Applied(data, cmd)
  PROVE  Effect(cmd)
<1>1. data' = Applied(Deleted(data, {}), cmd)
  BY NothingDeleted
<1> QED
  BY <1>1, DoneEffect

LEMMA SwapEffect ==
  ASSUME Sound(data), NEW c, NEW db1, NEW db2, SwapDb(c, db1, db2)
  PROVE  Effect([op |-> "swapdb", one |-> db1, two |-> db2])
<1>1. PICK cmd : cmd = [op |-> "swapdb", one |-> db1, two |-> db2]
  OBVIOUS
<1>2. data' = Swapped(data, db1, db2) /\ \E answer, sig : Answer(c, {}, answer, <<cmd>>, sig)
  BY <1>1 DEF SwapDb
<1>3. data' = Applied(data, cmd)
  BY <1>1, <1>2, AppliedIs
<1> QED
  BY <1>1, <1>2, <1>3, WholeEffect

LEMMA FlushEffect ==
  ASSUME Sound(data), NEW c, NEW flushed, Flush(c, flushed)
  PROVE  Effect([op |-> "flush", dbs |-> flushed])
<1>1. PICK cmd : cmd = [op |-> "flush", dbs |-> flushed]
  OBVIOUS
<1>2. /\ data' = Deleted(data, {k \in Keys : k[1] \in flushed})
      /\ \E answer, sig : Answer(c, {}, answer, <<cmd>>, sig)
  BY <1>1 DEF Flush
<1>3. data' = Applied(data, cmd)
  BY <1>1, <1>2, AppliedIs
<1> QED
  BY <1>1, <1>2, <1>3, WholeEffect

\* What a step of a master sends: nothing, a command, or the keys it found
\* expired and then the command.
Sent ==
  \/ out' = <<>> /\ data' = data
  \/ \E cmd \in Commands : out' = <<cmd>> /\ data' = Applied(data, cmd)
  \/ \E gone \in SUBSET Keys, cmd \in Commands :
       /\ out' = <<DeletionOf(gone), cmd>>
       /\ data' = Applied(Deleted(data, gone), cmd)

LEMMA SameSequence ==
  ASSUME NEW S, NEW p \in Seq(S), NEW q \in Seq(S), Len(p) = Len(q),
         \A i \in 1 .. Len(p) : p[i] = q[i]
  PROVE  p = q
  OBVIOUS

LEMMA PairIs ==
  ASSUME NEW x, NEW y PROVE <<x>> \o <<y>> = <<x, y>>
<1>1. PICK S, s, t, u : S = {x, y} /\ s = <<x>> /\ t = <<y>> /\ u = <<x, y>>
  OBVIOUS
<1>2. s \in Seq(S) /\ t \in Seq(S) /\ u \in Seq(S)
  BY <1>1
<1>3. /\ Len(s \o t) = 2 /\ (s \o t)[1] = x /\ (s \o t)[2] = y
      /\ s \o t \in Seq(S)
  BY <1>1, <1>2
<1>4. Len(u) = 2 /\ u[1] = x /\ u[2] = y
  BY <1>1
<1>5. s \o t = u
  BY <1>2, <1>3, <1>4, SameSequence
<1> QED
  BY <1>1, <1>5

LEMMA PropagatedIs ==
  ASSUME NEW gone, NEW cmd
  PROVE  /\ Propagated(gone, <<>>) = IF gone = {} THEN <<>> ELSE <<DeletionOf(gone)>>
         /\ Propagated(gone, <<cmd>>) =
              IF gone = {} THEN <<cmd>> ELSE <<DeletionOf(gone), cmd>>
<1>1. PICK x : x = DeletionOf(gone)
  OBVIOUS
<1>2. <<x>> \o <<>> = <<x>> /\ <<>> \o <<cmd>> = <<cmd>> /\ <<>> \o <<>> = <<>>
  OBVIOUS
<1>3. /\ Propagated(gone, <<>>) = (IF gone = {} THEN <<>> ELSE <<x>>) \o <<>>
      /\ Propagated(gone, <<cmd>>) = (IF gone = {} THEN <<>> ELSE <<x>>) \o <<cmd>>
  BY <1>1 DEF Propagated, DeletionOf
<1> QED
  BY <1>1, <1>2, <1>3, PairIs

LEMMA DeletionSent ==
  ASSUME Sound(data), NEW gone \in SUBSET Keys, out' = Propagated(gone, <<>>),
         data' = Deleted(data, gone)
  PROVE  Sent
<1>1. CASE gone = {}
  BY <1>1, NothingDeleted, PropagatedIs DEF Sent
<1>2. CASE gone # {}
  <2>1. PICK cmd : cmd = DeletionOf(gone)
    OBVIOUS
  <2>2. cmd \in Commands /\ data' = Applied(data, cmd)
    BY <2>1, AppliedIs DEF Commands, DeletionOf
  <2>3. out' = <<cmd>>
    BY <1>2, <2>1, PropagatedIs
  <2> QED
    BY <2>2, <2>3 DEF Sent
<1> QED
  BY <1>1, <1>2

LEMMA EffectSent ==
  ASSUME Sound(data), role = "master", NEW cmd \in Commands, Effect(cmd)
  PROVE  Sent
<1>1. PICK gone \in SUBSET Keys :
        /\ data' = Applied(Deleted(data, gone), cmd)
        /\ \/ out' = Propagated(gone, <<cmd>>)
           \/ out' = Propagated(gone, <<>>) /\ data' = Deleted(data, gone)
  BY DEF Effect
<1>2. CASE out' = Propagated(gone, <<>>) /\ data' = Deleted(data, gone)
  BY <1>2, DeletionSent
<1>3. CASE out' = Propagated(gone, <<cmd>>)
  <2>1. CASE gone = {}
    <3>1. out' = <<cmd>>
      BY <1>3, <2>1, PropagatedIs
    <3>2. data' = Applied(data, cmd)
      BY <1>1, <2>1, NothingDeleted
    <3> QED
      BY <3>1, <3>2 DEF Sent
  <2>2. CASE gone # {}
    <3>1. out' = <<DeletionOf(gone), cmd>>
      BY <1>3, <2>2, PropagatedIs
    <3> QED
      BY <1>1, <3>1 DEF Sent
  <2> QED
    BY <2>1, <2>2
<1> QED
  BY <1>1, <1>2, <1>3

\* Every command of a user: the stream carries exactly what it did.
LEMMA WriteSent ==
  ASSUME Sound(data), role = "master", Write("user")
  PROVE  Sent
<1>1. RoleTyped
  BY DEF RoleTyped
<1>2. ASSUME Writes("user") PROVE Settled("user")
  BY <1>2 DEF Settled
<1>3. ASSUME NEW k \in Keys, NEW v \in Values, NEW keepttl \in BOOLEAN,
             Set("user", k, v, keepttl)
      PROVE  Sent
  <2>1. PICK cmd : cmd = [op |-> "set", key |-> k, val |-> v, keepttl |-> keepttl]
    OBVIOUS
  <2>2. Effect(cmd)
    BY <1>1, <1>2, <1>3, <2>1, SetEffect DEF Set
  <2>3. cmd \in Commands
    BY <2>1 DEF Commands
  <2> QED
    BY <2>2, <2>3, EffectSent
<1>4. ASSUME NEW k \in Keys, NEW when \in 0 .. MaxTime, Expire("user", k, when)
      PROVE  Sent
  <2>1. PICK cmd : cmd = [op |-> "expire", key |-> k, when |-> when]
    OBVIOUS
  <2>2. Effect(cmd)
    BY <1>1, <1>2, <1>4, <2>1, ExpireEffect DEF Expire
  <2>3. cmd \in Commands
    BY <2>1 DEF Commands
  <2> QED
    BY <2>2, <2>3, EffectSent
<1>5. ASSUME NEW k \in Keys, Persist("user", k) PROVE Sent
  <2>1. PICK cmd : cmd = [op |-> "persist", key |-> k]
    OBVIOUS
  <2>2. Effect(cmd)
    BY <1>1, <1>2, <1>5, <2>1, PersistEffect DEF Persist
  <2>3. cmd \in Commands
    BY <2>1 DEF Commands
  <2> QED
    BY <2>2, <2>3, EffectSent
<1>6. ASSUME NEW K \in SUBSET Keys, Del("user", K) PROVE Sent
  <2>1. Effect(DeletionOf(K))
    BY <1>1, <1>2, <1>6, DelEffect DEF Del
  <2>2. DeletionOf(K) \in Commands
    BY DEF Commands, DeletionOf
  <2> QED
    BY <2>1, <2>2, EffectSent
<1>7. ASSUME NEW a \in Keys, NEW b \in Keys, NEW nx \in BOOLEAN, Rename("user", a, b, nx)
      PROVE  Sent
  <2>1. PICK cmd : cmd = [op |-> "rename", from |-> a, to |-> b, nx |-> nx]
    OBVIOUS
  <2>2. Effect(cmd)
    BY <1>1, <1>2, <1>7, <2>1, RenameEffect DEF Rename
  <2>3. cmd \in Commands
    BY <2>1 DEF Commands
  <2> QED
    BY <2>2, <2>3, EffectSent
<1>8. ASSUME NEW a \in Keys, NEW db \in Dbs, Move("user", a, db) PROVE Sent
  <2>1. PICK cmd : cmd = [op |-> "move", key |-> a, db |-> db]
    OBVIOUS
  <2>2. Effect(cmd)
    BY <1>1, <1>2, <1>8, <2>1, MoveEffect DEF Move
  <2>3. cmd \in Commands
    BY <2>1 DEF Commands
  <2> QED
    BY <2>2, <2>3, EffectSent
<1>9. ASSUME NEW a \in Keys, NEW b \in Keys, NEW replace \in BOOLEAN,
             Copy("user", a, b, replace)
      PROVE  Sent
  <2>1. PICK cmd : cmd = [op |-> "copy", from |-> a, to |-> b, replace |-> replace]
    OBVIOUS
  <2>2. Effect(cmd)
    BY <1>1, <1>2, <1>9, <2>1, CopyEffect DEF Copy
  <2>3. cmd \in Commands
    BY <2>1 DEF Commands
  <2> QED
    BY <2>2, <2>3, EffectSent
<1>10. ASSUME NEW db1 \in Dbs, NEW db2 \in Dbs, SwapDb("user", db1, db2) PROVE Sent
  <2>1. PICK cmd : cmd = [op |-> "swapdb", one |-> db1, two |-> db2]
    OBVIOUS
  <2>2. Effect(cmd)
    BY <1>10, <2>1, SwapEffect
  <2>3. cmd \in Commands
    BY <2>1 DEF Commands
  <2> QED
    BY <2>2, <2>3, EffectSent
<1>11. ASSUME NEW flushed \in {{db} : db \in Dbs} \cup {Dbs}, Flush("user", flushed)
       PROVE  Sent
  <2>1. PICK cmd : cmd = [op |-> "flush", dbs |-> flushed]
    OBVIOUS
  <2>2. Effect(cmd)
    BY <1>11, <2>1, FlushEffect
  <2>3. cmd \in Commands
    BY <2>1 DEF Commands
  <2> QED
    BY <2>2, <2>3, EffectSent
<1>12. \A db \in Dbs : SUBSET InDb(db) \subseteq SUBSET Keys
  BY DEF InDb
<1> QED
  BY <1>3, <1>4, <1>5, <1>6, <1>7, <1>8, <1>9, <1>10, <1>11, <1>12 DEF Write

\* Reads and the deletions of the server itself.
LEMMA QuietSent ==
  ASSUME Sound(data), role = "master", NEW k \in Keys, Read(k) \/ Removes(k)
  PROVE  Sent
<1>1. CASE Read(k)
  <2>1. PICK gone, answer :
          gone = Lazily("user", {k}, "read") /\ Refused("user", gone, answer)
    BY <1>1 DEF Read
  <2>2. out' = Propagated(gone, <<>>) /\ data' = Deleted(data, gone)
    BY <2>1 DEF Refused, Answer
  <2>3. gone \in SUBSET Keys
    BY <2>1, LazilyFacts
  <2> QED
    BY <2>2, <2>3, DeletionSent
<1>2. CASE Removes(k)
  <2>1. out' = Propagated({k}, <<>>) /\ data' = Deleted(data, {k})
    BY <1>2 DEF Removes, Quietly
  <2> QED
    BY <2>1, DeletionSent
<1> QED
  BY <1>1, <1>2

\* A readonly replica does with a command what the master did.
LEMMA ExecutesApplied ==
  ASSUME Sound(data), role = "readonly", NEW cmd \in Commands, Executes(cmd)
  PROVE  data' = Applied(data, cmd)
<1>1. RoleTyped /\ (Writes("link") => Settled("link"))
  BY DEF RoleTyped, Settled
<1>2. ASSUME NEW x, Effect(x) PROVE data' = Applied(data, x)
  BY <1>2, NothingDeleted DEF Effect
<1>3. CASE cmd.op = "set"
  <2>1. PICK x : x = [op |-> "set", key |-> cmd.key, val |-> cmd.val,
                      keepttl |-> cmd.keepttl]
    OBVIOUS
  <2>2. cmd.key \in Keys /\ Set("link", cmd.key, cmd.val, cmd.keepttl)
    BY <1>3 DEF Commands, Executes
  <2>3. Effect(x)
    BY <1>1, <2>1, <2>2, SetEffect DEF Set
  <2>4. Applied(data, x) = Applied(data, cmd)
    BY <1>3, <2>1 DEF Applied
  <2> QED
    BY <1>2, <2>3, <2>4
<1>4. CASE cmd.op = "expire"
  <2>1. PICK x : x = [op |-> "expire", key |-> cmd.key, when |-> cmd.when]
    OBVIOUS
  <2>2. cmd.key \in Keys /\ Expire("link", cmd.key, cmd.when)
    BY <1>4 DEF Commands, Executes
  <2>3. Effect(x)
    BY <1>1, <2>1, <2>2, ExpireEffect DEF Expire
  <2>4. Applied(data, x) = Applied(data, cmd)
    BY <1>4, <2>1 DEF Applied
  <2> QED
    BY <1>2, <2>3, <2>4
<1>5. CASE cmd.op = "persist"
  <2>1. PICK x : x = [op |-> "persist", key |-> cmd.key]
    OBVIOUS
  <2>2. cmd.key \in Keys /\ Persist("link", cmd.key)
    BY <1>5 DEF Commands, Executes
  <2>3. Effect(x)
    BY <1>1, <2>1, <2>2, PersistEffect DEF Persist
  <2>4. Applied(data, x) = Applied(data, cmd)
    BY <1>5, <2>1 DEF Applied
  <2> QED
    BY <1>2, <2>3, <2>4
<1>6. CASE cmd.op = "del"
  <2>1. cmd.keys \in SUBSET Keys /\ Del("link", cmd.keys)
    BY <1>6 DEF Commands, Executes
  <2>2. Effect(DeletionOf(cmd.keys))
    BY <1>1, <2>1, DelEffect DEF Del
  <2>3. Applied(data, DeletionOf(cmd.keys)) = Applied(data, cmd)
    BY <1>6 DEF Applied, DeletionOf
  <2> QED
    BY <1>2, <2>2, <2>3
<1>7. CASE cmd.op = "rename"
  <2>1. PICK x : x = [op |-> "rename", from |-> cmd.from, to |-> cmd.to, nx |-> cmd.nx]
    OBVIOUS
  <2>2. /\ cmd.from \in Keys /\ cmd.to \in Keys /\ cmd.nx \in BOOLEAN
        /\ Rename("link", cmd.from, cmd.to, cmd.nx)
    BY <1>7 DEF Commands, Executes
  <2>3. Effect(x)
    BY <1>1, <2>1, <2>2, RenameEffect DEF Rename
  <2>4. Applied(data, x) = Applied(data, cmd)
    BY <1>7, <2>1 DEF Applied
  <2> QED
    BY <1>2, <2>3, <2>4
<1>8. CASE cmd.op = "move"
  <2>1. PICK x : x = [op |-> "move", key |-> cmd.key, db |-> cmd.db]
    OBVIOUS
  <2>2. cmd.key \in Keys /\ cmd.db \in Dbs /\ Move("link", cmd.key, cmd.db)
    BY <1>8 DEF Commands, Executes
  <2>3. Effect(x)
    BY <1>1, <2>1, <2>2, MoveEffect DEF Move
  <2>4. Applied(data, x) = Applied(data, cmd)
    BY <1>8, <2>1 DEF Applied
  <2> QED
    BY <1>2, <2>3, <2>4
<1>9. CASE cmd.op = "copy"
  <2>1. PICK x : x = [op |-> "copy", from |-> cmd.from, to |-> cmd.to,
                      replace |-> cmd.replace]
    OBVIOUS
  <2>2. /\ cmd.from \in Keys /\ cmd.to \in Keys /\ cmd.replace \in BOOLEAN
        /\ Copy("link", cmd.from, cmd.to, cmd.replace)
    BY <1>9 DEF Commands, Executes
  <2>3. Effect(x)
    BY <1>1, <2>1, <2>2, CopyEffect DEF Copy
  <2>4. Applied(data, x) = Applied(data, cmd)
    BY <1>9, <2>1 DEF Applied
  <2> QED
    BY <1>2, <2>3, <2>4
<1>10. CASE cmd.op = "swapdb"
  <2>1. PICK x : x = [op |-> "swapdb", one |-> cmd.one, two |-> cmd.two]
    OBVIOUS
  <2>2. Effect(x)
    BY <1>10, <2>1, SwapEffect DEF Executes
  <2>3. Applied(data, x) = Applied(data, cmd)
    BY <1>10, <2>1 DEF Applied
  <2> QED
    BY <1>2, <2>2, <2>3
<1>11. CASE cmd.op = "flush"
  <2>1. PICK x : x = [op |-> "flush", dbs |-> cmd.dbs]
    OBVIOUS
  <2>2. Effect(x)
    BY <1>11, <2>1, FlushEffect DEF Executes
  <2>3. Applied(data, x) = Applied(data, cmd)
    BY <1>11, <2>1 DEF Applied
  <2> QED
    BY <1>2, <2>2, <2>3
<1> QED
  BY <1>3, <1>4, <1>5, <1>6, <1>7, <1>8, <1>9, <1>10, <1>11 DEF Executes

\* And in every role the link leaves the dictionaries sound.
LEMMA ExecutesGood ==
  ASSUME Sound(data), RoleTyped, failed \in BOOLEAN, NEW cmd \in Commands, Executes(cmd)
  PROVE  Good /\ UNCHANGED <<now, role, paused, asking>>
<1>1. CASE cmd.op = "del"
  <2>1. cmd.keys \in SUBSET Keys /\ Del("link", cmd.keys)
    BY <1>1 DEF Commands, Executes
  <2>2. UNCHANGED <<now, role, paused, asking>>
    BY <2>1 DEF Del, Answer
  <2> QED
    BY <2>1, <2>2, DelGood
<1>2. CASE cmd.op # "del"
  <2>1. Write("link")
    BY <1>2 DEF Commands, Executes, Write
  <2> QED
    BY <2>1, WriteGood
<1> QED
  BY <1>1, <1>2

\* What a server does but for the link, its promotion and the queries of
\* whole databases.
ServerStep ==
  \/ Write("user")
  \/ \E k \in Keys : Read(k) \/ Evict(k) \/ ExpireCycle(k)
  \/ Tick \/ PauseOrResume

LEMMA ServerStepGood ==
  ASSUME Sound(data), RoleTyped, failed \in BOOLEAN, now \in 0 .. MaxTime,
         paused \in BOOLEAN, ServerStep
  PROVE  /\ Good /\ UNCHANGED <<role, asking>>
         /\ now' \in 0 .. MaxTime /\ paused' \in BOOLEAN
<1>1. CASE Write("user")
  <2>1. Good /\ UNCHANGED <<now, role, paused, asking>>
    BY <1>1, WriteGood
  <2> QED
    BY <2>1
<1>2. ASSUME NEW k \in Keys, Read(k)
      PROVE  Good /\ UNCHANGED <<now, role, paused, asking>>
  <2>1. PICK gone, answer : Refused("user", gone, answer)
    BY <1>2 DEF Read
  <2>2. UNCHANGED <<now, role, paused, asking>>
    BY <2>1 DEF Refused, Answer
  <2> QED
    BY <2>1, <2>2, RefusedGood
<1>3. ASSUME NEW k \in Keys, Evict(k) \/ ExpireCycle(k)
      PROVE  Good /\ UNCHANGED <<now, role, paused, asking>>
  BY <1>3, RemovesGood DEF Evict, ExpireCycle
<1>4. CASE \E k \in Keys : Read(k) \/ Evict(k) \/ ExpireCycle(k)
  <2>1. Good /\ UNCHANGED <<now, role, paused, asking>>
    BY <1>2, <1>3, <1>4
  <2> QED
    BY <2>1
<1>5. CASE Tick \/ PauseOrResume
  <2>1. /\ UNCHANGED <<data, failed, role, asking>>
        /\ now' \in 0 .. MaxTime /\ paused' \in BOOLEAN
    <3>1. CASE Tick
      BY <3>1 DEF Tick
    <3>2. CASE PauseOrResume
      BY <3>2 DEF PauseOrResume
    <3> QED
      BY <1>5, <3>1, <3>2
  <2> QED
    BY <2>1, UnchangedGood
<1> QED
  BY <1>1, <1>4, <1>5 DEF ServerStep

LEMMA ServerStepSent ==
  ASSUME Sound(data), role = "master", ServerStep
  PROVE  Sent
<1>1. CASE \E k \in Keys : Read(k) \/ Evict(k) \/ ExpireCycle(k)
  BY <1>1, QuietSent DEF Evict, ExpireCycle
<1>2. CASE Tick \/ PauseOrResume
  BY <1>2 DEF Tick, PauseOrResume, Quietly, Sent
<1> QED
  BY <1>1, <1>2, WriteSent DEF ServerStep

\* The users of a readonly replica and its clock change no data of it.
LEMMA ReadonlyKeeps ==
  ASSUME Sound(data), role = "readonly", ServerStep
  PROVE  data' = data
<1>1. ~Write("user")
  BY DEF Write, Writes, Set, Expire, Persist, Del, Rename, Move, Copy, SwapDb, Flush
<1>2. \A k \in Keys : ~Evict(k) /\ ~ExpireCycle(k)
  BY DEF Evict, ExpireCycle, Removes
<1>3. ASSUME NEW k \in Keys, Read(k) PROVE data' = data
  <2>1. data' = Deleted(data, Lazily("user", {k}, "read"))
    BY <1>3 DEF Read, Refused
  <2>2. Lazily("user", {k}, "read") = {}
    BY LinkDeletesNothing DEF RoleTyped
  <2> QED
    BY <2>1, <2>2, NothingDeleted
<1> QED
  BY <1>1, <1>2, <1>3 DEF ServerStep, Tick, PauseOrResume
=============================================================================
