-------------------------- MODULE CacheAsideProofs --------------------------
(***************************************************************************)
(* What a stale copy can come from, for any number of concurrent requests  *)
(* and any number of students.                                             *)
(***************************************************************************)
EXTENDS CacheAside, TLAPS

USE CacheAsideAssumption

\* The strengthening: a copy about to be put is the row, or its id suspect.
HeldIsRow ==
  \A r \in Requests : req[r].pc = "put" =>
    req[r].id \in suspect \/ req[r].student = table[req[r].id]

Copies == StaleOnlyWhenSuspect /\ HeldIsRow
IInv == TypeOK /\ Copies

\* What TypeOK says of a request that is under way.
LEMMA RequestTyped ==
  ASSUME TypeOK, NEW r \in Requests
  PROVE  /\ req[r].pc \in {"idle"} \cup ServerSteps \cup ClientSteps
         /\ req[r].id \in Ids \cup {1}
         /\ req[r].student \in Students \cup {NULL}
         /\ req[r].pc # "idle" => req[r].id \in Ids
         /\ req[r].pc \in {"put", "save"} => req[r].student \in Students
  BY DEF TypeOK

LEMMA InitIInv == Init => IInv
<1> SUFFICES ASSUME Init PROVE IInv
  OBVIOUS
<1>1. \A r \in Requests : req[r].pc = "idle"
  BY DEF Init, Idle
<1>2. TypeOK
  BY <1>1 DEF Init, TypeOK, Idle, Rows
<1> QED
  BY <1>1, <1>2
     DEF IInv, Copies, Init, StaleOnlyWhenSuspect, Stale, HeldIsRow

-----------------------------------------------------------------------------
(* The types. *)

LEMMA TypeStep == TypeOK /\ [Next]_vars => TypeOK'
<1> SUFFICES ASSUME TypeOK, [Next]_vars PROVE TypeOK'
  OBVIOUS
<1> USE DEF TypeOK, Rows, Ids
<1>1. CASE UNCHANGED vars
  BY <1>1 DEF vars
<1>2. ASSUME NEW r \in Requests, NEW s \in Students, CreateRow(r, s) PROVE TypeOK'
  <2>1. nextId \in Ids /\ s # NULL
    BY <1>2 DEF CreateRow
  <2> QED
    BY <1>2, <2>1 DEF CreateRow, Begins, AnyCopy, ServerSteps
<1>3. ASSUME NEW r \in Requests, NEW id \in Ids, GetMiss(r, id) PROVE TypeOK'
  BY <1>3 DEF GetMiss, Begins, ServerSteps
<1>4. ASSUME NEW r \in Requests, NEW id \in Ids, DeleteRow(r, id) PROVE TypeOK'
  BY <1>4 DEF DeleteRow, Begins, ServerSteps
<1>5. ASSUME NEW r \in Requests, Find(r) PROVE TypeOK'
  <2>1. req[r].id \in Ids
    BY <1>5, RequestTyped DEF Find
  <2>2. CASE table[req[r].id] = NULL
    BY <1>5, <2>1, <2>2 DEF Find, Idle
  <2>3. CASE table[req[r].id] # NULL
    BY <1>5, <2>1, <2>3 DEF Find, ServerSteps
  <2> QED
    BY <2>2, <2>3
<1>6. ASSUME NEW r \in Requests, Put(r) PROVE TypeOK'
  <2>1. req[r].id \in Ids /\ req[r].student \in Students
    BY <1>6, RequestTyped DEF Put
  <2> QED
    BY <1>6, <2>1 DEF Put, Ends, Idle
<1>7. ASSUME NEW r \in Requests, Uncache(r) PROVE TypeOK'
  <2>1. req[r].id \in Ids
    BY <1>7, RequestTyped DEF Uncache
  <2> QED
    BY <1>7, <2>1 DEF Uncache, Ends, Idle, Cleared
<1>8. ASSUME NEW r \in Requests, CacheFails(r) PROVE TypeOK'
  <2>1. req[r].id \in Ids
    BY <1>8, RequestTyped DEF CacheFails
  <2> QED
    BY <1>8, <2>1 DEF CacheFails, Ends, Idle
<1>9. ASSUME NEW r \in Requests, ClientSave(r) PROVE TypeOK'
  <2>1. req[r].student \in Students /\ req[r].id \in Ids
    BY <1>9, RequestTyped DEF ClientSave
  <2>2. PICK id \in Ids :
          /\ id \in {req[r].id, nextId}
          /\ table' = [table EXCEPT ![id] = req[r].student]
          /\ nextId' = IF id = nextId THEN nextId + 1 ELSE nextId
          /\ suspect' = Disturbed(id)
    BY <1>9 DEF ClientSave
  <2>3. /\ table' \in Rows /\ nextId' \in 1 .. MaxId + 1 /\ suspect' \subseteq Ids
    BY <2>1, <2>2 DEF Disturbed
  <2>4. UNCHANGED <<cache, dump>> /\ req' = [req EXCEPT ![r] = Idle]
    BY <1>9 DEF ClientSave, Ends
  <2> QED
    BY <2>3, <2>4 DEF Idle
<1>10. ASSUME NEW s \in Students, ClientCreate(s) PROVE TypeOK'
  BY <1>10 DEF ClientCreate, Disturbed
<1>11. ASSUME NEW id \in Ids, ClientDelete(id) PROVE TypeOK'
  BY <1>11 DEF ClientDelete, Disturbed
<1>12. ASSUME NEW id \in Ids, Evict(id) PROVE TypeOK'
  BY <1>12 DEF Evict, Cleared
<1>13. ASSUME NEW r \in Requests, NEW id \in Ids, NEW s \in Students,
              ClientFind(r, id, s) PROVE TypeOK'
  BY <1>13 DEF ClientFind, Begins, ClientSteps
<1>14. ASSUME NEW steps \in {ServerSteps, ClientSteps}, ProgramRestart(steps)
       PROVE  TypeOK'
  <2>1. \A r \in Requests : req'[r] = Idle \/ req'[r] = req[r]
    BY <1>14 DEF ProgramRestart
  <2>2. Idle \in [pc : {"idle"} \cup ServerSteps \cup ClientSteps,
                  id : Ids \cup {1}, student : Students \cup {NULL}]
    BY DEF Idle
  <2>3. req' \in [Requests -> [pc : {"idle"} \cup ServerSteps \cup ClientSteps,
                               id : Ids \cup {1}, student : Students \cup {NULL}]]
    BY <1>14, <2>2 DEF ProgramRestart
  <2>4. \A r \in Requests : /\ req'[r].pc # "idle" => req'[r].id \in Ids
                            /\ req'[r].pc \in {"put", "save"} => req'[r].student # NULL
    BY <2>1 DEF Idle
  <2>5. table' \in Rows /\ cache' \in Rows /\ dump' \in Rows
    BY <1>14 DEF ProgramRestart
  <2>6. nextId' \in 1 .. MaxId + 1
    BY <1>14 DEF ProgramRestart
  <2>7. suspect' \subseteq Ids
    BY <1>14 DEF ProgramRestart
  <2> QED
    BY <2>3, <2>4, <2>5, <2>6, <2>7
<1>15. CASE RedisSave \/ RedisRestart
  BY <1>15 DEF RedisSave, RedisRestart
<1> QED
  BY <1>1, <1>2, <1>3, <1>4, <1>5, <1>6, <1>7, <1>8, <1>9, <1>10, <1>11, <1>12, <1>13,
     <1>14, <1>15 DEF Next
-----------------------------------------------------------------------------
(* The copies. *)


\* The requests after one of them has moved.
LEMMA Moved ==
  ASSUME TypeOK, NEW r \in Requests, NEW x, req' = [req EXCEPT ![r] = x]
  PROVE  req'[r] = x /\ \A q \in Requests : q # r => req'[q] = req[q]
  BY DEF TypeOK

\* A write of the table at one id, of which every copy becomes suspect.
LEMMA TableWritten ==
  ASSUME IInv, NEW id \in Ids, NEW s, table' = [table EXCEPT ![id] = s],
         cache' = cache, suspect \subseteq suspect',
         AnyCopy(id) => id \in suspect',
         \A q \in Requests : req'[q].pc = "put" => \/ req'[q] = req[q]
                                                   \/ req'[q].id = id /\ req'[q].student = s,
         \A q \in Requests : req[q].pc = "uncache" => req'[q] = req[q]
  PROVE  Copies'
<1>1. StaleOnlyWhenSuspect'
  <2> SUFFICES ASSUME NEW i \in Ids, Stale(i)' PROVE i \in suspect' \/ Uncaching(i)'
    BY DEF StaleOnlyWhenSuspect
  <2>1. CASE i = id
    BY <2>1 DEF AnyCopy, Stale
  <2>2. CASE i # id
    <3>1. Stale(i)
      BY <2>2 DEF Stale, IInv, TypeOK, Rows
    <3>2. Uncaching(i) => Uncaching(i)'
      BY DEF Uncaching
    <3> QED
      BY <3>1, <3>2 DEF IInv, Copies, StaleOnlyWhenSuspect
  <2> QED
    BY <2>1, <2>2
<1>2. HeldIsRow'
  <2> SUFFICES ASSUME NEW q \in Requests, req'[q].pc = "put"
               PROVE  req'[q].id \in suspect' \/ req'[q].student = table'[req'[q].id]
    BY DEF HeldIsRow
  <2>1. table'[id] = s /\ \A i \in Ids : i # id => table'[i] = table[i]
    BY DEF IInv, TypeOK, Rows
  <2>2. CASE req'[q].id = id /\ req'[q].student = s
    BY <2>1, <2>2
  <2>3. CASE req'[q] = req[q] /\ req[q].id = id
    BY <2>3 DEF AnyCopy, Held
  <2>4. CASE req'[q] = req[q] /\ req[q].id # id
    <3>1. req[q].id \in Ids
      BY <2>4, RequestTyped DEF IInv
    <3>2. req[q].id \in suspect \/ req[q].student = table[req[q].id]
      BY <2>4 DEF IInv, Copies, HeldIsRow
    <3> QED
      BY <2>1, <2>4, <3>1, <3>2
  <2> QED
    BY <2>2, <2>3, <2>4
<1> QED
  BY <1>1, <1>2 DEF Copies

\* The copy of one id is lost, and the table stays.
LEMMA CopyLost ==
  ASSUME IInv, NEW id \in Ids, cache' = [cache EXCEPT ![id] = NULL],
         table' = table, suspect' = Cleared(id),
         \A q \in Requests : req'[q].pc = "put" => req'[q] = req[q],
         \A q \in Requests : req[q].pc = "uncache" /\ req[q].id # id => req'[q] = req[q]
  PROVE  Copies'
<1>1. \A i \in Ids : i # id => (i \in suspect <=> i \in suspect')
  BY DEF Cleared
<1>2. Held(id) => suspect' = suspect
  BY DEF Cleared
<1>3. StaleOnlyWhenSuspect'
  <2> SUFFICES ASSUME NEW i \in Ids, Stale(i)' PROVE i \in suspect' \/ Uncaching(i)'
    BY DEF StaleOnlyWhenSuspect
  <2>1. i # id /\ Stale(i)
    BY DEF Stale, IInv, TypeOK, Rows
  <2>2. Uncaching(i) => Uncaching(i)'
    BY <2>1 DEF Uncaching
  <2> QED
    BY <1>1, <2>1, <2>2 DEF IInv, Copies, StaleOnlyWhenSuspect
<1>4. HeldIsRow'
  <2> SUFFICES ASSUME NEW q \in Requests, req'[q].pc = "put"
               PROVE  req'[q].id \in suspect' \/ req'[q].student = table'[req'[q].id]
    BY DEF HeldIsRow
  <2>1. req'[q] = req[q] /\ req[q].id \in Ids
    BY RequestTyped DEF IInv
  <2>2. req[q].id \in suspect \/ req[q].student = table[req[q].id]
    BY <2>1 DEF IInv, Copies, HeldIsRow
  <2>3. req[q].id = id => Held(id)
    BY <2>1 DEF Held
  <2> QED
    BY <1>1, <1>2, <2>1, <2>2, <2>3
<1> QED
  BY <1>3, <1>4 DEF Copies

\* Nothing but the requests moves, and what the table says may be put.
LEMMA RequestsMove ==
  ASSUME IInv, table' = table, cache' = cache, suspect \subseteq suspect',
         \A q \in Requests : req'[q].pc = "put" =>
           \/ req'[q] = req[q]
           \/ req'[q].id \in Ids /\ req'[q].student = table[req'[q].id],
         \A q \in Requests : req[q].pc = "uncache" =>
           req'[q] = req[q] \/ req[q].id \in suspect'
  PROVE  Copies'
<1>1. StaleOnlyWhenSuspect'
  <2> SUFFICES ASSUME NEW i \in Ids, Stale(i)' PROVE i \in suspect' \/ Uncaching(i)'
    BY DEF StaleOnlyWhenSuspect
  <2>1. i \in suspect \/ Uncaching(i)
    BY DEF IInv, Copies, StaleOnlyWhenSuspect, Stale
  <2> QED
    BY <2>1 DEF Uncaching
<1>2. HeldIsRow'
  BY DEF HeldIsRow, IInv, Copies
<1> QED
  BY <1>1, <1>2 DEF Copies

LEMMA CopiesStep == IInv /\ [Next]_vars => Copies'
<1> SUFFICES ASSUME IInv, [Next]_vars PROVE Copies'
  OBVIOUS
<1>0. TypeOK
  BY DEF IInv
<1>1. CASE UNCHANGED vars
  BY <1>1 DEF vars, IInv, Copies, StaleOnlyWhenSuspect, Stale, Uncaching, HeldIsRow
<1>2. ASSUME NEW r \in Requests, NEW s \in Students, CreateRow(r, s) PROVE Copies'
  <2> DEFINE x == [pc |-> "put", id |-> nextId, student |-> s]
  <2>1. /\ nextId \in Ids /\ req[r] = Idle /\ req' = [req EXCEPT ![r] = x]
        /\ table' = [table EXCEPT ![nextId] = s] /\ cache' = cache
        /\ suspect \subseteq suspect' /\ (AnyCopy(nextId) => nextId \in suspect')
    BY <1>2 DEF CreateRow, Begins
  <2>2. req'[r] = x /\ \A q \in Requests : q # r => req'[q] = req[q]
    BY <1>0, <2>1, Moved
  <2>3. req[r].pc = "idle"
    BY <2>1 DEF Idle
  <2>4. \A q \in Requests : req'[q].pc = "put" =>
          req'[q] = req[q] \/ (req'[q].id = nextId /\ req'[q].student = s)
    BY <2>2
  <2>5. \A q \in Requests : req[q].pc = "uncache" => req'[q] = req[q]
    BY <2>2, <2>3
  <2>6. /\ nextId \in Ids /\ table' = [table EXCEPT ![nextId] = s] /\ cache' = cache
        /\ suspect \subseteq suspect' /\ (AnyCopy(nextId) => nextId \in suspect')
    BY <2>1
  <2> HIDE DEF x
  <2> QED
    BY <2>4, <2>5, <2>6, TableWritten
<1>3. ASSUME NEW r \in Requests, NEW id \in Ids, DeleteRow(r, id) PROVE Copies'
  <2> DEFINE x == [pc |-> "uncache", id |-> id, student |-> NULL]
  <2>1. /\ req[r] = Idle /\ req' = [req EXCEPT ![r] = x]
        /\ table' = [table EXCEPT ![id] = NULL] /\ cache' = cache
        /\ suspect \subseteq suspect' /\ (Held(id) => id \in suspect')
    BY <1>3 DEF DeleteRow, Begins
  <2>2. req'[r] = x /\ \A q \in Requests : q # r => req'[q] = req[q]
    BY <1>0, <2>1, Moved
  <2>3. req[r].pc = "idle"
    BY <2>1 DEF Idle
  <2>4. StaleOnlyWhenSuspect'
    <3> SUFFICES ASSUME NEW i \in Ids, Stale(i)' PROVE i \in suspect' \/ Uncaching(i)'
      BY DEF StaleOnlyWhenSuspect
    <3>1. CASE i = id
      BY <2>2, <3>1 DEF Uncaching
    <3>2. CASE i # id
      <4>1. Stale(i)
        BY <2>1, <3>2, <1>0 DEF Stale, TypeOK, Rows
      <4>2. Uncaching(i) => Uncaching(i)'
        BY <2>2, <2>3 DEF Uncaching
      <4> QED
        BY <2>1, <4>1, <4>2 DEF IInv, Copies, StaleOnlyWhenSuspect
    <3> QED
      BY <3>1, <3>2
  <2>5. HeldIsRow'
    <3> SUFFICES ASSUME NEW q \in Requests, req'[q].pc = "put"
                 PROVE  req'[q].id \in suspect' \/ req'[q].student = table'[req'[q].id]
      BY DEF HeldIsRow
    <3>1. req'[q] = req[q] /\ req[q].id \in Ids
      BY <1>0, <2>2, RequestTyped
    <3>2. req[q].id \in suspect \/ req[q].student = table[req[q].id]
      BY <3>1 DEF IInv, Copies, HeldIsRow
    <3>3. CASE req[q].id = id
      BY <2>1, <3>1, <3>3 DEF Held
    <3>4. CASE req[q].id # id
      BY <1>0, <2>1, <3>1, <3>2, <3>4 DEF TypeOK, Rows
    <3> QED
      BY <3>3, <3>4
  <2> QED
    BY <2>4, <2>5 DEF Copies
<1>4. ASSUME NEW r \in Requests, NEW id \in Ids, GetMiss(r, id) PROVE Copies'
  <2> DEFINE x == [pc |-> "find", id |-> id, student |-> NULL]
  <2>1. /\ req[r].pc = "idle" /\ req' = [req EXCEPT ![r] = x]
        /\ table' = table /\ cache' = cache /\ suspect' = suspect
    BY <1>4 DEF GetMiss, Begins, Idle
  <2>2. req'[r] = x /\ \A q \in Requests : q # r => req'[q] = req[q]
    BY <1>0, <2>1, Moved
  <2> QED
    BY <2>1, <2>2, RequestsMove
<1>5. ASSUME NEW r \in Requests, Find(r) PROVE Copies'
  <2> DEFINE x == IF table[req[r].id] = NULL THEN Idle
                  ELSE [pc |-> "put", id |-> req[r].id, student |-> table[req[r].id]]
  <2>1. /\ req[r].pc = "find" /\ req' = [req EXCEPT ![r] = x]
        /\ table' = table /\ cache' = cache /\ suspect' = suspect
    BY <1>5 DEF Find
  <2>2. x.pc = "put" => x.id \in Ids /\ x.student = table[x.id]
    BY <1>0, <2>1, RequestTyped DEF Idle
  <2> HIDE DEF x
  <2>3. req'[r] = x /\ \A q \in Requests : q # r => req'[q] = req[q]
    BY <1>0, <2>1, Moved
  <2> QED
    BY <2>1, <2>2, <2>3, RequestsMove
<1>6. ASSUME NEW r \in Requests, Put(r) PROVE Copies'
  <2> DEFINE i0 == req[r].id
  <2>1. /\ req[r].pc = "put" /\ req' = [req EXCEPT ![r] = Idle]
        /\ cache' = [cache EXCEPT ![i0] = req[r].student]
        /\ table' = table /\ suspect' = suspect
    BY <1>6 DEF Put, Ends
  <2>2. req'[r] = Idle /\ \A q \in Requests : q # r => req'[q] = req[q]
    BY <1>0, <2>1, Moved
  <2>3. i0 \in Ids /\ (i0 \in suspect \/ req[r].student = table[i0])
    BY <1>0, <2>1, RequestTyped DEF IInv, Copies, HeldIsRow
  <2>4. /\ cache'[i0] = req[r].student
        /\ \A i \in Ids : i # i0 => cache'[i] = cache[i]
    BY <1>0, <2>1, <2>3 DEF TypeOK, Rows
  <2>5. StaleOnlyWhenSuspect'
    <3> SUFFICES ASSUME NEW i \in Ids, Stale(i)' PROVE i \in suspect' \/ Uncaching(i)'
      BY DEF StaleOnlyWhenSuspect
    <3>1. CASE i = i0
      BY <2>1, <2>3, <2>4, <3>1 DEF Stale
    <3>2. CASE i # i0
      <4>1. Stale(i)
        BY <2>1, <2>4, <3>2 DEF Stale
      <4>2. Uncaching(i) => Uncaching(i)'
        BY <2>1, <2>2 DEF Uncaching
      <4> QED
        BY <2>1, <4>1, <4>2 DEF IInv, Copies, StaleOnlyWhenSuspect
    <3> QED
      BY <3>1, <3>2
  <2>6. HeldIsRow'
    BY <2>1, <2>2 DEF HeldIsRow, IInv, Copies, Idle
  <2> QED
    BY <2>5, <2>6 DEF Copies
<1>7. ASSUME NEW r \in Requests, Uncache(r) PROVE Copies'
  <2>1. /\ req[r].pc = "uncache" /\ req' = [req EXCEPT ![r] = Idle]
        /\ cache' = [cache EXCEPT ![req[r].id] = NULL]
        /\ table' = table /\ suspect' = Cleared(req[r].id)
    BY <1>7 DEF Uncache, Ends
  <2>2. req'[r] = Idle /\ \A q \in Requests : q # r => req'[q] = req[q]
    BY <1>0, <2>1, Moved
  <2>3. req[r].id \in Ids /\ Idle.pc = "idle"
    BY <1>0, <2>1, RequestTyped DEF Idle
  <2> QED
    BY <2>1, <2>2, <2>3, CopyLost
<1>8. ASSUME NEW r \in Requests, CacheFails(r) PROVE Copies'
  <2>1. /\ req[r].pc \in {"put", "uncache"} /\ req' = [req EXCEPT ![r] = Idle]
        /\ cache' = cache /\ table' = table /\ suspect \subseteq suspect'
        /\ req[r].pc = "uncache" => req[r].id \in suspect'
    BY <1>8 DEF CacheFails, Ends
  <2>2. req'[r] = Idle /\ \A q \in Requests : q # r => req'[q] = req[q]
    BY <1>0, <2>1, Moved
  <2>3. Idle.pc = "idle"
    BY DEF Idle
  <2> QED
    BY <2>1, <2>2, <2>3, RequestsMove
<1>9. ASSUME NEW r \in Requests, ClientSave(r) PROVE Copies'
  <2>1. PICK id \in Ids :
          /\ table' = [table EXCEPT ![id] = req[r].student]
          /\ suspect' = Disturbed(id)
    BY <1>9 DEF ClientSave
  <2>2. req[r].pc = "save" /\ req' = [req EXCEPT ![r] = Idle] /\ cache' = cache
    BY <1>9 DEF ClientSave, Ends
  <2>3. req'[r] = Idle /\ \A q \in Requests : q # r => req'[q] = req[q]
    BY <1>0, <2>2, Moved
  <2>4. Idle.pc = "idle" /\ suspect \subseteq suspect' /\ (AnyCopy(id) => id \in suspect')
    BY <2>1 DEF Idle, Disturbed
  <2> QED
    BY <2>1, <2>2, <2>3, <2>4, TableWritten
<1>10. ASSUME NEW s \in Students, ClientCreate(s) PROVE Copies'
  <2>1. /\ nextId \in Ids /\ table' = [table EXCEPT ![nextId] = s]
        /\ cache' = cache /\ req' = req /\ suspect \subseteq suspect'
        /\ AnyCopy(nextId) => nextId \in suspect'
    BY <1>10 DEF ClientCreate, Disturbed
  <2> QED
    BY <2>1, TableWritten
<1>11. ASSUME NEW id \in Ids, ClientDelete(id) PROVE Copies'
  <2>1. /\ table' = [table EXCEPT ![id] = NULL]
        /\ cache' = cache /\ req' = req /\ suspect \subseteq suspect'
        /\ AnyCopy(id) => id \in suspect'
    BY <1>11 DEF ClientDelete, Disturbed
  <2> QED
    BY <2>1, TableWritten
<1>12. ASSUME NEW id \in Ids, Evict(id) PROVE Copies'
  <2>1. /\ cache' = [cache EXCEPT ![id] = NULL]
        /\ table' = table /\ req' = req /\ suspect' = Cleared(id)
    BY <1>12 DEF Evict
  <2> QED
    BY <2>1, CopyLost
<1>13. ASSUME NEW r \in Requests, NEW id \in Ids, NEW s \in Students,
              ClientFind(r, id, s) PROVE Copies'
  <2> DEFINE x == [pc |-> "save", id |-> id, student |-> s]
  <2>1. /\ req[r].pc = "idle" /\ req' = [req EXCEPT ![r] = x]
        /\ table' = table /\ cache' = cache /\ suspect' = suspect
    BY <1>13 DEF ClientFind, Begins, Idle
  <2>2. req'[r] = x /\ \A q \in Requests : q # r => req'[q] = req[q]
    BY <1>0, <2>1, Moved
  <2> QED
    BY <2>1, <2>2, RequestsMove
<1>14. ASSUME NEW steps \in {ServerSteps, ClientSteps}, ProgramRestart(steps)
       PROVE  Copies'
  <2>1. /\ cache' = cache
        /\ suspect' = suspect \cup {id \in Ids : AnyCopy(id)}
        /\ \A q \in Requests : req'[q].pc = "put" => req'[q] = req[q]
    BY <1>0, <1>14 DEF ProgramRestart, TypeOK, Idle
  <2>2. \A i \in Ids : cache[i] # NULL => i \in suspect'
    BY <2>1 DEF AnyCopy
  <2>3. \A q \in Requests : req[q].pc = "put" => req[q].id \in suspect'
    BY <1>0, <2>1, RequestTyped DEF AnyCopy, Held
  <2> QED
    BY <2>1, <2>2, <2>3 DEF Copies, StaleOnlyWhenSuspect, Stale, HeldIsRow
<1>15. CASE RedisSave
  BY <1>15, RequestsMove DEF RedisSave
<1>16. CASE RedisRestart
  <2>1. /\ cache' = dump /\ table' = table /\ req' = req
        /\ suspect' = suspect \cup {id \in Ids : dump[id] \notin {NULL, cache[id]}}
    BY <1>16 DEF RedisRestart
  <2>2. StaleOnlyWhenSuspect'
    BY <2>1 DEF IInv, Copies, StaleOnlyWhenSuspect, Stale, Uncaching
  <2>3. HeldIsRow'
    BY <2>1 DEF IInv, Copies, HeldIsRow
  <2> QED
    BY <2>2, <2>3 DEF Copies
<1> QED
  BY <1>1, <1>2, <1>3, <1>4, <1>5, <1>6, <1>7, <1>8, <1>9, <1>10, <1>11, <1>12, <1>13,
     <1>14, <1>15, <1>16 DEF Next

LEMMA IInvCorrect == Spec => []IInv
<1>1. IInv /\ [Next]_vars => IInv'
  BY TypeStep, CopiesStep DEF IInv
<1> QED
  BY InitIInv, <1>1, PTL DEF Spec

\* The table, the cache, the dump and the requests keep their types.
THEOREM TypeCorrect == Spec => []TypeOK
<1>1. IInv => TypeOK
  BY DEF IInv
<1> QED
  BY <1>1, IInvCorrect, PTL

\* A stale copy is being deleted or has one of the known causes.
THEOREM StaleOnlyWhenSuspectCorrect == Spec => []StaleOnlyWhenSuspect
<1>1. IInv => StaleOnlyWhenSuspect
  BY DEF IInv, Copies
<1> QED
  BY <1>1, IInvCorrect, PTL
=============================================================================
