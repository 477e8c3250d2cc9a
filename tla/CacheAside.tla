----------------------------- MODULE CacheAside -----------------------------
(***************************************************************************)
(* The students of the demonstration application: rows of a table that two *)
(* programs write, with copies in Redis.                                   *)
(*                                                                         *)
(* The server (CachingService) writes the table first and the cache next,  *)
(* in two steps no lock covers, and fills the cache when it misses.  The   *)
(* client (StudentService) writes the same table; its calls to the cache   *)
(* go to addresses no controller serves, so it ends each request with an   *)
(* exception after the write.  Both create the table anew when they start  *)
(* (ddl-auto: create).  Redis evicts keys, and restarts from its last dump.*)
(***************************************************************************)
EXTENDS Integers

CONSTANTS Requests,  \* request threads of both programs
          Students,  \* what a row may hold
          NULL,      \* no row, no key
          MaxId      \* bound on the identity column

ASSUME CacheAsideAssumption == NULL \notin Students /\ MaxId \in Nat

VARIABLES table,    \* the rows
          nextId,   \* the identity sequence
          cache,    \* data:<id> in Redis
          dump,     \* the same in its last dump
          req,      \* what each thread is doing
          suspect   \* ids whose copy may be out of date (history)

vars == <<table, nextId, cache, dump, req, suspect>>

Ids == 1 .. MaxId
Rows == [Ids -> Students \cup {NULL}]
Idle == [pc |-> "idle", id |-> 1, student |-> NULL]
ServerSteps == {"find", "put", "uncache"}
ClientSteps == {"save"}

\* Someone is about to put a copy under the id.
Held(id) == \E q \in Requests : req[q].pc = "put" /\ req[q].id = id
Uncaching(id) == \E q \in Requests : req[q].pc = "uncache" /\ req[q].id = id
AnyCopy(id) == cache[id] # NULL \/ Held(id)

Begins(r, pc, id, s) ==
  req[r] = Idle /\ req' = [req EXCEPT ![r] = [pc |-> pc, id |-> id, student |-> s]]
Ends(r) == req' = [req EXCEPT ![r] = Idle]

\* The copy is gone: unless another is on its way, nothing is out of date.
Cleared(id) == IF Held(id) THEN suspect ELSE suspect \ {id}

-----------------------------------------------------------------------------
Init == /\ table = [id \in Ids |-> NULL] /\ nextId = 1
        /\ cache = [id \in Ids |-> NULL] /\ dump = [id \in Ids |-> NULL]
        /\ req = [r \in Requests |-> Idle]
        /\ suspect = {}

(* The server. *)

\* createStudent(): the row, and then putM().
CreateRow(r, s) ==
  /\ nextId \in Ids
  /\ Begins(r, "put", nextId, s)
  /\ table' = [table EXCEPT ![nextId] = s]
  /\ nextId' = nextId + 1
  /\ suspect' = IF AnyCopy(nextId) THEN suspect \cup {nextId} ELSE suspect
  /\ UNCHANGED <<cache, dump>>

\* getM(): a hit returns the copy; a miss goes to the table.
GetMiss(r, id) ==
  /\ cache[id] = NULL
  /\ Begins(r, "find", id, NULL)
  /\ UNCHANGED <<table, nextId, cache, dump, suspect>>

\* Without a row it throws.
Find(r) ==
  /\ req[r].pc = "find"
  /\ LET id == req[r].id IN
       req' = [req EXCEPT ![r] = IF table[id] = NULL THEN Idle
                                 ELSE [pc |-> "put", id |-> id, student |-> table[id]]]
  /\ UNCHANGED <<table, nextId, cache, dump, suspect>>

\* putM()
Put(r) ==
  /\ req[r].pc = "put"
  /\ cache' = [cache EXCEPT ![req[r].id] = req[r].student]
  /\ Ends(r)
  /\ UNCHANGED <<table, nextId, dump, suspect>>

\* deleteM(): deleteById() throws without a row, and the cache keeps its copy.
DeleteRow(r, id) ==
  /\ table[id] # NULL
  /\ Begins(r, "uncache", id, NULL)
  /\ table' = [table EXCEPT ![id] = NULL]
  /\ suspect' = IF Held(id) THEN suspect \cup {id} ELSE suspect
  /\ UNCHANGED <<nextId, cache, dump>>

\* Mutant of Uncache: the key deleted is not the one the copy is under.
UncacheOtherKey(r) ==
  /\ req[r].pc = "uncache"
  /\ Ends(r)
  /\ suspect' = Cleared(req[r].id)
  /\ UNCHANGED <<table, nextId, cache, dump>>

Uncache(r) ==
  /\ req[r].pc = "uncache"
  /\ cache' = [cache EXCEPT ![req[r].id] = NULL]
  /\ Ends(r)
  /\ suspect' = Cleared(req[r].id)
  /\ UNCHANGED <<table, nextId, dump>>

\* Redis refuses the write (out of memory, no connection): an exception.
CacheFails(r) ==
  /\ req[r].pc \in {"put", "uncache"}
  /\ Ends(r)
  /\ suspect' = IF req[r].pc = "uncache" THEN suspect \cup {req[r].id} ELSE suspect
  /\ UNCHANGED <<table, nextId, cache, dump>>

-----------------------------------------------------------------------------
(* The client: the cache does not hear of its writes. *)

Disturbed(id) == IF AnyCopy(id) THEN suspect \cup {id} ELSE suspect

ClientCreate(s) ==
  /\ nextId \in Ids
  /\ table' = [table EXCEPT ![nextId] = s]
  /\ nextId' = nextId + 1
  /\ suspect' = Disturbed(nextId)
  /\ UNCHANGED <<cache, dump, req>>

ClientDelete(id) ==
  /\ table[id] # NULL
  /\ table' = [table EXCEPT ![id] = NULL]
  /\ suspect' = Disturbed(id)
  /\ UNCHANGED <<nextId, cache, dump, req>>

\* updateStudent(): findById() ...
ClientFind(r, id, s) ==
  /\ table[id] # NULL
  /\ Begins(r, "save", id, s)
  /\ UNCHANGED <<table, nextId, cache, dump, suspect>>

\* ... and save(), which inserts a new row when the old one has gone.
ClientSave(r) ==
  /\ req[r].pc = "save"
  /\ LET id == IF table[req[r].id] # NULL THEN req[r].id ELSE nextId IN
       /\ id \in Ids
       /\ table' = [table EXCEPT ![id] = req[r].student]
       /\ nextId' = IF id = nextId THEN nextId + 1 ELSE nextId
       /\ suspect' = Disturbed(id)
  /\ Ends(r)
  /\ UNCHANGED <<cache, dump>>

\* Either program starts again: its requests are gone and so is the table.
ProgramRestart(steps) ==
  /\ table' = [id \in Ids |-> NULL] /\ nextId' = 1
  /\ req' = [r \in Requests |-> IF req[r].pc \in steps THEN Idle ELSE req[r]]
  /\ suspect' = suspect \cup {id \in Ids : AnyCopy(id)}
  /\ UNCHANGED <<cache, dump>>

-----------------------------------------------------------------------------
(* Redis. *)

Evict(id) ==
  /\ cache[id] # NULL
  /\ cache' = [cache EXCEPT ![id] = NULL]
  /\ suspect' = Cleared(id)
  /\ UNCHANGED <<table, nextId, dump, req>>

RedisSave == /\ dump' = cache
             /\ UNCHANGED <<table, nextId, cache, req, suspect>>

RedisRestart ==
  /\ cache' = dump
  /\ suspect' = suspect \cup {id \in Ids : dump[id] \notin {NULL, cache[id]}}
  /\ UNCHANGED <<table, nextId, dump, req>>

Next == \/ \E r \in Requests, s \in Students : CreateRow(r, s)
        \/ \E r \in Requests, id \in Ids : GetMiss(r, id) \/ DeleteRow(r, id)
        \/ \E r \in Requests : \/ Find(r) \/ Put(r) \/ Uncache(r) \/ CacheFails(r)
                               \/ ClientSave(r)
        \/ \E s \in Students : ClientCreate(s)
        \/ \E id \in Ids : ClientDelete(id) \/ Evict(id)
        \/ \E r \in Requests, id \in Ids, s \in Students : ClientFind(r, id, s)
        \/ \E steps \in {ServerSteps, ClientSteps} : ProgramRestart(steps)
        \/ RedisSave
        \/ RedisRestart

Spec == Init /\ [][Next]_vars

-----------------------------------------------------------------------------
TypeOK ==
  /\ table \in Rows /\ cache \in Rows /\ dump \in Rows
  /\ nextId \in 1 .. MaxId + 1
  /\ req \in [Requests -> [pc : {"idle"} \cup ServerSteps \cup ClientSteps,
                           id : Ids \cup {1}, student : Students \cup {NULL}]]
  /\ \A r \in Requests :
       /\ req[r].pc # "idle" => req[r].id \in Ids
       /\ req[r].pc \in {"put", "save"} => req[r].student # NULL
  /\ suspect \subseteq Ids

(***************************************************************************)
(* A copy in the cache that is not the row is a copy of a student who is   *)
(* being deleted, or has one of the known causes: a fill that overlapped   *)
(* the deletion or an update of its row, a write of the client, a call to  *)
(* Redis that failed, a table created anew, a dump loaded.  Losing the     *)
(* copy, by a deletion or an eviction, mends all of them.                  *)
(***************************************************************************)
Stale(id) == cache[id] \notin {NULL, table[id]}
StaleOnlyWhenSuspect == \A id \in Ids : Stale(id) => id \in suspect \/ Uncaching(id)
=============================================================================
