----------------------------- MODULE StringStore -----------------------------
(***************************************************************************)
(* The objects behind string values: their encodings (raw, embstr, int),   *)
(* their reference counts, the integers shared by everyone, and the        *)
(* commands that store, change, share and free them.                       *)
(*                                                                         *)
(* A client sends commands one at a time or in a transaction.  Until the   *)
(* transaction ends, its queue holds a reference to every argument, and so *)
(* does the list of the commands to propagate: the objects a command       *)
(* stores in the keyspace are, for a while, also what the replicas will be *)
(* sent.                                                                   *)
(***************************************************************************)
EXTENDS RdbEncoding, FiniteSetsExt

CONSTANTS Keys, NULL, Texts, MaxText,   \* as in StringMap
          SharedIntegers,   \* OBJ_SHARED_INTEGERS
          EmbLimit,         \* OBJ_ENCODING_EMBSTR_SIZE_LIMIT
          MaxQueue          \* bound: commands in a transaction

Symbols == {"1", "a"}

ASSUME StringStoreAssumption == /\ SharedIntegers \in Nat /\ EmbLimit \in Nat
                                /\ MaxQueue \in Nat \ {0} /\ IsFiniteSet(Keys)
ASSUME TextsAssumption == /\ MaxText \in Nat \ {0} /\ MaxText \div Power[4] < Power[4]
                          /\ \A t \in Texts : t \in Seq(Symbols) /\ Len(t) <= MaxText
ASSUME NullAssumption == NULL \notin Int /\ NULL \notin Seq(Symbols)

VARIABLES heap,      \* id -> object, for the objects there are that are not shared
          dict,      \* key -> id of its value
          sharing,   \* no memory limit, or a policy that needs no access data
          client,    \* the transaction of the client that is being served
          replica,   \* the values of a replica
          stored     \* history: was sharing allowed when the key was last given a value?

vars == <<heap, dict, sharing, client, replica, stored>>

M == INSTANCE StringMap WITH map <- replica

Idle == [phase |-> "idle", queue |-> << >>, next |-> 1, propagate |-> << >>]

-----------------------------------------------------------------------------
(* Objects.  A shared integer has an id below 1, no entry in the heap and a *)
(* reference count that nothing changes.                                   *)

Shared(n) == -n
IsShared(id) == id <= 0
Raw(s) == [enc |-> "raw", str |-> s, ref |-> 1]
Embstr(s) == [enc |-> "embstr", str |-> s, ref |-> 1]
IntObj(n) == [enc |-> "int", num |-> n, ref |-> 1]

StringOf(h, id) == IF IsShared(id) THEN M!NumberText(-id)
                   ELSE IF h[id].enc = "int" THEN M!NumberText(h[id].num) ELSE h[id].str
Value(h, d, k) == IF d[k] = NULL THEN NULL ELSE StringOf(h, d[k])

\* An operation on the heap returns the new heap and an object.
With(h, id) == [heap |-> h, id |-> id]
Ids(h) == 1 .. Cardinality(DOMAIN h) + 1
Created(h, o) == LET id == Min(Ids(h) \ DOMAIN h)
                 IN With([i \in DOMAIN h \cup {id} |-> IF i = id THEN o ELSE h[i]], id)

\* incrRefCount(), decrRefCount()
Incr(h, id) == IF IsShared(id) THEN h ELSE [h EXCEPT ![id].ref = @ + 1]
Decr(h, id) == IF IsShared(id) THEN h
               ELSE IF h[id].ref = 1 THEN [i \in DOMAIN h \ {id} |-> h[i]]
               ELSE [h EXCEPT ![id].ref = @ - 1]

\* createStringObject()
CreateString(h, s) == Created(h, IF Len(s) <= EmbLimit THEN Embstr(s) ELSE Raw(s))

\* Mutant of CreateInt: the bound of the shared integers is inclusive.
CreateIntInclusive(h, n, auto) ==
  IF auto /\ n <= SharedIntegers THEN With(h, Shared(n)) ELSE Created(h, IntObj(n))

\* createStringObjectFromLongLongWithOptions(), with LL2STROBJ_AUTO or _NO_SHARED
CreateInt(h, n, auto) ==
  IF auto /\ n < SharedIntegers THEN With(h, Shared(n)) ELSE Created(h, IntObj(n))

\* Mutant of CreateForValue: always as an argument or a reply.
CreateAuto(h, n) == CreateInt(h, n, TRUE)

\* createStringObjectFromLongLongForValue()
CreateForValue(h, n) == CreateInt(h, n, sharing)

\* tryObjectEncodingEx(); trimming a raw string leaves its text alone.
TryEncode(h, id) ==
  LET o == h[id] n == Len(o.str) IN
  IF IsShared(id) THEN With(h, id)
  ELSE IF o.enc = "int" \/ o.ref > 1 THEN With(h, id)
  ELSE IF M!IsNumber(o.str)
    THEN IF sharing /\ n < SharedIntegers THEN With(Decr(h, id), Shared(n))
         ELSE IF o.enc = "raw" THEN With([h EXCEPT ![id] = IntObj(n)], id)
         ELSE CreateForValue(Decr(h, id), n)
  ELSE IF o.enc = "raw" /\ Len(o.str) <= EmbLimit
    THEN LET emb == Created(h, Embstr(o.str)) IN With(Decr(emb.heap, id), emb.id)
  ELSE With(h, id)

\* dupStringObject(): the same encoding, and always an object of its own.
Dup(h, id) == IF IsShared(id) THEN Created(h, IntObj(-id))
              ELSE Created(h, [h[id] EXCEPT !.ref = 1])

\* getDecodedObject(): a reference to a string, or a new string for a number.
Decoded(h, id) ==
  IF IsShared(id) THEN CreateString(h, StringOf(h, id))
  ELSE IF h[id].enc = "int" THEN CreateString(h, StringOf(h, id))
  ELSE With(Incr(h, id), id)

-----------------------------------------------------------------------------
(* The commands, on a state [heap, dict, arg, done] where arg is the       *)
(* object of the last argument, which a command may replace in argv, and   *)
(* done says that the command changed the data.                            *)

Release(h, id) == IF id = NULL THEN h ELSE Decr(h, id)
State(h, d, arg, done) == [heap |-> h, dict |-> d, arg |-> arg, done |-> done]
Refused(cmd) == State(heap, dict, cmd.arg, FALSE)

\* Mutant of Set: the reference the key holds is not counted.
SetUncounted(cmd) ==
  LET e == TryEncode(heap, cmd.arg)
  IN State(Release(e.heap, dict[cmd.key]), [dict EXCEPT ![cmd.key] = e.id], e.id, TRUE)

\* setKey() of an encoded argument: dbAdd() or dbSetValue(), and incrRefCount().
Set(cmd) ==
  LET e == TryEncode(heap, cmd.arg)
  IN State(Release(Incr(e.heap, e.id), dict[cmd.key]), [dict EXCEPT ![cmd.key] = e.id], e.id, TRUE)

\* Mutant of Unshared: only the encoding is looked at.
UnsharedByEncoding(k) ==
  IF ~IsShared(dict[k]) /\ heap[dict[k]].enc = "raw" THEN With(heap, dict[k])
  ELSE LET dec == Decoded(heap, dict[k])
           new == Created(dec.heap, Raw(StringOf(dec.heap, dec.id)))
       IN With(Release(Decr(new.heap, dec.id), dict[k]), new.id)

\* dbUnshareStringValue(): a raw string nobody else holds, else a copy in its place.
Unshared(k) ==
  IF ~IsShared(dict[k]) /\ heap[dict[k]].enc = "raw" /\ heap[dict[k]].ref = 1
    THEN With(heap, dict[k])
  ELSE LET dec == Decoded(heap, dict[k])
           new == Created(dec.heap, Raw(StringOf(dec.heap, dec.id)))
       IN With(Release(Decr(new.heap, dec.id), dict[k]), new.id)

\* appendCommand()
AppendTo(cmd) ==
  LET old == Value(heap, dict, cmd.key) s == StringOf(heap, cmd.arg) IN
  IF ~M!MayAppend(old, s) THEN Refused(cmd)
  ELSE IF old = NULL
    THEN LET e == TryEncode(heap, cmd.arg)
         IN State(Incr(e.heap, e.id), [dict EXCEPT ![cmd.key] = e.id], e.id, TRUE)
  ELSE LET u == Unshared(cmd.key)
       IN State([u.heap EXCEPT ![u.id].str = @ \o s], [dict EXCEPT ![cmd.key] = u.id], cmd.arg, TRUE)

\* Mutant of Increment: in place, the sum is added to the number once more.
IncrementAgain(cmd) ==
  LET id  == dict[cmd.key]
      old == Value(heap, dict, cmd.key)
      n   == IF old = NULL THEN 1 ELSE Len(old) + 1
      new == CreateForValue(heap, n)
  IN IF ~M!MayIncr(old) THEN Refused(cmd)
     ELSE IF id # NULL /\ ~IsShared(id) /\ heap[id].enc = "int" /\ heap[id].ref = 1
             /\ n >= SharedIntegers
       THEN State([heap EXCEPT ![id].num = @ + n], dict, NULL, TRUE)
     ELSE State(Release(new.heap, id), [dict EXCEPT ![cmd.key] = new.id], NULL, TRUE)

\* incrDecrCommand(): in place only an integer object of its own outside the
\* shared range.
Increment(cmd) ==
  LET id  == dict[cmd.key]
      old == Value(heap, dict, cmd.key)
      n   == IF old = NULL THEN 1 ELSE Len(old) + 1
      new == CreateForValue(heap, n)
  IN IF ~M!MayIncr(old) THEN Refused(cmd)
     ELSE IF id # NULL /\ ~IsShared(id) /\ heap[id].enc = "int" /\ heap[id].ref = 1
             /\ n >= SharedIntegers
       THEN State([heap EXCEPT ![id].num = n], dict, NULL, TRUE)
     ELSE State(Release(new.heap, id), [dict EXCEPT ![cmd.key] = new.id], NULL, TRUE)

Delete(cmd) ==
  State(Release(heap, dict[cmd.key]), [dict EXCEPT ![cmd.key] = NULL], NULL, dict[cmd.key] # NULL)

\* renameGenericCommand(): the object itself is added again.
Rename(cmd) ==
  IF dict[cmd.key] = NULL THEN Refused(cmd)
  ELSE LET held == Incr(heap, dict[cmd.key])
       IN State(Decr(Release(held, dict[cmd.to]), dict[cmd.key]),
                [dict EXCEPT ![cmd.to] = dict[cmd.key], ![cmd.key] = NULL], NULL, TRUE)

\* copyCommand() without REPLACE
Copy(cmd) ==
  IF dict[cmd.key] = NULL \/ dict[cmd.to] # NULL THEN Refused(cmd)
  ELSE LET o == Dup(heap, dict[cmd.key])
       IN State(o.heap, [dict EXCEPT ![cmd.to] = o.id], NULL, TRUE)

Result(cmd) ==
  CASE cmd.name = "set" -> Set(cmd)
    [] cmd.name = "append" -> AppendTo(cmd)
    [] cmd.name = "incr" -> Increment(cmd)
    [] cmd.name = "del" -> Delete(cmd)
    [] cmd.name = "rename" -> Rename(cmd)
    [] cmd.name = "copy" -> Copy(cmd)

\* Under which mode the values were given to their keys; a copy is never shared.
StoredAfter(cmd) ==
  CASE cmd.name \in {"set", "append", "incr"} -> [stored EXCEPT ![cmd.key] = sharing]
    [] cmd.name = "rename" -> [stored EXCEPT ![cmd.to] = stored[cmd.key], ![cmd.key] = FALSE]
    [] cmd.name = "copy" -> [stored EXCEPT ![cmd.to] = FALSE]
    [] cmd.name = "del" -> [stored EXCEPT ![cmd.key] = FALSE]

-----------------------------------------------------------------------------
Init == /\ heap = << >>
        /\ dict = [k \in Keys |-> NULL]
        /\ sharing \in BOOLEAN
        /\ client = Idle
        /\ replica = [k \in Keys |-> NULL]
        /\ stored = [k \in Keys |-> FALSE]

\* A command arrives; its argument is a string object, as the parser makes it.
Queue(c) ==
  /\ client.phase = "idle" /\ Len(client.queue) < MaxQueue
  /\ LET o == IF "text" \in DOMAIN c THEN CreateString(heap, c.text) ELSE With(heap, NULL)
         cmd == [name |-> c.name, key |-> c.key, to |-> IF "to" \in DOMAIN c THEN c.to ELSE NULL,
                 arg |-> o.id]
     IN /\ client' = [client EXCEPT !.queue = Append(@, cmd)]
        /\ heap' = o.heap
  /\ UNCHANGED <<dict, sharing, replica, stored>>

\* One command of the transaction runs, and is to be propagated if it did anything;
\* what stays of it in the queue is the argument it holds.
Execute ==
  /\ client.phase \in {"idle", "exec"} /\ client.next <= Len(client.queue)
  /\ LET cmd  == client.queue[client.next]
         r    == Result(cmd)
         ran  == [cmd EXCEPT !.arg = r.arg]
         held == IF r.done /\ r.arg # NULL THEN Incr(r.heap, r.arg) ELSE r.heap
     IN /\ heap' = held
        /\ dict' = r.dict
        /\ stored' = IF r.done THEN StoredAfter(cmd) ELSE stored
        /\ client' = [client EXCEPT !.phase = "exec", !.next = @ + 1,
                                    !.queue[client.next] = [arg |-> r.arg],
                                    !.propagate = IF r.done THEN Append(@, ran) ELSE @]
  /\ UNCHANGED <<sharing, replica>>

\* The arguments a list of commands holds, released.
Freed(h, commands) ==
  FoldLeft(LAMBDA acc, cmd : Release(acc, cmd.arg), h, commands)
Sent(cmd) == [name |-> cmd.name, key |-> cmd.key, to |-> cmd.to,
              text |-> IF cmd.arg = NULL THEN NULL ELSE StringOf(heap, cmd.arg)]

\* What a replica makes of a command; the limit of a value does not bind the master's.
Replayed(m, cmd) == IF cmd.name = "append"
                      THEN [m EXCEPT ![cmd.key] = M!AppendedText(@, cmd.text)]
                      ELSE M!Applied(m, cmd)

\* The transaction ends: the replica is sent its commands, and all is released.
Finish ==
  /\ client.phase = "exec" /\ client.next > Len(client.queue)
  /\ replica' = FoldLeft(LAMBDA m, cmd : Replayed(m, Sent(cmd)), replica, client.propagate)
  /\ heap' = Freed(Freed(heap, client.propagate), client.queue)
  /\ client' = Idle
  /\ UNCHANGED <<dict, sharing, stored>>

\* DISCARD, or the client disconnects.
Discard ==
  /\ client.phase = "idle" /\ client.queue # << >>
  /\ heap' = Freed(heap, client.queue)
  /\ client' = Idle
  /\ UNCHANGED <<dict, sharing, replica, stored>>

\* CONFIG SET maxmemory or maxmemory-policy
SetPolicy ==
  /\ client.phase = "idle"
  /\ sharing' = ~sharing
  /\ UNCHANGED <<heap, dict, client, replica, stored>>

\* The text of a value in the dump and back: rdbSaveStringObject(),
\* rdbLoadEncodedStringObject().
DumpText(s) == IF M!IsNumber(s) THEN IntText(Len(s))
             ELSE IF s = << >> THEN EmptyText ELSE Text(s, Len(s), 0)
Reread(s, enc) == LoadString(SaveString([encoding |-> enc, str |-> DumpText(s)], FALSE), "enc").val

\* The object made of it, tryObjectEncodingEx() included.
Reloaded(loaded) ==
  LET new == IF loaded.encoding = "int" THEN CreateForValue(<< >>, loaded.str.val)
             ELSE CreateString(<< >>, IF loaded.str.int THEN M!NumberText(loaded.str.val)
                                      ELSE IF loaded.str.len = 0 THEN << >> ELSE loaded.str.val)
  IN TryEncode(new.heap, new.id)

\* The value of a key through the dump: loading it touches no object but its own.
Made(k) == Reloaded(Reread(StringOf(heap, dict[k]),
                           IF IsShared(dict[k]) THEN "int" ELSE heap[dict[k]].enc))
WithObject == {k \in Keys : dict[k] # NULL /\ ~IsShared(Made(k).id)}
Places == {p \in [Keys -> 1 .. Cardinality(Keys)] : \A k, l \in Keys : p[k] = p[l] => k = l}

\* The server saves, restarts and loads its dump, the objects anywhere.
Restart ==
  /\ client = Idle
  /\ \E place \in Places :
       LET at(i) == Made(CHOOSE k \in WithObject : place[k] = i)
       IN /\ heap' = [i \in {place[k] : k \in WithObject} |-> at(i).heap[at(i).id]]
          /\ dict' = [k \in Keys |-> IF dict[k] = NULL THEN NULL
                                     ELSE IF k \in WithObject THEN place[k] ELSE Made(k).id]
  /\ stored' = [k \in Keys |-> dict[k] # NULL /\ sharing]
  /\ UNCHANGED <<sharing, client, replica>>

Next == \/ \E c \in M!Commands : Queue(c)
        \/ Execute
        \/ Finish
        \/ Discard
        \/ SetPolicy
        \/ Restart

Spec == Init /\ [][Next]_vars

-----------------------------------------------------------------------------
\* How many places hold an object.
Times(f, id) == Cardinality({x \in DOMAIN f : f[x] = id})
HeldArgs(commands) == [i \in DOMAIN commands |-> commands[i].arg]
Holders(id) == Times(dict, id) + Times(HeldArgs(client.queue), id) + Times(HeldArgs(client.propagate), id)

Values == {s \in Seq(Symbols) : Len(s) <= MaxText}
Objects == [enc : {"raw", "embstr"}, str : Values, ref : Nat \ {0}]
     \cup [enc : {"int"}, num : 1 .. MaxText, ref : Nat \ {0}]
SharedIds == {Shared(n) : n \in {m \in 1 .. MaxText : m < SharedIntegers}}
Held(h) == {NULL} \cup SharedIds \cup DOMAIN h
TypeOK == /\ DOMAIN heap \subseteq Nat \ {0} /\ \A id \in DOMAIN heap : heap[id] \in Objects
          /\ DOMAIN dict = Keys /\ \A k \in Keys : dict[k] \in Held(heap)
          /\ \A i \in DOMAIN client.queue : client.queue[i].arg \in Held(heap)
          /\ \A i \in DOMAIN client.propagate : client.propagate[i].arg \in Held(heap)
          /\ sharing \in BOOLEAN /\ stored \in [Keys -> BOOLEAN]

(***************************************************************************)
(* Every reference count is the number of places that hold the object -    *)
(* keys, queued arguments, arguments to propagate - so that nothing is     *)
(* freed while it is held, and nothing stays when it is held no more       *)
(* (object.c:413-443).                                                     *)
(***************************************************************************)
RefsAreHeld == \A id \in DOMAIN heap : heap[id].ref = Holders(id)

(***************************************************************************)
(* A key whose value was given while the policy needed access data of its  *)
(* own does not hold a shared integer, whatever the value, the way it was  *)
(* made and the policies since (object.c:204-219, 694-702); and a copy     *)
(* never does.                                                             *)
(***************************************************************************)
PrivateWhenNeeded == \A k \in Keys : dict[k] # NULL /\ IsShared(dict[k]) => stored[k]

(***************************************************************************)
(* Between transactions the replica has the values of the master: no       *)
(* argument is changed, by a command of the same transaction that modifies *)
(* the value it became, before it is propagated (db.c:455-463).            *)
(***************************************************************************)
ReplicaFollows ==
  client.phase = "idle" => replica = [k \in Keys |-> Value(heap, dict, k)]

(***************************************************************************)
(* Whatever objects are shared, encoded, unshared, freed and reloaded, the *)
(* values change as the map of StringMap: one key per command.             *)
(***************************************************************************)
V == INSTANCE StringMap WITH map <- [k \in Keys |-> Value(heap, dict, k)]
MapSpec == V!Spec

(***************************************************************************)
(* The heap holds objects in their encodings, each counted as often as it  *)
(* is held (object.c:43-443).                                              *)
(***************************************************************************)
HeapSound == TypeOK /\ RefsAreHeld
=============================================================================
