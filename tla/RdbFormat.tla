----------------------------- MODULE RdbFormat -----------------------------
(***************************************************************************)
(* What rdb.c writes into a dump and reads out of it: the dump as the      *)
(* sequence of its records, whose values are opaque.  Module RdbEncoding   *)
(* has the bytes.                                                          *)
(***************************************************************************)
EXTENDS RdbEncoding

CONSTANTS DbNum,       \* server.dbnum
          Now,         \* mstime() when the dump is loaded
          EMPTY,       \* a value without elements, as old versions could save
          NoInfo       \* no rdbSaveInfo

ASSUME FormatAssumption == DbNum \in Nat \ {0} /\ Now \in Int

-----------------------------------------------------------------------------
(* The dump as a sequence of records.  A database is the sequence of its   *)
(* entries [key, val, expire (-1 for none), idle, freq] in the order the   *)
(* dictionary gives them; idle and freq are what estimateObjectIdleTime()  *)
(* and LFUDecrAndReturn() say of the value, -1 in a database just loaded   *)
(* when the record gave none.                                              *)

\* rdbSaveKeyValuePair()
SaveKey(e, policy) ==
     (IF e.expire # -1 THEN <<[op |-> "expiretime", ms |-> e.expire]>> ELSE << >>)
  \o (CASE policy = "LRU" -> <<[op |-> "idle", seconds |-> e.idle \div 1000]>>
        [] policy = "LFU" -> <<[op |-> "freq", counter |-> e.freq]>>
        [] OTHER -> << >>)
  \o <<[op |-> "value", key |-> e.key, val |-> e.val]>>

Aux(name, val) == <<[op |-> "aux", name |-> name, val |-> val]>>

\* rdbSaveInfoAuxFields(); the version, the word size, the time and the memory
\* are only logged by who reads them.
SaveAux(s, rsi) ==
     Aux("ctime", Now)
  \o (IF rsi = NoInfo THEN << >>
      ELSE Aux("repl-stream-db", rsi.db) \o Aux("repl-id", s.replid)
           \o Aux("repl-offset", s.offset))
  \o Aux("aof-base", s.preamble)

\* rdbSaveFunctions()
SaveFunctions(libraries) ==
  [i \in DOMAIN libraries |-> [op |-> "function", code |-> libraries[i]]]

\* rdbSaveDb()
SaveDb(dbid, db, policy) ==
  IF db = << >> THEN << >>
  ELSE <<[op |-> "selectdb", db |-> dbid],
         [op |-> "resizedb", keys |-> Len(db),
          expires |-> Cardinality({i \in DOMAIN db : db[i].expire # -1})]>>
       \o FlattenSeq([i \in DOMAIN db |-> SaveKey(db[i], policy)])

\* Mutant of PopulateSaveInfo: no position without a master or a replica that is fed.
PopulateSaveInfoSelected(r) ==
  IF r.masterhost = "none" /\ r.backlog /\ r.slaveseldb # -1 THEN [db |-> r.slaveseldb]
  ELSE IF r.master # -1 THEN [db |-> r.master]
  ELSE IF r.cached # -1 THEN [db |-> r.cached]
  ELSE NoInfo

\* rdbPopulateSaveInfo(): what the dump says of replication.
PopulateSaveInfo(r) ==
  IF r.masterhost = "none" /\ r.backlog
    THEN [db |-> IF r.slaveseldb = -1 THEN 0 ELSE r.slaveseldb]
  ELSE IF r.master # -1 THEN [db |-> r.master]
  ELSE IF r.cached # -1 THEN [db |-> r.cached]
  ELSE NoInfo

\* rdbSaveRio().  The checksum is the whole stream, or 0 with rdbchecksum no.
SaveRio(s, req, rsi) ==
  LET body == SaveAux(s, rsi)
              \o (IF "functions" \in req THEN << >> ELSE SaveFunctions(s.libraries))
              \o (IF "data" \in req THEN << >>
                  ELSE FlattenSeq([j \in 1 .. Len(s.dbs) |->
                                     SaveDb(j - 1, s.dbs[j], s.policy)]))
              \o <<[op |-> "eof"]>>
  IN body \o <<[op |-> "checksum", of |-> IF s.checksum THEN body ELSE << >>]>>

NoAttributes == [expire |-> -1, idle |-> -1, freq |-> -1]

\* A load begins, into the databases there are.
Loading(dbs) ==
  [ended |-> "no", dbid |-> 0, attr |-> NoAttributes, dbs |-> dbs, libraries |-> << >>,
   replid |-> "none", offset |-> -1, streamdb |-> -1, fed |-> {}, read |-> 0]

\* AUX fields that matter; rsi may be NULL, and who does not know a field skips it.
LoadAux(l, r, rsi) ==
  IF ~rsi THEN l
  ELSE CASE r.name = "repl-stream-db" -> [l EXCEPT !.streamdb = r.val]
         [] r.name = "repl-id" -> [l EXCEPT !.replid = r.val]
         [] r.name = "repl-offset" -> [l EXCEPT !.offset = r.val]
         [] OTHER -> l

\* objectSetLRUOrLFU() keeps what its policy can use.
Usage(attr, policy) ==
  [idle |-> IF policy = "LFU" \/ attr.idle = -1 THEN -1 ELSE attr.idle * 1000,
   freq |-> IF policy = "LFU" THEN attr.freq ELSE -1]

Skipped(l, r, c) == /\ c.master /\ "preamble" \notin c.flags
                    /\ l.attr.expire # -1 /\ l.attr.expire < Now

\* The entry of a key, once the name is free.
Added(l, r, policy) ==
  LET usage == Usage(l.attr, policy)
  IN [l EXCEPT !.dbs[l.dbid + 1] =
        Append(RemoveFirstMatch(@, LAMBDA e : e.key = r.key),
               [key |-> r.key, val |-> r.val, expire |-> l.attr.expire,
                idle |-> usage.idle, freq |-> usage.freq])]

Taken(l, r) == \E i \in DOMAIN l.dbs[l.dbid + 1] : l.dbs[l.dbid + 1][i].key = r.key

\* Mutant of LoadValue: the attributes are reset only when the key is kept.
LoadValueSticky(l, r, c) ==
  CASE r.val = EMPTY -> l
    [] r.val # EMPTY /\ Skipped(l, r, c) -> l
    [] OTHER -> [Added(l, r, c.policy) EXCEPT !.attr = NoAttributes]

\* A value and the attributes before it: a value without elements is discarded,
\* an expired one too on a master (which tells its replicas if they will be fed from here), a name
\* twice stops the server unless the flag allows it.
LoadValue(l, r, c) ==
  LET reset == [l EXCEPT !.attr = NoAttributes] IN
  CASE r.val = EMPTY -> reset
    [] r.val # EMPTY /\ Skipped(l, r, c) ->
         IF "feed" \in c.flags THEN [reset EXCEPT !.fed = @ \cup {<<l.dbid, r.key>>}] ELSE reset
    [] r.val # EMPTY /\ ~Skipped(l, r, c) /\ Taken(l, r) /\ "dup" \notin c.flags ->
         [l EXCEPT !.ended = "panic"]
    [] OTHER -> [Added(l, r, c.policy) EXCEPT !.attr = NoAttributes]

\* Mutant of LoadChecksum: the sum is not compared with what was read.
LoadChecksumTrusting(l, r, stream, c) ==
  [l EXCEPT !.ended = IF c.checksum /\ r.of # << >> /\ Len(r.of) # l.read THEN "crc" ELSE "ok"]

\* The last eight bytes; a sum of 0 is not compared.
LoadChecksum(l, r, stream, c) ==
  [l EXCEPT !.ended = IF c.checksum /\ r.of # << >> /\ r.of # SubSeq(stream, 1, l.read)
                      THEN "crc" ELSE "ok"]

\* One turn of the loop of rdbLoadRioWithLoadingCtx().
LoadRecord(l, r, stream, c) ==
  LET next == [l EXCEPT !.read = @ + 1] IN
  IF l.ended # "no" THEN l
  ELSE CASE r.op = "expiretime" -> [next EXCEPT !.attr.expire = r.ms]
         [] r.op = "freq" -> [next EXCEPT !.attr.freq = r.counter]
         [] r.op = "idle" -> [next EXCEPT !.attr.idle = r.seconds]
         [] r.op = "selectdb" -> IF r.db >= DbNum THEN [l EXCEPT !.ended = "exit"]
                                 ELSE [next EXCEPT !.dbid = r.db]
         [] r.op = "aux" -> LoadAux(next, r, c.rsi)
         [] r.op = "function" ->
              IF \E i \in DOMAIN l.libraries : l.libraries[i] = r.code /\ "dup" \notin c.flags
                THEN [l EXCEPT !.ended = "eof"]
                ELSE [next EXCEPT !.libraries = Append(RemoveFirst(@, r.code), r.code)]
         [] r.op = "value" -> LoadValue(next, r, c)
         [] r.op = "checksum" -> LoadChecksum(l, r, stream, c)
         [] OTHER -> next          \* RESIZEDB is a hint, EOF ends the values

\* rdbLoadRio(); a stream that ends before the checksum is a short read.
LoadRio(stream, c) ==
  LET l == FoldLeft(LAMBDA acc, r : LoadRecord(acc, r, stream, c), Loading(c.dbs), stream)
  IN IF l.ended = "no" THEN [l EXCEPT !.ended = "eof"] ELSE l
=============================================================================
