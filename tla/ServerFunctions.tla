--------------------------- MODULE ServerFunctions ---------------------------
(***************************************************************************)
(* Calls of the server's pure functions: the keys of a command, the bytes  *)
(* of the dump and what is read out of them, the counter of LFU.  A        *)
(* behaviour is one call: an input, and then what the functions make of    *)
(* it.  The properties say what the inputs mean.                           *)
(***************************************************************************)
EXTENDS CommandForms, RdbFormat, AccessWord

CONSTANTS Lengths, Numbers, Strings, Doubles,   \* inputs of the functions on bytes
          Servers, Loaders,                     \* what is dumped, and by whom it is loaded
          Clocks, Decays                        \* inputs of the LFU functions

ASSUME BytesInputsAssumption ==
  /\ \A n \in Lengths : IsLength64(n)
  /\ Numbers \subseteq Int
  /\ \A c \in Strings : IsText(c.o.str) /\ (c.o.encoding = "int" => c.o.str.int)
  /\ \A d \in Doubles : d.len \in 0 .. Byte - 4

\* A database is a dictionary, whose keys are different.
Elements(seq) == {seq[i] : i \in DOMAIN seq}
IsEntry(e) == /\ e = [key |-> e.key, val |-> e.val, expire |-> e.expire, idle |-> e.idle, freq |-> e.freq]
              /\ e.expire \in Int
IsDatabase(db) == /\ db \in Seq(Elements(db)) /\ \A e \in Elements(db) : IsEntry(e)
                  /\ \A i, j \in DOMAIN db : db[i].key = db[j].key => i = j
ASSUME DumpInputsAssumption ==
  /\ \A s \in Servers :
       /\ s.dbs \in Seq(Elements(s.dbs)) /\ \A db \in Elements(s.dbs) : IsDatabase(db)
       /\ \A db \in Elements(s.dbs) : \A e \in Elements(db) : e.idle \in Nat
       /\ s.libraries \in Seq(Elements(s.libraries))
       /\ \A i, j \in DOMAIN s.libraries : s.libraries[i] = s.libraries[j] => i = j
       /\ s.checksum \in BOOLEAN /\ {s.repl.slaveseldb, s.repl.master, s.repl.cached} \subseteq Int
  /\ \A l \in Loaders :
       /\ l.dbs = [j \in 1 .. DbNum |-> l.dbs[j]] /\ \A j \in 1 .. DbNum : IsDatabase(l.dbs[j])
       /\ l.checksum \in BOOLEAN /\ l.rsi \in BOOLEAN /\ l.master \in BOOLEAN
  /\ NoInfo \notin [db : Int]
ASSUME LfuInputsAssumption == Clocks \subseteq Nat /\ Decays \subseteq Nat

VARIABLES call     \* [fn, in, out], with out << >> until the call returns

Call(fn, inputs) == {[fn |-> fn, in |-> x, out |-> << >>] : x \in inputs}
Returned(fn) == call.fn = fn /\ call.out # << >>
Out == call.out[1]
Return(fn, result) == /\ call.fn = fn /\ call.out = << >>
                      /\ call' = [call EXCEPT !.out = <<result>>]
-----------------------------------------------------------------------------
(* The calls.                                                              *)

CallInit == call \in Call("length", Lengths) \cup Call("number", Numbers)
                 \cup Call("string", Strings) \cup Call("double", Doubles)
                 \cup Call("dump", {[server |-> s, loader |-> l] : s \in Servers, l \in Loaders})
                 \cup Call("keys", Forms) \cup Call("channels", ChannelForms)
                 \cup Call("lfu", [count : 0 .. MaxCount, at : Clocks, now : Clocks, decay : Decays])

ReturnLength == Return("length", SaveLen(call.in))
ReturnNumber == Return("number", EncodeInteger(call.in))
ReturnString == Return("string", SaveString(call.in.o, call.in.compression))
ReturnDouble == Return("double", SaveDouble(call.in))
ReturnKeys == Return("keys", KeysOf(call.in))
ReturnChannels == Return("channels", GetChannels(call.in.name, Argv(call.in)))

\* The dump of a server, loaded by another one.
ReturnDump ==
  call.fn = "dump" /\ LET s == call.in.server
                          stream == SaveRio(s, s.req, PopulateSaveInfo(s.repl))
                      IN Return("dump", [stream |-> stream, loaded |-> LoadRio(stream, call.in.loader)])

\* An object last accessed at one time is looked at, and accessed, at another one.
ReturnLfu ==
  call.fn = "lfu" /\ LET w == Word(LfuTime(call.in.at), call.in.count)
                         now == LfuTime(call.in.now)
                     IN Return("lfu", [elapsed |-> LfuElapsed(now, w.time),
                                       decayed |-> Decayed(w, now, call.in.decay),
                                       accessed |-> Accessed(w, now, call.in.decay)])

CallNext == \/ ReturnLength \/ ReturnNumber \/ ReturnString \/ ReturnDouble
            \/ ReturnDump \/ ReturnKeys \/ ReturnChannels \/ ReturnLfu

CallSpec == CallInit /\ [][CallNext]_call

-----------------------------------------------------------------------------
StrictPrefixes(s) == {SubSeq(s, 1, n) : n \in 0 .. Len(s) - 1}

(***************************************************************************)
(* A length, whatever its size, is read back as it was written, with       *)
(* nothing left over, is no encoding mark, and no part of it is a length   *)
(* (rdb.c:171-255).                                                        *)
(***************************************************************************)
LengthsComeBack ==
  Returned("length") =>
    /\ LoadLen(Out) = [ok |-> TRUE, val |-> call.in, encoded |-> FALSE, rest |-> << >>]
    /\ \A p \in StrictPrefixes(Out) : ~LoadLen(p).ok

(***************************************************************************)
(* An integer that fits one, two or four bytes comes back with its sign    *)
(* and from the fewest bytes; one that does not fit is not encoded         *)
(* (rdb.c:271-332).                                                        *)
(***************************************************************************)
IntegersComeBack ==
  Returned("number") =>
    IF Out = << >> THEN ~Fits(call.in, 4)
    ELSE LET mark == LoadLen(Out)
         IN /\ mark.ok /\ mark.encoded
            /\ LoadInteger(mark.val, mark.rest) = Read(call.in, << >>)
            /\ \A k \in {1, 2} : Fits(call.in, k) => Len(Out) <= k + 1

(***************************************************************************)
(* A string or a double comes back with its text however it was encoded -  *)
(* integer, compressed or as it is - and in the encoding the reader asked  *)
(* for; a stream that ends inside it is an error (rdb.c:346-631).          *)
(***************************************************************************)
StringsComeBack ==
  /\ Returned("string") =>
       LET back == LoadString(Out, call.in.flag)
       IN /\ back.ok /\ back.rest = << >>
          /\ back.val.str = call.in.o.str
          /\ back.val.encoding = "int" => call.in.flag = "enc" /\ call.in.o.str.int
          /\ call.in.flag \in {"plain", "sds"} <=> back.val.encoding = "none"
          /\ \A p \in StrictPrefixes(Out) : ~LoadString(p, call.in.flag).ok
  /\ Returned("double") => /\ LoadDouble(Out) = Read(call.in, << >>)
                           /\ \A p \in StrictPrefixes(Out) : ~LoadDouble(p).ok

(***************************************************************************)
(* What a loaded dump makes of the databases: every key with its value,    *)
(* its own expiry and, to the second, its own usage as far as the policies *)
(* of both servers know it; expired keys are left out by a master, told to *)
(* its replicas when it feeds them, and kept by a replica and from an AOF  *)
(* preamble; keys that were there are replaced only if that is allowed     *)
(* (rdb.c:1123-1427, 3036-3380).                                           *)
(***************************************************************************)
UsageKept(e, from, to) ==
  [idle |-> IF from = "LRU" /\ to # "LFU" THEN e.idle - (e.idle % 1000) ELSE -1,
   freq |-> IF from = "LFU" /\ to = "LFU" THEN e.freq ELSE -1]
KeyNames(entries) == {e.key : e \in entries}

Dumped(s, j) == IF "data" \in s.req \/ j > Len(s.dbs) THEN {} ELSE {e \in Elements(s.dbs[j]) : e.val # EMPTY}
Expires(e, l) == l.master /\ "preamble" \notin l.flags /\ e.expire # -1 /\ e.expire < Now
Kept(s, l, j) ==
  {[key |-> e.key, val |-> e.val, expire |-> e.expire,
    idle |-> UsageKept(e, s.policy, l.policy).idle, freq |-> UsageKept(e, s.policy, l.policy).freq] :
     e \in {d \in Dumped(s, j) : ~Expires(d, l)}}
Expected(s, l, j) == Kept(s, l, j) \cup {e \in Elements(l.dbs[j]) : e.key \notin KeyNames(Kept(s, l, j))}
Clash(s, l) == \E j \in 1 .. DbNum : KeyNames(Kept(s, l, j)) \cap KeyNames(Elements(l.dbs[j])) # {}
TooManyDbs(s) == "data" \notin s.req /\ \E j \in DbNum + 1 .. Len(s.dbs) : s.dbs[j] # << >>

DumpComesBack ==
  Returned("dump") =>
    LET s == call.in.server
        l == call.in.loader
        r == Out.loaded
    IN CASE Clash(s, l) /\ "dup" \notin l.flags -> r.ended = "panic"
         [] TooManyDbs(s) /\ ~(Clash(s, l) /\ "dup" \notin l.flags) -> r.ended = "exit"
         [] OTHER ->
              /\ r.ended = "ok"
              /\ \A j \in 1 .. DbNum : /\ Elements(r.dbs[j]) = Expected(s, l, j)
                                      /\ Len(r.dbs[j]) = Cardinality(Expected(s, l, j))
              /\ r.fed = IF "feed" \notin l.flags THEN {}
                         ELSE UNION {{<<j - 1, e.key>> : e \in {d \in Dumped(s, j) : Expires(d, l)}} :
                                       j \in 1 .. DbNum}
              /\ r.libraries = IF "functions" \in s.req THEN << >> ELSE s.libraries

(***************************************************************************)
(* A dump says where its data stands in the stream of replication exactly  *)
(* when its server was part of a replication chain, and then with the      *)
(* history, the offset and the database that the next command of the       *)
(* stream is for: of a master the one it selected last for its replicas,   *)
(* and the first before it selected any; of a replica the one of the       *)
(* master it is connected to, or was last.  A database that the server     *)
(* selected for replicas of its own before it became a replica says        *)
(* nothing (rdb.c:3697-3735, 1206-1227).                                   *)
(***************************************************************************)
FeedsOthers(repl) == repl.masterhost = "none" /\ repl.backlog
InAChain(repl) == FeedsOthers(repl) \/ repl.master # -1 \/ repl.cached # -1
NextIsFor(db, repl) ==
  /\ FeedsOthers(repl) => db = repl.slaveseldb \/ (repl.slaveseldb = -1 /\ db = 0)
  /\ ~FeedsOthers(repl) /\ repl.master # -1 => db = repl.master
  /\ ~FeedsOthers(repl) /\ repl.master = -1 => db = repl.cached
  /\ db # -1
PositionComesBack ==
  Returned("dump") /\ Out.loaded.ended = "ok" =>
    LET repl == call.in.server.repl IN
    IF InAChain(repl) /\ call.in.loader.rsi
      THEN /\ Out.loaded.replid = call.in.server.replid
           /\ Out.loaded.offset = call.in.server.offset
           /\ NextIsFor(Out.loaded.streamdb, repl)
      ELSE Out.loaded.replid = "none" /\ Out.loaded.offset = -1 /\ Out.loaded.streamdb = -1

(***************************************************************************)
(* A dump that ends too early is never loaded as a whole one, nor, when    *)
(* both servers use checksums, is one with a value changed                 *)
(* (rdb.c:3331-3352, 3372-3379).                                           *)
(***************************************************************************)
Changed(stream, i) == [stream EXCEPT ![i].val = EMPTY]
DamageIsSeen ==
  Returned("dump") =>
    /\ \A p \in StrictPrefixes(Out.stream) : LoadRio(p, call.in.loader).ended # "ok"
    /\ call.in.server.checksum /\ call.in.loader.checksum =>
         \A i \in DOMAIN Out.stream :
           Out.stream[i].op = "value" /\ Out.stream[i].val # EMPTY =>
             LoadRio(Changed(Out.stream, i), call.in.loader).ended # "ok"

(***************************************************************************)
(* The keys found in a command are those its client means, with the way    *)
(* they are used where the command's function says it, although keys,      *)
(* values and arguments of options may have the names of options           *)
(* (db.c:1885-2577).  The exception is SORT ... STORE with a destination   *)
(* called store, limit, get or by: it is read as an option of its own, and *)
(* what follows may be taken for the key instead, or be skipped            *)
(* (db.c:2353-2368).                                                       *)
(***************************************************************************)
SaysHowUsed == {"sort", "migrate", "set", "bitfield"}
KeysAreMeant ==
  /\ Returned("keys") /\ call.in \notin MalformedForms \cup MisreadForms =>
       /\ Positions(Out.own) = Meant(call.in)
       /\ Len(Out.own) = Cardinality(Meant(call.in))
       /\ call.in.name \in SaysHowUsed =>
            \A i \in DOMAIN Out.own : Out.own[i].flags = call.in.args[Out.own[i].pos].flags
       /\ HasKeys(Command(call.in.name))
  /\ Returned("channels") => Positions(Out) = Meant(call.in)

(***************************************************************************)
(* The specs of the command table and the function of a command find the   *)
(* same keys, in malformed commands too, and the same use of them where    *)
(* the function says one; in well-formed commands a partial search by the  *)
(* specs finds only keys (db.c:1990-2033, 2179-2205).  The exception is    *)
(* MIGRATE with the word keys anywhere but at its end: its specs alone     *)
(* name an empty argument, a password or a number as keys.                 *)
(***************************************************************************)
SpecsAgree ==
  Returned("keys") => /\ IF call.in.name \in SaysHowUsed THEN Elements(Out.specs) = Elements(Out.own)
                         ELSE Positions(Out.specs) = Positions(Out.own)
                      /\ call.in \notin MalformedForms /\ ~SearchMisleads(call.in) =>
                             Positions(Out.partial) \subseteq Positions(Out.own)

(***************************************************************************)
(* LFU: the minutes an object was not accessed are never overestimated,    *)
(* and underestimated by one after a wrap; so a counter never decays       *)
(* faster than one for every decay time, and an access that follows at     *)
(* once adds at most one (evict.c:516-552).  That is one for every period  *)
(* at any height of the counter: the comments that a counter above twice   *)
(* LFU_INIT_VAL is halved (evict.c:490-492, 501-503, 538-539) are not what *)
(* LFUDecrAndReturn() does.                                                *)
(***************************************************************************)
DecayIsFair ==
  Returned("lfu") /\ call.in.at <= call.in.now /\ call.in.now - call.in.at < Minutes =>
    LET true == call.in.now - call.in.at
        fair == IF call.in.decay = 0 THEN 0 ELSE true \div call.in.decay
    IN /\ Out.elapsed \in {true, true - 1}
       /\ Out.decayed \in Max({0, call.in.count - fair}) .. call.in.count
       /\ \A w \in Out.accessed : /\ w.count \in Out.decayed .. Out.decayed + 1
                                  /\ w.count <= MaxCount
                                  /\ w.time = LfuTime(call.in.now)

(***************************************************************************)
(* Whatever the dump encodes comes back from its bytes: lengths, integers, *)
(* strings and doubles (rdb.c:171-631).                                    *)
(***************************************************************************)
EncodingsComeBack == LengthsComeBack /\ IntegersComeBack /\ StringsComeBack

(***************************************************************************)
(* A dump is loaded as what it was saved as - the keys with their          *)
(* attributes and the position in the stream of replication - or seen to   *)
(* be damaged (rdb.c:1123-1427, 3036-3380).                                *)
(***************************************************************************)
DumpIsLoaded == DumpComesBack /\ PositionComesBack /\ DamageIsSeen

(***************************************************************************)
(* The keys found in a command are those its client means, and the ways to *)
(* find them agree, but for the misread forms of SORT and MIGRATE          *)
(* (db.c:1885-2577).                                                       *)
(***************************************************************************)
KeysAreFound == KeysAreMeant /\ SpecsAgree
=============================================================================
