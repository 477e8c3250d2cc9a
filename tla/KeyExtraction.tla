---------------------------- MODULE KeyExtraction ----------------------------
(***************************************************************************)
(* Which arguments of a command are keys, and how the command uses them    *)
(* (db.c:1845-2577): the general reading of the key specs of the command   *)
(* table, the older reading of one range, and the functions of the         *)
(* commands that need one of their own.                                    *)
(*                                                                         *)
(* argv is the sequence of the arguments after the command's name, so that *)
(* argv[i] is the argv[i] of the code and argc is Len(argv) + 1.  A result  *)
(* is a sequence of [pos, flags].                                          *)
(***************************************************************************)
EXTENDS Integers, Sequences, SequencesExt, FiniteSetsExt

Argc(argv) == Len(argv) + 1
Key(pos, flags) == [pos |-> pos, flags |-> flags]
Invalid == <<Key(0, {})>>          \* no result
Positions(keys) == {keys[i].pos : i \in DOMAIN keys}

\* From a to b in steps of n.
Stepped(a, b, n) == IF b < a THEN << >> ELSE [i \in 1 .. (b - a) \div n + 1 |-> a + (i - 1) * n]

\* An argument that is a number; every other one has no value.
Numerals == [a \in {"-1", "0", "1", "2", "3"} |->
               CASE a = "-1" -> -1 [] a = "0" -> 0 [] a = "1" -> 1 [] a = "2" -> 2 [] OTHER -> 3]
Atoi(arg) == IF arg \in DOMAIN Numerals THEN Numerals[arg] ELSE 0

-----------------------------------------------------------------------------
(* Key specs: [flags, bs, fk], where bs begins the search at an index      *)
(* [pos] or after a keyword [keyword, startfrom], and fk finds the keys in *)
(* a range [lastkey, step, limit] or by their number                       *)
(* [keynumidx, firstkey, step].  A part may be unknown.                    *)

Unknown == [unknown |-> TRUE]

\* Where a keyword may stand: never last, and from the end when startfrom is negative.
Searched(bs, argv) ==
  IF bs.startfrom > 0 THEN bs.startfrom .. Argc(argv) - 2
  ELSE IF bs.startfrom = 0 THEN {}
  ELSE 2 .. Argc(argv) + bs.startfrom

\* The first key of a spec; 0 when its keyword is not there.
FirstOf(bs, argv) ==
  IF "pos" \in DOMAIN bs THEN bs.pos
  ELSE LET found == {i \in Searched(bs, argv) : argv[i] = bs.keyword}
       IN IF found = {} THEN 0
          ELSE IF bs.startfrom > 0 THEN Min(found) + 1 ELSE Max(found) + 1

NoRange == [first |-> 1, last |-> 0]

\* The bounds [first, last] of the range of a spec, if it can be read.
RangeOf(fk, first, argv) ==
  IF "lastkey" \in DOMAIN fk
    THEN [first |-> first,
          last |-> IF fk.lastkey >= 0 THEN first + fk.lastkey
                   ELSE IF fk.limit = 0 THEN Argc(argv) + fk.lastkey
                   ELSE first + (Argc(argv) - first) \div fk.limit + fk.lastkey]
  ELSE IF fk.keynumidx >= Argc(argv) THEN NoRange
  ELSE LET arg == argv[first + fk.keynumidx]
       IN IF arg \notin DOMAIN Numerals \/ Atoi(arg) < 0 THEN NoRange
          ELSE [first |-> first + fk.firstkey, last |-> first + fk.firstkey + Atoi(arg) - 1]

\* What one spec says of a command.
KeysOfSpec(spec, argv) ==
  LET first == FirstOf(spec.bs, argv)
      range == RangeOf(spec.fk, first, argv)
      step  == spec.fk.step
  IN IF spec.bs = Unknown THEN Invalid
     ELSE IF first = 0 THEN << >>
     ELSE IF \/ range.last >= Argc(argv) \/ range.last < range.first
             \/ range.first >= Argc(argv) THEN Invalid
     ELSE LET at == Stepped(range.first, range.last, step)
          IN [i \in DOMAIN at |-> Key(at[i], spec.flags)]

Incomplete(spec) == "INCOMPLETE" \in spec.flags
NotKey(spec) == "NOT_KEY" \in spec.flags

\* getKeysUsingKeySpecs(): an invalid or incomplete spec fails it all, unless
\* partial results were asked for (an incomplete spec still gives what it found).
UsingKeySpecs(cmd, argv, search) ==
  LET add(acc, spec) ==
        LET found == KeysOfSpec(spec, argv) IN
        IF acc = Invalid \/ (NotKey(spec) /\ "not_keys" \notin search) THEN acc
        ELSE IF found = Invalid \/ (Incomplete(spec) /\ found # << >>)
          THEN IF "partial" \notin search THEN Invalid
               ELSE IF found = Invalid THEN acc ELSE acc \o found
        ELSE acc \o found
  IN FoldLeft(add, << >>, cmd.specs)

\* getKeysUsingLegacyRangeSpec(): the range of one spec, without flags.
UsingLegacyRange(cmd, argv) ==
  IF cmd.legacy = << >> THEN << >>
  ELSE LET first == cmd.legacy[1].bs.pos
           end   == cmd.legacy[1].fk.lastkey
           last  == IF end >= 0 THEN first + end ELSE Argc(argv) + end
           at    == Stepped(first, last, cmd.legacy[1].fk.step)
       IN IF \E i \in DOMAIN at : at[i] >= Argc(argv) THEN << >>
          ELSE [i \in DOMAIN at |-> Key(at[i], {})]

-----------------------------------------------------------------------------
(* The functions of single commands.  A scan over options that skips their *)
(* arguments is a recursive function of the position.                      *)

\* genericGetKeys(): [destkey] numkeys key ... options
GenericKeys(storeKeyOfs, keyCountOfs, firstKeyOfs, argv) ==
  LET num == Atoi(argv[keyCountOfs])
  IN IF num < 1 \/ num > Argc(argv) - firstKeyOfs THEN << >>
     ELSE [i \in 1 .. num |-> Key(firstKeyOfs + i - 1, {})]
          \o (IF storeKeyOfs = 0 THEN << >> ELSE <<Key(storeKeyOfs, {})>>)

\* Mutant of SortStore: the arguments of an option are read as options.
SortStoreNoSkip(argv) ==
  LET n == Len(argv)
      after[i \in 2 .. n + 3] ==
        IF i > n THEN 0
        ELSE IF argv[i] = "store" /\ i < n
          THEN IF after[i + 1] # 0 THEN after[i + 1] ELSE i + 1
        ELSE after[i + 1]
  IN after[2]

\* The last STORE of a SORT; the key it names is looked at as an option again.
SortStore(argv) ==
  LET n == Len(argv)
      after[i \in 2 .. n + 3] ==
        IF i > n THEN 0
        ELSE IF argv[i] = "limit" THEN after[i + 3]
        ELSE IF argv[i] \in {"get", "by"} THEN after[i + 2]
        ELSE IF argv[i] = "store" /\ i < n
          THEN IF after[i + 1] # 0 THEN after[i + 1] ELSE i + 1
        ELSE after[i + 1]
  IN after[2]

\* sortROGetKeys(), sortGetKeys()
SortROKeys(argv) == <<Key(1, {"RO", "ACCESS"})>>
SortKeys(argv) ==
  SortROKeys(argv) \o (IF SortStore(argv) = 0 THEN << >>
                       ELSE <<Key(SortStore(argv), {"OW", "UPDATE"})>>)

\* migrateGetKeys()
MigrateKeys(argv) ==
  LET n == Len(argv)
      keysAt[i \in 6 .. n + 3] ==
        IF i > n THEN 0
        ELSE IF argv[i] = "keys" THEN i
        ELSE IF argv[i] = "auth" THEN keysAt[i + 2]
        ELSE IF argv[i] = "auth2" THEN keysAt[i + 3]
        ELSE keysAt[i + 1]
      at == IF n < 6 THEN 0 ELSE keysAt[6]
      found == IF at = 0 THEN <<3>> ELSE IF argv[3] # "" THEN << >> ELSE Stepped(at + 1, n, 1)
  IN [i \in DOMAIN found |-> Key(found[i], {"RW", "ACCESS", "DELETE"})]

\* georadiusGetKeys()
GeoradiusKeys(argv) ==
  LET n == Len(argv)
      stored[i \in 5 .. n + 2] ==
        IF i >= n THEN 0
        ELSE IF argv[i] \in {"store", "storedist"}
          THEN IF stored[i + 2] # 0 THEN stored[i + 2] ELSE i + 1
        ELSE stored[i + 1]
  IN <<Key(1, {})>> \o (IF n < 5 \/ stored[5] = 0 THEN << >> ELSE <<Key(stored[5], {})>>)

\* xreadGetKeys()
XreadKeys(argv) ==
  LET n == Len(argv)
      streams[i \in 1 .. n + 3] ==
        IF i > n THEN 0
        ELSE IF argv[i] \in {"block", "count"} THEN streams[i + 2]
        ELSE IF argv[i] = "group" THEN streams[i + 3]
        ELSE IF argv[i] = "noack" THEN streams[i + 1]
        ELSE IF argv[i] = "streams" THEN i ELSE 0
      at  == streams[1]
      num == n - at
  IN IF at = 0 \/ num = 0 \/ num % 2 # 0 THEN << >>
     ELSE [i \in 1 .. num \div 2 |-> Key(at + i, {})]

\* setGetKeys()
SetKeys(argv) ==
  <<Key(1, IF \E i \in 3 .. Len(argv) : argv[i] = "get"
           THEN {"RW", "ACCESS", "UPDATE"} ELSE {"OW", "UPDATE"})>>

\* bitfieldGetKeys()
BitfieldKeys(argv) ==
  LET n == Len(argv)
      readonly[i \in 2 .. n + 3] ==
        IF i > n THEN TRUE
        ELSE IF argv[i] = "get" /\ i + 2 <= n THEN readonly[i + 3]
        ELSE IF argv[i] = "overflow" /\ i + 1 <= n THEN readonly[i + 2]
        ELSE FALSE
  IN <<Key(1, IF readonly[2] THEN {"RO", "ACCESS"} ELSE {"RW", "ACCESS", "UPDATE"})>>

-----------------------------------------------------------------------------
(* A command of the table: [name, specs, legacy].                          *)

HasOwnKeys == {"zunionstore", "zunion", "eval", "blmpop", "sort", "sort_ro", "migrate",
               "georadius", "xread", "set", "bitfield"}

\* cmd->getkeys_proc
OwnKeys(name, argv) ==
  CASE name = "zunionstore" -> GenericKeys(1, 2, 3, argv)
    [] name = "zunion" -> GenericKeys(0, 1, 2, argv)
    [] name \in {"eval", "blmpop"} -> GenericKeys(0, 2, 3, argv)
    [] name = "sort" -> SortKeys(argv)
    [] name = "sort_ro" -> SortROKeys(argv)
    [] name = "migrate" -> MigrateKeys(argv)
    [] name = "georadius" -> GeoradiusKeys(argv)
    [] name = "xread" -> XreadKeys(argv)
    [] name = "set" -> SetKeys(argv)
    [] name = "bitfield" -> BitfieldKeys(argv)
    [] OTHER -> << >>

\* Mutant of GetKeysWithSpecs: specs with variable flags are trusted.
GetKeysWithSpecsOnly(cmd, argv, search) ==
  LET bySpecs == UsingKeySpecs(cmd, argv, search)
  IN IF (\E i \in DOMAIN cmd.specs : ~NotKey(cmd.specs[i])) /\ bySpecs # Invalid
       THEN bySpecs ELSE OwnKeys(cmd.name, argv)

\* getKeysFromCommandWithSpecs(), for commands of the server itself: the specs,
\* unless their flags depend on the arguments or they cannot be read.
GetKeysWithSpecs(cmd, argv, search) ==
  LET bySpecs == UsingKeySpecs(cmd, argv, search)
      specs   == {cmd.specs[i] : i \in DOMAIN cmd.specs}
  IN IF /\ \E spec \in specs : ~NotKey(spec)
        /\ \A spec \in specs : "VARIABLE_FLAGS" \notin spec.flags
        /\ bySpecs # Invalid
       THEN bySpecs
       ELSE OwnKeys(cmd.name, argv)

\* getKeysFromCommand()
GetKeys(cmd, argv) ==
  IF cmd.name \in HasOwnKeys THEN OwnKeys(cmd.name, argv) ELSE UsingLegacyRange(cmd, argv)

\* doesCommandHaveKeys()
HasKeys(cmd) ==
  cmd.name \in HasOwnKeys \/ \E i \in DOMAIN cmd.specs : ~NotKey(cmd.specs[i])

\* commands_with_channels and getChannelsFromCommand(), for a command of the table
ChannelFlags ==
  [name \in {"subscribe", "unsubscribe", "psubscribe", "punsubscribe", "publish"} |->
     CASE name = "subscribe" -> {"SUBSCRIBE"} [] name = "unsubscribe" -> {"UNSUBSCRIBE"}
       [] name = "psubscribe" -> {"PATTERN", "SUBSCRIBE"}
       [] name = "punsubscribe" -> {"PATTERN", "UNSUBSCRIBE"} [] OTHER -> {"PUBLISH"}]
GetChannels(name, argv) ==
  [i \in 1 .. (IF name = "publish" /\ Len(argv) > 1 THEN 1 ELSE Len(argv)) |->
     Key(i, ChannelFlags[name])]
=============================================================================
