---------------------------- MODULE CommandForms ----------------------------
(***************************************************************************)
(* Commands as clients write them, with the arguments that are keys, and   *)
(* the entries of the command table, which the extraction of keys reads.   *)
(***************************************************************************)
EXTENDS KeyExtraction

-----------------------------------------------------------------------------
(* Commands as their clients mean them: a sequence of arguments, of which  *)
(* some are keys that the command will use as their flags say.  Keys,      *)
(* values and the arguments of options may have the names of options, and   *)
(* two commands do not stand that everywhere: MisreadForms and             *)
(* SearchMisleads are the exceptions of the properties.                    *)

Arg(arg) == [arg |-> arg, key |-> FALSE, flags |-> {}]
KeyArg(arg, flags) == [arg |-> arg, key |-> TRUE, flags |-> flags]
Args(args) == [i \in DOMAIN args |-> Arg(args[i])]
UpTo(n, options) == {FlattenSeq(o) : o \in UNION {[1 .. m -> options] : m \in 0 .. n}}
KeyArgs(n, names, flags) == {[i \in 1 .. n |-> KeyArg(k[i], flags)] : k \in [1 .. n -> names]}

Form(name, args) == [name |-> name, args |-> args]
Argv(form) == [i \in DOMAIN form.args |-> form.args[i].arg]
Meant(form) == {i \in DOMAIN form.args : form.args[i].key}

SortOptions == {Args(<<"desc">>), Args(<<"limit", "0", "1">>), Args(<<"by", "store">>),
                Args(<<"get", "store">>)}
Sorts(stores, after) ==
  {Form("sort", <<KeyArg(k, {"RO", "ACCESS"})>> \o a \o s \o b) :
     k \in {"k1", "store"}, a \in UpTo(2, SortOptions), s \in stores, b \in after}
Store(k) == <<Arg("store"), KeyArg(k, {"OW", "UPDATE"})>>
\* Of several destinations SORT uses the last one.
StoreTwice(k) == <<Arg("store"), Arg(k)>> \o Store("k1")
WithArguments == {"limit", "get", "by"}

SortForms ==
  Sorts({<< >>, StoreTwice("k2"), StoreTwice("store")} \cup {Store(k) : k \in {"k1"} \cup WithArguments},
        UpTo(1, SortOptions))
  \cup Sorts({Store("store")}, {<< >>})

\* sortGetKeys() does not skip the destination: it is read once more as an option,
\* and hides or is replaced by what follows.
MisreadForms == Sorts({Store("store")}, SortOptions)
                \cup Sorts({StoreTwice(k) : k \in WithArguments}, UpTo(1, SortOptions))

MigrateForms ==
  LET all == {"RW", "ACCESS", "DELETE"}
      options == UpTo(2, {Args(<<"copy">>), Args(<<"auth", "keys">>), Args(<<"auth2", "keys", "keys">>)})
      to == Args(<<"host", "port">>)
      times == Args(<<"0", "1">>)
  IN {Form("migrate", to \o <<KeyArg(k, all)>> \o times \o o) : k \in {"k1", "keys"}, o \in options}
     \cup {Form("migrate", to \o <<Arg("")>> \o times \o o \o <<Arg("keys")>> \o ks) :
            o \in options, ks \in KeyArgs(1, {"k1", "keys"}, all) \cup KeyArgs(2, {"k1", "keys"}, all)}

\* The specs of MIGRATE take the third argument for a key, if empty too, and what
\* follows the last "keys" before the end, be it a password or a key.
SearchMisleads(form) ==
  form.name = "migrate" /\ \E i \in 1 .. Len(form.args) - 1 : form.args[i].arg = "keys"

GeoradiusForms ==
  {Form("georadius", <<KeyArg(k, {})>> \o Args(<<"x", "y", "1", "m">>) \o o \o s) :
     k \in {"k1", "store"}, o \in UpTo(2, {Args(<<"count", "1">>), Args(<<"asc">>)}),
     s \in {<< >>, <<Arg("store"), KeyArg("k1", {})>>, <<Arg("storedist"), KeyArg("store", {})>>}}

XreadForms ==
  {Form("xread", o \o <<Arg("streams")>> \o ks \o [i \in DOMAIN ks |-> Arg("0")]) :
     o \in UpTo(2, {Args(<<"block", "1">>), Args(<<"count", "1">>), Args(<<"noack">>)}),
     ks \in KeyArgs(1, {"k1", "streams"}, {}) \cup KeyArgs(2, {"k1", "streams"}, {})}

SetForms ==
  {Form("set", <<KeyArg(k, IF get = << >> THEN {"OW", "UPDATE"} ELSE {"RW", "ACCESS", "UPDATE"}),
                 Arg(v)>> \o a \o get \o b) :
     k \in {"k1", "get"}, v \in {"v", "get"}, get \in {<< >>, Args(<<"get">>)},
     a \in UpTo(1, {Args(<<"nx">>), Args(<<"ex", "1">>)}), b \in UpTo(1, {Args(<<"nx">>), Args(<<"ex", "1">>)})}

BitfieldForms ==
  LET reads == {Args(<<"get", "u8", "0">>), Args(<<"overflow", "wrap">>)}
      writes == {Args(<<"set", "u8", "0", "1">>), Args(<<"incrby", "u8", "0", "1">>)}
  IN {Form("bitfield", <<KeyArg(k, {"RO", "ACCESS"})>> \o o) : k \in {"k1", "set"}, o \in UpTo(2, reads)}
     \cup {Form("bitfield", <<KeyArg(k, {"RW", "ACCESS", "UPDATE"})>> \o a \o w \o b) :
            k \in {"k1", "get"}, a \in UpTo(1, reads), w \in writes, b \in UpTo(1, reads \cup writes)}

NumkeysForms ==
  LET keys == UNION {KeyArgs(n, {"k1", "2"}, {}) : n \in 1 .. 3}
      number(ks) == Arg(CASE Len(ks) = 1 -> "1" [] Len(ks) = 2 -> "2" [] OTHER -> "3")
      after == {<< >>, Args(<<"1">>), Args(<<"weights", "1">>)}
  IN {Form("zunionstore", <<KeyArg("k2", {}), number(ks)>> \o ks \o o) : ks \in keys, o \in after}
     \cup {Form("zunion", <<number(ks)>> \o ks \o o) : ks \in keys, o \in after}
     \cup {Form(name, <<Arg("1"), number(ks)>> \o ks \o o) :
            name \in {"eval", "blmpop"}, ks \in keys, o \in after}

\* Commands whose keys are a plain range, and malformed calls of the others.
PlainForms ==
  {Form("get", <<KeyArg("k1", {})>>)}
  \cup {Form("mget", ks) : ks \in KeyArgs(1, {"k1"}, {}) \cup KeyArgs(3, {"k1"}, {})}
  \cup {Form("mset", FlattenSeq([i \in DOMAIN ks |-> <<ks[i], Arg("k1")>>])) :
         ks \in KeyArgs(1, {"k1"}, {}) \cup KeyArgs(2, {"k1"}, {})}
MalformedForms ==
  {Form(name, Args(<<"k1", n>> \o more)) :
     name \in {"zunionstore", "eval", "blmpop"}, n \in {"-1", "0", "3", "x"},
     more \in {<<"k1">>, <<"k1", "2">>}}

\* Channels are marked as keys are.
ChannelForms ==
  {Form(name, ks) : name \in {"subscribe", "psubscribe"},
                    ks \in KeyArgs(1, {"k1"}, {}) \cup KeyArgs(3, {"k1"}, {})}
  \cup {Form("publish", <<KeyArg("k1", {}), Arg("k1")>>)}

Forms == SortForms \cup MisreadForms \cup MigrateForms \cup GeoradiusForms \cup XreadForms \cup SetForms
         \cup BitfieldForms \cup NumkeysForms \cup PlainForms \cup MalformedForms

-----------------------------------------------------------------------------
(* The entries of the command table.                                       *)

Ranged(pos, last, step) == [flags |-> {}, bs |-> [pos |-> pos],
                           fk |-> [lastkey |-> last, step |-> step, limit |-> 0]]
Counted(pos) == [flags |-> {}, bs |-> [pos |-> pos], fk |-> [keynumidx |-> 0, firstkey |-> 1, step |-> 1]]
After(keyword, from, fk) == [flags |-> {}, bs |-> [keyword |-> keyword, startfrom |-> from], fk |-> fk]
Flagged(spec, flags) == [spec EXCEPT !.flags = flags]
One == [lastkey |-> 0, step |-> 1, limit |-> 0]
Nothing == [flags |-> {"INCOMPLETE"}, bs |-> Unknown, fk |-> Unknown]

Specs(name) ==
  CASE name = "get" -> <<Ranged(1, 0, 1)>>
    [] name = "mget" -> <<Ranged(1, -1, 1)>>
    [] name = "mset" -> <<Ranged(1, -1, 2)>>
    [] name = "set" -> <<Flagged(Ranged(1, 0, 1), {"RW", "ACCESS", "UPDATE", "VARIABLE_FLAGS"})>>
    [] name = "bitfield" -> <<Flagged(Ranged(1, 0, 1), {"RW", "ACCESS", "UPDATE", "VARIABLE_FLAGS"})>>
    [] name = "zunion" -> <<Counted(1)>>
    [] name = "zunionstore" -> <<Ranged(1, 0, 1), Counted(2)>>
    [] name \in {"eval", "blmpop"} -> <<Counted(2)>>
    [] name = "sort" -> <<Flagged(Ranged(1, 0, 1), {"RO", "ACCESS"}), Nothing>>
    [] name = "migrate" ->
         <<Flagged(Ranged(3, 0, 1), {"RW", "ACCESS", "DELETE"}),
           Flagged(After("keys", -2, [lastkey |-> -1, step |-> 1, limit |-> 0]),
                   {"RW", "ACCESS", "DELETE", "INCOMPLETE"})>>
    [] name = "georadius" -> <<Ranged(1, 0, 1), After("store", 6, One), After("storedist", 6, One)>>
    [] name = "xread" -> <<After("streams", 1, [lastkey |-> -1, step |-> 1, limit |-> 2])>>

Command(name) == [name |-> name, specs |-> Specs(name), legacy |-> <<Specs(name)[1]>>]

KeysOf(form) ==
  LET cmd == Command(form.name) IN [specs |-> GetKeysWithSpecs(cmd, Argv(form), {}), own |-> GetKeys(cmd, Argv(form)),
      partial |-> UsingKeySpecs(cmd, Argv(form), {"partial"})]
=============================================================================
