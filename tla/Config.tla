------------------------------- MODULE Config -------------------------------
(***************************************************************************)
(* The parameters of the server: CONFIG SET with its rollback, CONFIG      *)
(* REWRITE with the file it replaces, and the start that reads the file    *)
(* (config.c).  One parameter stands for each way to be set, restored,     *)
(* applied and rewritten:                                                  *)
(*   port         a number with an apply function that can fail            *)
(*   bind         the addresses, applied together with the port            *)
(*   maxclients   a number that a failing apply function lowers            *)
(*   priority     replica-priority, a number with an alias and no apply    *)
(*   user         masteruser, a string that is NULL when it is empty       *)
(*   save         one line of the file for each save point                 *)
(*   percentiles  latency-tracking-info-percentiles, which loses its value *)
(*                when a new one is refused, and digits when it is printed *)
(*   daemonize    a parameter that CONFIG SET refuses                      *)
(*                                                                         *)
(* A value, or the text of one, is the sequence of its words; a word is a  *)
(* number, negative if no setter takes it.  A failure is written as the    *)
(* environment's choice at the call that can fail.                         *)
(***************************************************************************)
EXTENDS Integers, Sequences, SequencesExt, FiniteSets

CONSTANTS Default,     \* of each parameter
          Requests,    \* what CONFIG SET is called with: sequences of [name, text]
          Files,       \* the files an operator writes
          Included,    \* the lines of the file that an INCLUDE names
          Remarks,     \* what comments and the lines that are not known say
          Orders,      \* orders of the dictionary of parameters
          MaxAddresses, \* CONFIG_BINDADDR_MAX
          LowClients,  \* what the system allows when it allows less clients than asked for
          MaxSets, MaxRewrites, MaxEdits, MaxCrashes   \* bounds

Options == {"port", "bind", "maxclients", "priority", "user", "save", "percentiles", "daemonize"}
Numeric == {"port", "maxclients", "priority", "daemonize"}
Names == Options \cup {"slave-priority"}
OptionOf(name) == IF name = "slave-priority" THEN "priority" ELSE name

ASSUME ConfigAssumption ==
  /\ \A request \in Requests : request \in Seq([name : STRING, text : Seq(Int)])
  /\ LowClients \in Nat /\ MaxAddresses \in Nat
  /\ \A order \in Orders :
       order \in Seq(Options) /\ ToSet(order) = Options /\ IsInjective(order)
  /\ {MaxSets, MaxRewrites, MaxEdits, MaxCrashes} \subseteq Nat

VARIABLES
  values,    \* the fields of server
  listener,  \* port and addresses that are listened to, or Closed
  capacity,  \* clients the event loop has room for
  set,       \* CONFIG SET in progress
  broken,    \* apply functions that failed for the restored values
  file,      \* the configuration file, as programs see it
  disk,      \* the same after a crash of the machine, while the directory is not synced
  rewrite,   \* CONFIG REWRITE in progress
  saved,     \* the values of the last rewrite that succeeded, since the file was edited
  up, sets, rewrites, edits, crashes

configVars == <<values, listener, capacity, set, broken>>
fileVars == <<file, disk, rewrite, saved>>
bounds == <<sets, rewrites, edits, crashes>>
vars == <<configVars, fileVars, up, bounds>>

Closed == << >>
Nothing == << >>
-----------------------------------------------------------------------------
(* Setting a parameter.  The result is 0 for a refusal, 1 for a change and *)
(* 2 for the value there was.                                              *)

IsNumber(text) == Len(text) = 1 /\ text[1] >= 0
Legal(text) == \A i \in DOMAIN text : text[i] >= 0

\* What a parameter may have, and the values the server can have.
Fits(o, text) == /\ o \in Numeric => IsNumber(text)
                 /\ o \in {"save", "percentiles"} => Legal(text)
                 /\ o = "bind" => Len(text) <= MaxAddresses
Values == {v \in [Options -> Seq(Int)] : \A o \in Options : Fits(o, v[o])}

\* What getters and rewriters print: percentiles with their last digit lost.
Shown(o, v) == IF o = "percentiles" THEN [i \in DOMAIN v |-> v[i] - (v[i] % 10)] ELSE v

Result(res, v) == [res |-> res, values |-> v]
Changed(o, text, v) == Result(IF v[o] = text THEN 2 ELSE 1, [v EXCEPT ![o] = text])

\* Mutant of Set: numbers are not checked.
SetUnchecked(o, text, v) ==
  IF o \in {"save", "percentiles"} /\ ~Legal(text) THEN Result(0, [v EXCEPT !.percentiles = << >>])
  ELSE Changed(o, text, v)

\* config->interface.set(), by the kind of parameter: a number within its range, a string,
\* addresses if there is room for them, save points, and percentiles, whose old value is
\* gone when one is refused.
SetNumber(o, text, v) == IF IsNumber(text) THEN Changed(o, text, v) ELSE Result(0, v)
SetString(o, text, v) == Changed(o, text, v)
SetBind(o, text, v) ==
  IF Len(text) <= MaxAddresses THEN Result(1, [v EXCEPT ![o] = text]) ELSE Result(0, v)
SetSave(o, text, v) == IF Legal(text) THEN Result(1, [v EXCEPT ![o] = text]) ELSE Result(0, v)
SetPercentiles(o, text, v) ==
  IF Legal(text) THEN Result(1, [v EXCEPT ![o] = text]) ELSE Result(0, [v EXCEPT ![o] = << >>])

Set(o, text, v) ==
  CASE o \in Numeric -> SetNumber(o, text, v)
    [] o = "user" -> SetString(o, text, v)
    [] o = "bind" -> SetBind(o, text, v)
    [] o = "save" -> SetSave(o, text, v)
    [] o = "percentiles" -> SetPercentiles(o, text, v)

\* config->interface.apply
ApplyFn(o) == CASE o = "port" -> <<"updatePort">> [] o = "bind" -> <<"applyBind">>
                [] o = "maxclients" -> <<"updateMaxclients">> [] OTHER -> Nothing

-----------------------------------------------------------------------------
(* CONFIG SET.                                                             *)

\* A request that changes nothing: an unknown or immutable parameter, or one twice.
Refused(request) ==
  \E i \in DOMAIN request :
    \/ request[i].name \notin Names
    \/ request[i].name = "daemonize"
    \/ \E j \in 1 .. i - 1 : request[j].name = request[i].name

Idle == up /\ set.pc = "idle" /\ rewrite.pc = "idle"
NoSet == [pc |-> "idle", reply |-> "none", request |-> << >>, old |-> << >>,
          before |-> << >>, fns |-> << >>, i |-> 1]
Answered(reply) == [set EXCEPT !.pc = "idle", !.reply = reply, !.fns = << >>, !.i = 1, !.old = << >>]

\* configSetCommand(), up to the backup of the old values as text.
ConfigSet(request) ==
  /\ Idle /\ sets < MaxSets
  /\ sets' = sets + 1
  /\ IF Refused(request)
       THEN set' = [NoSet EXCEPT !.reply = "refused"]
       ELSE set' = [pc |-> "set", reply |-> "none", request |-> request, before |-> values,
                    fns |-> << >>, i |-> 1,
                    old |-> [i \in DOMAIN request |->
                               Shown(OptionOf(request[i].name), values[OptionOf(request[i].name)])]]
  /\ UNCHANGED <<values, listener, capacity, broken, fileVars, up, rewrites, edits, crashes>>

\* Mutant of Restored: the parameter that was refused is left as it is.
RestoredBelow(v, count) ==
  FoldLeft(LAMBDA w, i : Set(OptionOf(set.request[i].name), set.old[i], w).values,
           v, [i \in 1 .. count - 1 |-> i])

\* restoreBackupConfig(): the first count parameters, in their order.
Restored(v, count) ==
  FoldLeft(LAMBDA w, i : Set(OptionOf(set.request[i].name), set.old[i], w).values,
           v, [i \in 1 .. count |-> i])

\* One turn of the loop that sets; its apply function is remembered once.
SetOne ==
  /\ up /\ set.pc = "set" /\ set.i <= Len(set.request)
  /\ LET o == OptionOf(set.request[set.i].name)
         r == Set(o, set.request[set.i].text, values)
         fn == ApplyFn(o)
     IN IF r.res = 0
          THEN values' = Restored(r.values, set.i) /\ set' = Answered("error")
          ELSE /\ values' = r.values
               /\ set' = [set EXCEPT !.i = @ + 1,
                            !.fns = IF r.res = 2 \/ fn = Nothing \/ \E k \in DOMAIN @ : @[k] = fn[1]
                                    THEN @ ELSE @ \o fn]
  /\ UNCHANGED <<listener, capacity, broken, fileVars, up, bounds>>

AllSet ==
  /\ up /\ set.pc = "set" /\ set.i > Len(set.request)
  /\ set' = [set EXCEPT !.pc = "apply", !.i = 1]
  /\ UNCHANGED <<values, listener, capacity, broken, fileVars, up, bounds>>

\* updatePort() and applyBind(): the listener is closed before it is opened again.
Listen(ok) == /\ listener' = IF ok THEN <<values.port, values.bind>> ELSE Closed
              /\ UNCHANGED <<values, capacity>>

\* updateMaxclients(): more clients than the system allows are lowered to what it does, or the
\* event loop finds no room.
Resize(ok) ==
  /\ \/ values' = values
     \/ /\ ~ok /\ LowClients < values.maxclients[1]
        /\ values' = [values EXCEPT !.maxclients = <<LowClients>>]
  /\ capacity' = IF ok /\ capacity < values.maxclients[1] THEN values.maxclients[1] ELSE capacity
  /\ UNCHANGED listener

\* With the restored values a failure is only logged.
Apply(fn, ok, logged) ==
  /\ IF fn = "updateMaxclients" THEN Resize(ok) ELSE Listen(ok)
  /\ broken' = IF ~ok THEN broken \cup (IF logged THEN {fn} ELSE {})
               ELSE broken \ (IF fn = "updateMaxclients" THEN {fn} ELSE {"updatePort", "applyBind"})

ApplyOne(ok) ==
  /\ up /\ set.pc = "apply" /\ set.i <= Len(set.fns)
  /\ Apply(set.fns[set.i], ok, FALSE)
  /\ set' = IF ok THEN [set EXCEPT !.i = @ + 1] ELSE [set EXCEPT !.pc = "restore", !.i = 1]
  /\ UNCHANGED <<fileVars, up, bounds>>

AllApplied ==
  /\ up /\ set.pc = "apply" /\ set.i > Len(set.fns)
  /\ set' = Answered("ok")
  /\ UNCHANGED <<values, listener, capacity, broken, fileVars, up, bounds>>

\* restoreBackupConfig() after an apply function failed: all values, then all functions.
RestoreValues ==
  /\ up /\ set.pc = "restore"
  /\ values' = Restored(values, Len(set.request))
  /\ set' = [set EXCEPT !.pc = "reapply", !.i = 1]
  /\ UNCHANGED <<listener, capacity, broken, fileVars, up, bounds>>

\* Mutant of Reapply: the values are restored, but not applied.
ReapplyNothing(ok) ==
  /\ up /\ set.pc = "reapply" /\ set.i <= Len(set.fns)
  /\ set' = [set EXCEPT !.i = @ + 1]
  /\ UNCHANGED <<values, listener, capacity, broken, fileVars, up, bounds>>

Reapply(ok) ==
  /\ up /\ set.pc = "reapply" /\ set.i <= Len(set.fns)
  /\ Apply(set.fns[set.i], ok, TRUE)
  /\ set' = [set EXCEPT !.i = @ + 1]
  /\ UNCHANGED <<fileVars, up, bounds>>

AllReapplied ==
  /\ up /\ set.pc = "reapply" /\ set.i > Len(set.fns)
  /\ set' = Answered("error")
  /\ UNCHANGED <<values, listener, capacity, broken, fileVars, up, bounds>>

-----------------------------------------------------------------------------
(* The file: a sequence of lines.                                          *)

Line(kind, name, text) == [kind |-> kind, name |-> name, text |-> text]
OptionLine(name, text) == Line("option", name, text)
Blank == Line("blank", "", << >>)
Signature == Line("signature", "", << >>)
Comment(name) == Line("comment", name, << >>)
Deprecated(name) == Line("deprecated", name, << >>)   \* also of a module that is not loaded
Include == Line("include", "", << >>)

\* setConfigSaveOption() while a file is read: the first line resets the defaults.  After an
\* INCLUDE the server no longer knows that it reads a file, and every line resets; so does
\* an empty one.
LoadSave(l, text) ==
  [l EXCEPT !.values.save = IF l.reading /\ l.reset /\ text # << >> THEN @ \o text ELSE text,
            !.reset = l.reset \/ l.reading]

\* One line; a value that is refused ends the server.
LoadLine(l, line) ==
  IF line.kind # "option" \/ ~l.ok THEN l
  ELSE LET o == OptionOf(line.name)
           r == Set(o, line.text, l.values)
       IN IF r.res = 0 THEN [l EXCEPT !.ok = FALSE]
          ELSE IF o = "save" THEN LoadSave(l, line.text)
          ELSE [l EXCEPT !.values = r.values]

\* loadServerConfigFromString(), for a file that includes nothing and for any.
LoadPlain(l, lines) ==
  [FoldLeft(LoadLine, [l EXCEPT !.reading = TRUE], lines) EXCEPT !.reading = FALSE]
Load(lines) ==
  LET step(l, line) == IF line.kind = "include" THEN LoadPlain(l, Included) ELSE LoadLine(l, line)
  IN FoldLeft(step, [ok |-> TRUE, values |-> Default, reset |-> FALSE, reading |-> TRUE], lines)

\* What an operator may write, and does not start the server from before it is accepted.
LineNames == Names \cup Remarks \cup {""}
FileLines == {l \in [kind : {"option", "blank", "signature", "comment", "deprecated", "include"},
                     name : LineNames, text : Seq(Int)] : l.kind = "option" => l.name \in Names}
ASSUME ValuesAssumption == Default \in Values /\ Default.user = << >>
ASSUME FilesAssumption == /\ Included \in Seq(FileLines)
                          /\ \A lines \in Files : lines \in Seq(FileLines) /\ Load(lines).ok

-----------------------------------------------------------------------------
(* CONFIG REWRITE.  The state of a rewrite: the lines, for each parameter  *)
(* the numbers of its old lines that are not used again yet (in the code a *)
(* list in the order of the file), and the parameters that were processed. *)

\* Mutant of LineNumbers: the lines of an alias are left where they are.
LineNumbersOfName(o, lines) == {i \in DOMAIN lines : lines[i].kind = "option" /\ lines[i].name = o}

LineNumbers(o, lines) ==
  {i \in DOMAIN lines : lines[i].kind = "option" /\ OptionOf(lines[i].name) = o}

\* What the parameters do not know becomes a comment.
Known(text) ==
  LET add(lines, line) == Append(lines, IF line.kind = "deprecated" THEN Comment(line.name) ELSE line)
  IN FoldLeft(add, << >>, text)

\* Mutant of ReadOldFile: the signature is not noticed.
ReadOldFileUnsigned(lines) ==
  LET text == IF lines = << >> THEN << >> ELSE Append(lines, Blank)
  IN [lines |-> Known(text),
      at |-> [o \in Options |-> LineNumbers(o, text)], processed |-> {}, signed |-> FALSE]

\* rewriteConfigReadOldFile(): the text after the last newline is an empty line.
ReadOldFile(lines) ==
  LET text == IF lines = << >> THEN << >> ELSE Append(lines, Blank)
  IN [lines |-> Known(text),
      at |-> [o \in Options |-> LineNumbers(o, text)],
      processed |-> {}, signed |-> \E i \in DOMAIN text : text[i] = Signature]

\* rewriteConfigRewriteLine(): the first old line is used again; a new one is appended when it
\* must be.
RewriteLine(s, o, text, force) ==
  LET line == OptionLine(o, text)
      first == Min(s.at[o]) IN
  IF s.at[o] # {}
    THEN [s EXCEPT !.lines[first] = line, !.at[o] = @ \ {first}, !.processed = @ \cup {o}]
  ELSE IF force
    THEN [s EXCEPT !.lines = IF s.signed THEN Append(@, line) ELSE @ \o <<Signature, line>>,
                   !.signed = TRUE, !.processed = @ \cup {o}]
  ELSE [s EXCEPT !.processed = @ \cup {o}]

MarkAsProcessed(s, o) == [s EXCEPT !.processed = @ \cup {o}]

\* config->interface.rewrite(): NULL and the default addresses stand in no line, save points
\* in one line each, percentiles and save points also when they are the default.
RewriteNumber(s, o, v) == RewriteLine(s, o, v[o], v[o] # Default[o])
RewriteString(s, o, v) == IF v[o] = << >> THEN MarkAsProcessed(s, o) ELSE RewriteNumber(s, o, v)
RewriteBind(s, o, v) == IF v[o] = Default[o] THEN MarkAsProcessed(s, o) ELSE RewriteLine(s, o, v[o], TRUE)
RewriteSave(s, o, v) ==
  IF v[o] = << >> THEN RewriteLine(s, o, << >>, TRUE)
  ELSE FoldLeft(LAMBDA r, point : RewriteLine(r, o, <<point>>, TRUE), s, v[o])
RewritePercentiles(s, o, v) == RewriteLine(s, o, Shown(o, v[o]), TRUE)

RewriteOption(s, o, v) ==
  CASE o \in Numeric -> RewriteNumber(s, o, v)
    [] o = "user" -> RewriteString(s, o, v)
    [] o = "bind" -> RewriteBind(s, o, v)
    [] o = "save" -> RewriteSave(s, o, v)
    [] o = "percentiles" -> RewritePercentiles(s, o, v)

\* rewriteConfigRemoveOrphaned()
RemoveOrphaned(s) ==
  [i \in DOMAIN s.lines |->
     IF \E o \in s.processed : i \in s.at[o] THEN Blank ELSE s.lines[i]]

\* Mutant of GetContent: every empty line is kept.
GetContentAll(lines) == lines

\* rewriteConfigGetContentFromState(): of several empty lines the first.
GetContent(lines) ==
  LET empty(i) == i > 0 /\ lines[i] = Blank
      add(content, i) == IF empty(i) /\ empty(i - 1) THEN content ELSE Append(content, lines[i])
  IN FoldLeftDomain(add, << >>, lines)

\* rewriteConfig(), up to the text of the new file.
Rewritten(lines, v, order) ==
  GetContent(RemoveOrphaned(FoldLeft(LAMBDA s, o : RewriteOption(s, o, v), ReadOldFile(lines), order)))

-----------------------------------------------------------------------------
(* The steps of a rewrite.  A file is [lines, synced]; Garbage is what a   *)
(* crash of the machine leaves of one whose contents were not synced.      *)

Garbage == <<Line("garbage", "", << >>)>>
NoRewrite == [pc |-> "idle", content |-> << >>, of |-> Default, synced |-> FALSE]

Rewrite(order) ==
  /\ Idle /\ rewrites < MaxRewrites
  /\ rewrites' = rewrites + 1 /\ set' = NoSet
  /\ rewrite' = [NoRewrite EXCEPT !.pc = "write", !.of = values,
                                 !.content = Rewritten(file.lines, values, order)]
  /\ UNCHANGED <<values, listener, capacity, broken, file, disk, saved, up, sets, edits, crashes>>

\* rewriteConfigOverwriteFile(): each call may fail; the temporary file is then removed.
RewriteFails ==
  /\ up /\ rewrite.pc # "idle"
  /\ rewrite' = NoRewrite
  /\ UNCHANGED <<configVars, file, disk, saved, up, bounds>>

\* Mutant of Sync: the contents are not synced.
SyncNot ==
  /\ up /\ rewrite.pc = "write"
  /\ rewrite' = [rewrite EXCEPT !.pc = "rename"]
  /\ UNCHANGED <<configVars, file, disk, saved, up, bounds>>

\* The contents are written and synced.
Sync ==
  /\ up /\ rewrite.pc = "write"
  /\ rewrite' = [rewrite EXCEPT !.pc = "rename", !.synced = TRUE]
  /\ UNCHANGED <<configVars, file, disk, saved, up, bounds>>

Rename ==
  /\ up /\ rewrite.pc = "rename"
  /\ file' = [lines |-> rewrite.content, synced |-> rewrite.synced]
  /\ rewrite' = [rewrite EXCEPT !.pc = "syncdir"]
  /\ saved' = Nothing
  /\ UNCHANGED <<configVars, disk, up, bounds>>

SyncDir ==
  /\ up /\ rewrite.pc = "syncdir"
  /\ disk' = file /\ saved' = <<rewrite.of>> /\ rewrite' = NoRewrite
  /\ UNCHANGED <<configVars, file, up, bounds>>

-----------------------------------------------------------------------------
(* The operator, who does not edit the file during a command, crashes, and *)
(* the start.                                                              *)

Whole(lines) == [lines |-> lines, synced |-> TRUE]

Edit(lines) ==
  /\ rewrite.pc = "idle" /\ set.pc = "idle" /\ edits < MaxEdits /\ edits' = edits + 1
  /\ file' = Whole(lines) /\ disk' = Whole(lines) /\ saved' = Nothing
  /\ UNCHANGED <<configVars, rewrite, up, sets, rewrites, crashes>>

Down == /\ up' = FALSE /\ set' = NoSet /\ rewrite' = NoRewrite /\ broken' = {} /\ listener' = Closed
        /\ UNCHANGED <<values, capacity>>

ServerCrash ==
  /\ up /\ crashes < MaxCrashes /\ crashes' = crashes + 1
  /\ Down /\ UNCHANGED <<file, disk, saved, sets, rewrites, edits>>

MachineCrash ==
  /\ up /\ crashes < MaxCrashes /\ crashes' = crashes + 1
  /\ Down
  /\ \E survivor \in {file, disk} :
       /\ file' = IF survivor.synced THEN survivor ELSE Whole(Garbage)
       /\ disk' = file'
  /\ UNCHANGED <<saved, sets, rewrites, edits>>

\* main(): the defaults, the file, and everything applied.
Start ==
  /\ ~up
  /\ Load(file.lines).ok
  /\ up' = TRUE /\ values' = Load(file.lines).values
  /\ listener' = <<values'.port, values'.bind>> /\ capacity' = values'.maxclients[1]
  /\ UNCHANGED <<set, broken, fileVars, bounds>>

Init ==
  /\ file \in {Whole(lines) : lines \in Files} /\ disk = file
  /\ values = Load(file.lines).values
  /\ listener = <<values.port, values.bind>> /\ capacity = values.maxclients[1]
  /\ set = NoSet /\ broken = {} /\ rewrite = NoRewrite /\ saved = Nothing /\ up = TRUE
  /\ sets = 0 /\ rewrites = 0 /\ edits = 0 /\ crashes = 0

SetStep == SetOne \/ AllSet \/ (\E ok \in BOOLEAN : ApplyOne(ok)) \/ AllApplied
           \/ RestoreValues \/ (\E ok \in BOOLEAN : Reapply(ok)) \/ AllReapplied
RewriteStep == RewriteFails \/ Sync \/ Rename \/ SyncDir

Next == \/ \E request \in Requests : ConfigSet(request)
        \/ SetStep
        \/ \E order \in Orders : Rewrite(order)
        \/ RewriteStep
        \/ \E lines \in Files : Edit(lines)
        \/ ServerCrash \/ MachineCrash \/ Start

Spec == Init /\ [][Next]_vars

-----------------------------------------------------------------------------
TypeOK ==
  /\ values \in Values
  /\ set.pc \in {"idle", "set", "apply", "restore", "reapply"}
  /\ set.reply \in {"none", "ok", "error", "refused"}
  /\ set.i \in 1 .. Len(set.request) + 1
  /\ broken \subseteq {"updatePort", "applyBind", "updateMaxclients"}
  /\ capacity \in Nat /\ up \in BOOLEAN
  /\ rewrite.pc \in {"idle", "write", "rename", "syncdir"} /\ Len(saved) \in 0 .. 1

(***************************************************************************)
(* A CONFIG SET of several parameters sets all of them, the last text of   *)
(* those it names twice, or none: after an error every parameter has the   *)
(* value it had, up to the digits a percentile loses in text, unless the   *)
(* system refuses the old number of clients as well (config.c:779-803,     *)
(* 868-915).                                                               *)
(***************************************************************************)
Asked(o) == {i \in DOMAIN set.request : OptionOf(set.request[i].name) = o}
AllOrNothing ==
  /\ set.pc = "idle" /\ set.reply = "error" =>
       \A o \in Options :
         \/ values[o] = set.before[o]
         \/ Asked(o) # {} /\ values[o] = Shown(o, set.before[o])
         \/ o = "maxclients" /\ "updateMaxclients" \in broken
  /\ set.pc = "idle" /\ set.reply = "ok" =>
       \A o \in Options :
         values[o] = IF Asked(o) = {} THEN set.before[o]
                     ELSE set.request[CHOOSE i \in Asked(o) : \A j \in Asked(o) : j <= i].text

(***************************************************************************)
(* Between commands the server does what its parameters say - it listens   *)
(* where they say, and has room for the clients they allow - whether the   *)
(* last CONFIG SET succeeded or was rolled back, unless an apply function  *)
(* failed for the old values too (config.c:779-803, 905-915).              *)
(***************************************************************************)
Applied ==
  up /\ set.pc = "idle" =>
    /\ broken \cap {"updatePort", "applyBind"} = {} => listener = <<values.port, values.bind>>
    /\ capacity >= values.maxclients[1]

(***************************************************************************)
(* Whatever crashes or fails, the configuration file is a whole one, which *)
(* the server can start from (config.c:1679-1747).                         *)
(***************************************************************************)
FileIsWhole == \A f \in {file, disk} : ~f.synced \/ (f.lines # Garbage /\ Load(f.lines).ok)

(***************************************************************************)
(* After a CONFIG REWRITE that succeeded the server starts with the values *)
(* it had then, after a crash of the machine too.  Not so for a parameter  *)
(* that an INCLUDE sets after its line, and for save points with an        *)
(* INCLUDE before the last, which then is the only one (config.c:617,      *)
(* 2741-2749).                                                             *)
(***************************************************************************)
Lines(lines, kind, o) ==
  {i \in DOMAIN lines : lines[i].kind = kind /\ (kind = "option" => OptionOf(lines[i].name) = o)}
Overridden(lines, o) ==
  \E i \in Lines(lines, "include", o) :
    /\ Lines(Included, "option", o) # {}
    /\ \A k \in Lines(lines, "option", o) : k < i
SavePointAfterInclude(lines) ==
  \E i \in Lines(lines, "include", "save") : \E k \in Lines(lines, "option", "save") : k > i

SavedIsLoaded ==
  saved # Nothing =>
    \A f \in {file, disk} :
      /\ Load(f.lines).ok
      /\ \A o \in Options :
           \/ Load(f.lines).values[o] = Shown(o, saved[1][o])
           \/ Overridden(f.lines, o)
           \/ o = "save" /\ Len(saved[1][o]) > 1 /\ SavePointAfterInclude(f.lines)

(***************************************************************************)
(* A rewrite keeps every comment, INCLUDE and line that it does not know,  *)
(* in their order, and signs the file only if it is not signed yet         *)
(* (config.c:1119-1213, 1625-1652).                                        *)
(***************************************************************************)
Others(lines) ==
  LET add(names, line) ==
        IF line.kind \in {"comment", "deprecated", "include"} THEN Append(names, line.name) ELSE names
  IN FoldLeft(add, << >>, lines)
Signatures(lines) == Cardinality({i \in DOMAIN lines : lines[i] = Signature})
OthersStay ==
  rewrite.pc \in {"write", "rename"} =>
    /\ Others(rewrite.content) = Others(file.lines)
    /\ Signatures(rewrite.content) <= 1 \/ Signatures(rewrite.content) <= Signatures(file.lines)

(***************************************************************************)
(* A second rewrite of the same values, whatever the order of the          *)
(* dictionary, changes nothing but one empty line at the end, so that      *)
(* files do not grow (config.c:1232-1267, 1599-1616).                      *)
(***************************************************************************)
RewriteSettles ==
  saved # Nothing =>
    \A order \in Orders :
      Rewritten(file.lines, saved[1], order) =
        IF Last(file.lines) = Blank THEN file.lines ELSE Append(file.lines, Blank)

(***************************************************************************)
(* Every configuration file a restart may find is whole, and starts the    *)
(* server with what was saved last (config.c:1679-1747).                   *)
(***************************************************************************)
FileSurvives == FileIsWhole /\ SavedIsLoaded

(***************************************************************************)
(* Rewriting keeps what the operator wrote, and comes to rest              *)
(* (config.c:1119-1267, 1599-1652).                                        *)
(***************************************************************************)
RewritesKeep == OthersStay /\ RewriteSettles
=============================================================================
