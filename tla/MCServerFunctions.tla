-------------------------- MODULE MCServerFunctions --------------------------
(* Calls of the pure functions, and the score of module HistogramScore: a   *)
(* behaviour is one of them.                                               *)
EXTENDS ServerFunctions, HistogramScore

MCLengths == (0 .. 20) \cup {62, 63, 64, 65, 255, 256, 65535, 65536, 65537, 1000000}
MCNumbers == (-20 .. 20) \cup {-129, -128, 127, 128, -32769, -32768, 32767, 32768, 100000}

MCTexts == {EmptyText, Text("s", 3, 0), Text("l", 21, 0), Text("z", 70, 17), Text("e", 20, 0)}
MCStrings ==
  {[o |-> [encoding |-> e, str |-> t], compression |-> c, flag |-> f] :
     e \in {"raw"}, t \in MCTexts, c \in BOOLEAN, f \in {"none", "enc", "plain", "sds"}}
  \cup {[o |-> [encoding |-> e, str |-> IntText(n)], compression |-> c, flag |-> f] :
        e \in {"raw", "int"}, n \in {-129, -128, -8, -1, 0, 7, 8, 127, 128, 32768, 1000000},
        c \in BOOLEAN, f \in {"none", "enc", "plain", "sds"}}
MCDoubles == Elements(Special) \cup {Double("d", 4)}

Entry(key, val, expire) == [key |-> key, val |-> val, expire |-> expire, idle |-> 1500, freq |-> 2]
MCEntries(key) == {Entry(key, val, expire) : val \in {"v", EMPTY}, expire \in {-1, 1, 9}}
MCDbs == {<< >>} \cup {<<e>> : e \in MCEntries("x")}
         \cup {<<e, f>> : e \in MCEntries("x"), f \in MCEntries("y")}
NoChain == [masterhost |-> "none", backlog |-> FALSE, slaveseldb |-> -1, master |-> -1, cached |-> -1]
MCServer(dbs, policy, repl, req, checksum) ==
  [dbs |-> dbs, libraries |-> <<"lib">>, policy |-> policy, preamble |-> FALSE, checksum |-> checksum,
   replid |-> "id", offset |-> 7, repl |-> repl, req |-> req]
MCServers ==
  {MCServer(<<db, << >>, << >>>>, p, NoChain, {}, TRUE) : db \in MCDbs, p \in {"LRU", "LFU", "none"}}
  \cup {MCServer(<<<<Entry("x", "v", 1)>>, db, << >>>>, "LRU", r, q, c) :
        db \in {<< >>, <<Entry("x", "w", -1)>>}, q \in {{}, {"data"}, {"functions"}}, c \in BOOLEAN,
        r \in {[NoChain EXCEPT !.backlog = TRUE], [NoChain EXCEPT !.backlog = TRUE, !.slaveseldb = 1],
               [NoChain EXCEPT !.masterhost = "m", !.master = 1],
               [NoChain EXCEPT !.masterhost = "m", !.backlog = TRUE, !.slaveseldb = 1],
               [NoChain EXCEPT !.masterhost = "m", !.backlog = TRUE, !.slaveseldb = 1, !.master = 0],
               [NoChain EXCEPT !.masterhost = "m", !.backlog = TRUE, !.slaveseldb = 1, !.cached = 2]}}
  \cup {MCServer(<<<< >>, << >>, <<Entry("x", "v", -1)>>>>, "none", NoChain, {}, TRUE)}
MCLoader(master, flags, policy, checksum, before) ==
  [master |-> master, flags |-> flags, rsi |-> checksum, policy |-> policy, checksum |-> checksum,
   dbs |-> <<before, << >>>>]
Before == [Entry("y", "old", -1) EXCEPT !.idle = -1, !.freq = -1]
MCLoaders ==
  {MCLoader(m, f, p, c, << >>) : m \in BOOLEAN, f \in {{}, {"preamble"}, {"feed"}},
                                 p \in {"LRU", "LFU"}, c \in {TRUE}}
  \cup {MCLoader(TRUE, f, "LRU", c, <<Before>>) : f \in {{}, {"dup"}}, c \in BOOLEAN}

\* While one of the two runs the other stays in its first state.
NoCall == [fn |-> "none", in |-> 0, out |-> << >>]
NoScore == /\ ages = [n \in Samples |-> << >>] /\ pc = "done" /\ j = 1 /\ i = 1
           /\ stats = NoStats /\ windows = [n \in Samples |-> << >>]

FunctionsInit == (ScoreInit /\ call = NoCall) \/ (CallInit /\ NoScore)
FunctionsNext == (ScoreNext /\ UNCHANGED call) \/ (CallNext /\ UNCHANGED scoreVars)
FunctionsSpec == FunctionsInit /\ [][FunctionsNext]_<<scoreVars, call>>
=============================================================================
