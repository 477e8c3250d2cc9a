------------------------------ MODULE MCConfig ------------------------------
(* A small server: two values of each parameter, files with duplicates, an  *)
(* alias, an INCLUDE and lines that are not known, all pairs of requests.   *)
EXTENDS Config

MCDefault ==
  [o \in Options |-> CASE o = "port" -> <<1>> [] o = "bind" -> <<0>> [] o = "maxclients" -> <<3>>
                       [] o = "priority" -> <<1>> [] o = "user" -> << >> [] o = "save" -> <<1>>
                       [] o = "percentiles" -> <<10>> [] OTHER -> <<0>>]

Ask(name, text) == [name |-> name, text |-> text]
MCSingles == {Ask("slave-priority", <<1>>), Ask("user", << >>),
              Ask("save", <<2, 3>>), Ask("save", << >>), Ask("percentiles", <<11>>),
              Ask("daemonize", <<1>>)}
MCPairs == {<<Ask("port", <<2>>), Ask("bind", <<5>>)>>, <<Ask("bind", << >>), Ask("maxclients", <<4>>)>>,
            <<Ask("maxclients", <<4>>), Ask("port", <<1>>)>>, <<Ask("priority", <<2>>), Ask("slave-priority", <<1>>)>>,
            <<Ask("save", <<2, 3>>), Ask("percentiles", <<20, -1>>)>>,
            <<Ask("percentiles", <<20>>), Ask("save", <<-1>>)>>,
            <<Ask("port", <<1>>), Ask("port", <<2>>)>>,
            <<Ask("user", <<7>>), Ask("port", <<-1>>)>>,
            <<Ask("maxclients", <<4>>), Ask("bind", <<5, 6>>)>>}
MCRequests == {<<single>> : single \in MCSingles} \cup MCPairs

MCFiles ==
  {<< >>,
   <<Comment("c"), OptionLine("slave-priority", <<2>>), Blank, OptionLine("port", <<2>>),
     OptionLine("port", <<1>>), Deprecated("d")>>,
   <<Include, OptionLine("save", <<1>>), OptionLine("save", << >>), OptionLine("save", <<2>>), Blank, Comment("c"),
     OptionLine("bind", <<5>>)>>,
   <<OptionLine("save", <<3, 4>>), OptionLine("maxclients", <<4>>), Signature,
     OptionLine("percentiles", <<20>>), OptionLine("user", <<7>>), Include>>}
MCIncluded == <<OptionLine("port", <<2>>)>>
MCOrder == <<"port", "save", "bind", "maxclients", "user", "priority", "percentiles", "daemonize">>
MCOrders == {MCOrder, Reverse(MCOrder)}
=============================================================================
