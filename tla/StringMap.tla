------------------------------ MODULE StringMap ------------------------------
(***************************************************************************)
(* What the commands on string values promise: a map from keys to strings, *)
(* each command changing the keys it names and no other.  A string is a    *)
(* sequence; one made of the symbol "1" alone is also the number of them.  *)
(***************************************************************************)
EXTENDS Naturals, Sequences

CONSTANTS Keys, NULL,
          Texts,      \* the strings a client may send
          MaxText     \* bound: the longest value
VARIABLE map          \* the value of every key

IsNumber(s) == s # << >> /\ \A i \in DOMAIN s : s[i] = "1"
NumberText(n) == [i \in 1 .. n |-> "1"]

\* The value after APPEND, and after INCR, which asks for a number.
AppendedText(old, s) == IF old = NULL THEN s ELSE old \o s
MayAppend(old, s) == Len(AppendedText(old, s)) <= MaxText
MayIncr(old) == old = NULL \/ (IsNumber(old) /\ Len(old) < MaxText)
IncrementedText(old) == IF old = NULL THEN NumberText(1) ELSE NumberText(Len(old) + 1)

\* The map after one command; a command that may not run changes nothing.
Applied(m, cmd) ==
  CASE cmd.name = "set" -> [m EXCEPT ![cmd.key] = cmd.text]
    [] cmd.name = "append" -> IF MayAppend(m[cmd.key], cmd.text)
                                THEN [m EXCEPT ![cmd.key] = AppendedText(@, cmd.text)] ELSE m
    [] cmd.name = "incr" -> IF MayIncr(m[cmd.key])
                              THEN [m EXCEPT ![cmd.key] = IncrementedText(@)] ELSE m
    [] cmd.name = "del" -> [m EXCEPT ![cmd.key] = NULL]
    [] cmd.name = "rename" -> IF m[cmd.key] = NULL THEN m
                              ELSE [m EXCEPT ![cmd.to] = m[cmd.key], ![cmd.key] = NULL]
    [] cmd.name = "copy" -> IF m[cmd.key] = NULL \/ m[cmd.to] # NULL THEN m
                            ELSE [m EXCEPT ![cmd.to] = m[cmd.key]]

Commands ==
       [name : {"set", "append"}, key : Keys, text : Texts]
  \cup [name : {"incr", "del"}, key : Keys]
  \cup {c \in [name : {"rename", "copy"}, key : Keys, to : Keys] : c.key # c.to}

Init == map = [k \in Keys |-> NULL]
Next == \E cmd \in Commands : map' = Applied(map, cmd)
Spec == Init /\ [][Next]_map
=============================================================================
