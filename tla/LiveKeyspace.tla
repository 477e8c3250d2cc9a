---------------------------- MODULE LiveKeyspace ----------------------------
(***************************************************************************)
(* What Redis promises of its keys to the clients of a server: a map from  *)
(* keys to values, some with a time, after which they are gone.  Every     *)
(* command is one step on the map and is answered from it.  The server may *)
(* evict any key at any moment.                                            *)
(***************************************************************************)
EXTENDS Integers

CONSTANTS Dbs, Names, Values, NULL, MaxTime

VARIABLES live, now, reply,
          follows  \* the server is a replica
vars == <<live, now, reply, follows>>

Keys == Dbs \X Names
InDb(db) == {k \in Keys : k[1] = db}
Never == -1
Gone == [val |-> NULL, when |-> Never]
Is(k) == live[k] # Gone

\* The map without the keys of K.
Without(K) == [k \in Keys |-> IF k \in K THEN Gone ELSE live[k]]

Entries == {Gone} \cup [val : Values, when : Never .. MaxTime]
Init == live \in [Keys -> Entries] /\ now = 0 /\ reply = <<>>
     /\ follows \in BOOLEAN

Answer(cmd, answer) == reply' = <<cmd, {answer}>> /\ UNCHANGED <<now, follows>>
Refuse(cmd, answer) == Answer(cmd, answer) /\ UNCHANGED live
Shows(cmd, names) ==
  /\ reply' # <<>> /\ reply'[1] = cmd /\ reply'[2] = names
  /\ UNCHANGED <<live, now, follows>>

Read(k) == Shows("get", IF Is(k) THEN {live[k].val} ELSE {})
List(db) == Shows("keys", {k[2] : k \in {x \in InDb(db) : Is(x)}})

\* A replica may name a key whose time is over.
RandomKey(db) ==
  \/ Shows("random", {}) /\ \A k \in InDb(db) : ~Is(k)
  \/ \E k \in InDb(db) : Refuse("random", k[2]) /\ (Is(k) \/ follows)

Set(k, v, keepttl) ==
  /\ Answer("set", "ok")
  /\ live' = [live EXCEPT ![k] =
                [val |-> v, when |-> IF keepttl THEN @.when ELSE Never]]

Expire(k, when) ==
  \/ Refuse("expire", "no") /\ ~Is(k)
  \/ /\ Answer("expire", "ok") /\ Is(k)
     /\ live' = [live EXCEPT ![k].when = when]

Persist(k) ==
  \/ Refuse("persist", "no") /\ live[k].when = Never
  \/ /\ Answer("persist", "ok") /\ live[k].when # Never
     /\ live' = [live EXCEPT ![k].when = Never]

\* A replica may count a key whose time is over.
Del(K) ==
  /\ \/ Answer("del", "ok") /\ (follows \/ \E k \in K : Is(k))
     \/ Answer("del", "no") /\ ~\E k \in K : Is(k)
  /\ live' = Without(K)

Rename(a, b, nx) ==
  \/ Refuse("rename", "nokey") /\ ~Is(a)
  \/ Refuse("rename", IF nx THEN "no" ELSE "ok") /\ Is(a) /\ a = b
  \/ Refuse("rename", "no") /\ nx /\ a # b /\ Is(a) /\ Is(b)
  \/ /\ Answer("rename", "ok") /\ a # b /\ Is(a) /\ ~(Is(b) /\ nx)
     /\ live' = [Without({a}) EXCEPT ![b] = live[a]]

Move(a, b) ==
  \/ Refuse("move", "no") /\ (~Is(a) \/ Is(b))
  \/ /\ Answer("move", "ok") /\ Is(a) /\ ~Is(b)
     /\ live' = [Without({a}) EXCEPT ![b] = live[a]]

Copy(a, b, replace) ==
  \/ Refuse("copy", "no") /\ (~Is(a) \/ (Is(b) /\ ~replace))
  \/ /\ Answer("copy", "ok") /\ Is(a) /\ ~(Is(b) /\ ~replace)
     /\ live' = [live EXCEPT ![b] = live[a]]

Twin(k, db1, db2) ==
  <<IF k[1] = db1 THEN db2 ELSE IF k[1] = db2 THEN db1 ELSE k[1], k[2]>>
Swap(db1, db2) ==
  /\ Answer("swapdb", "ok")
  /\ live' = [k \in Keys |-> live[Twin(k, db1, db2)]]

Flush(dbs) ==
  /\ Answer("flush", "ok")
  /\ live' = Without({k \in Keys : k[1] \in dbs})

\* A step that is no command answers nothing.
Quiet == reply' = <<>> /\ UNCHANGED live

Evict(k) == reply' = <<>> /\ live' = Without({k}) /\ UNCHANGED <<now, follows>>

\* Time passes and takes the entries whose time is over.
Tick ==
  /\ now' = now + 1
  /\ live' = Without({k \in Keys : live[k].when >= 0 /\ now' > live[k].when})
  /\ reply' = <<>> /\ UNCHANGED follows

Promote == follows' = FALSE /\ Quiet /\ UNCHANGED now

\* The server works on its own.
Work == Quiet /\ UNCHANGED <<now, follows>>

Next ==
  \/ Tick \/ Promote \/ Work
  \/ \E k \in Keys, v \in Values, keepttl \in BOOLEAN : Set(k, v, keepttl)
  \/ \E k \in Keys, when \in 0 .. MaxTime : Expire(k, when)
  \/ \E db \in Dbs : \E K \in SUBSET InDb(db) : Del(K)
  \/ \E a, b \in Keys, nx \in BOOLEAN : Rename(a, b, nx)
  \/ \E a, b \in Keys : Move(a, b)
  \/ \E a, b \in Keys, replace \in BOOLEAN : a # b /\ Copy(a, b, replace)
  \/ \E db1, db2 \in Dbs : Swap(db1, db2)
  \/ \E dbs \in SUBSET Dbs : Flush(dbs)
  \/ \E k \in Keys : Read(k) \/ Persist(k) \/ Evict(k)
  \/ \E db \in Dbs : List(db) \/ RandomKey(db)

Spec == Init /\ [][Next]_vars
=============================================================================
