---------------------------- MODULE ConfigProofs ----------------------------
(***************************************************************************)
(* CONFIG SET with its rollback, and the file that CONFIG REWRITE leaves,  *)
(* for any defaults, requests, files and orders of the parameters.         *)
(*                                                                         *)
(* Restoring, loading and rewriting are folds over sequences of any        *)
(* length.  A fold is a recursive function that is shown to exist          *)
(* (FoldExists), with its intermediate values in the set that the step     *)
(* keeps to (FoldRuns).                                                    *)
(***************************************************************************)
EXTENDS Config, FiniteSetTheorems, WellFoundedInduction, TLAPS

-----------------------------------------------------------------------------
(* Folds.                                                                  *)

\* Induction over the naturals, for a set instead of a predicate.
LEMMA LeastOf ==
  ASSUME NEW T, T \subseteq Nat, T # {}
  PROVE  \E n \in T : \A m \in T : ~(m < n)
<1> DEFINE R == OpToRel(<, Nat)
<1>1. IsWellFoundedOn(R, Nat)
  BY NatLessThanWellFounded, Zenon
<1>2. \E n \in T : \A m \in T : ~(<<m, n>> \in R)
  BY <1>1, WFMin
<1> QED
  BY <1>2 DEF OpToRel

LEMMA InductionOver ==
  ASSUME NEW P, 0 \in P, \A n \in Nat : n \in P => n + 1 \in P
  PROVE  Nat \subseteq P
<1> SUFFICES ASSUME Nat \ P # {} PROVE FALSE
  OBVIOUS
<1>1. PICK n \in Nat \ P : \A m \in Nat \ P : ~(m < n)
  <2> Nat \ P \subseteq Nat
    OBVIOUS
  <2> QED
    BY LeastOf
<1>2. n # 0 /\ n - 1 \in Nat /\ n - 1 \in P /\ n = (n - 1) + 1
  BY <1>1
<1> QED
  BY <1>1, <1>2

\* A set of positions of a sequence has a last one.
LEMMA LastPosition ==
  ASSUME NEW n \in Nat, NEW s \in SUBSET (1 .. n), s # {}
  PROVE  Max(s) \in s /\ \A x \in s : x <= Max(s)
<1> DEFINE T == {n - x : x \in s}
<1>1. T \subseteq Nat /\ T # {}
  <2>1. \A x \in s : x \in 1 .. n /\ n - x \in Nat
    OBVIOUS
  <2>2. PICK x \in s : TRUE
    OBVIOUS
  <2> QED
    BY <2>1, <2>2
<1>2. PICK k \in T : \A m \in T : ~(m < k)
  BY <1>1, LeastOf
<1>3. PICK x \in s : k = n - x
  OBVIOUS
<1>4. \A y \in s : y <= x
  <2> TAKE y \in s
  <2>1. n - y \in T /\ ~(n - y < n - x)
    BY <1>2, <1>3
  <2> QED
    BY <2>1
<1>5. \E z \in s : \A y \in s : z >= y
  BY <1>4
<1> QED
  BY <1>5 DEF Max

(***************************************************************************)
(* A fold over the n positions of a sequence, as the community modules     *)
(* define it, is a recursive function on sets of positions: it exists.     *)
(***************************************************************************)
IsFold(it, X, base, n, step) ==
  /\ it \in [SUBSET (1 .. n) -> X]
  /\ \A s \in SUBSET (1 .. n) :
       it[s] = IF s = {} THEN base ELSE step[<<it[s \ {Max(s)}], Max(s)>>]

LEMMA FoldExists ==
  ASSUME NEW X, NEW base \in X, NEW n \in Nat, NEW step \in [X \X (1 .. n) -> X]
  PROVE  \E it : IsFold(it, X, base, n, step)
<1> DEFINE D == SUBSET (1 .. n)
           Body(g, s) == IF s = {} THEN base ELSE step[<<g[s \ {Max(s)}], Max(s)>>]
           P == {k \in Nat : \E g \in [D -> X] :
                   \A s \in D : s \subseteq 1 .. k => g[s] = Body(g, s)}
<1>1. ASSUME NEW g \in [D -> X], NEW s \in D
      PROVE  Body(g, s) \in X
  BY LastPosition
<1>2. 0 \in P
  <2> DEFINE g == [s \in D |-> base]
  <2>1. g \in [D -> X]
    OBVIOUS
  <2>2. ASSUME NEW s \in D, s \subseteq 1 .. 0
        PROVE  g[s] = Body(g, s)
    <3>1. s = {}
      BY <2>2
    <3> QED
      BY <3>1
  <2> HIDE DEF Body, g
  <2> QED
    BY <2>1, <2>2
<1>3. ASSUME NEW k \in Nat, k \in P
      PROVE  k + 1 \in P
  <2>1. PICK g \in [D -> X] : \A s \in D : s \subseteq 1 .. k => g[s] = Body(g, s)
    BY <1>3
  <2> DEFINE h == [s \in D |-> Body(g, s)]
  <2>2. h \in [D -> X]
    BY <1>1
  <2>3. ASSUME NEW s \in D, s \subseteq 1 .. k + 1
        PROVE  h[s] = Body(h, s)
    <3>1. CASE s = {}
      BY <3>1
    <3>2. CASE s # {}
      <4> DEFINE r == s \ {Max(s)}
      <4>1. r \in D /\ r \subseteq 1 .. k
        <5>1. Max(s) \in s /\ \A x \in s : x <= Max(s)
          BY <3>2, LastPosition
        <5> HIDE DEF D
        <5>2. ASSUME NEW x \in r PROVE x \in 1 .. k
          <6>1. x \in 1 .. k + 1 /\ Max(s) \in 1 .. k + 1 /\ x <= Max(s) /\ x # Max(s)
            BY <2>3, <5>1
          <6> QED
            BY <6>1
        <5> QED
          BY <5>2 DEF D
      <4>2. h[r] = Body(g, r) /\ g[r] = Body(g, r)
        BY <2>1, <4>1
      <4>3. h[s] = step[<<g[r], Max(s)>>] /\ Body(h, s) = step[<<h[r], Max(s)>>]
        BY <3>2
      <4> QED
        BY <4>2, <4>3
    <3> QED
      BY <3>1, <3>2
  <2> HIDE DEF Body, h, D
  <2>4. \E g_1 \in [D -> X] : \A s \in D : s \subseteq 1 .. k + 1 => g_1[s] = Body(g_1, s)
    BY <2>2, <2>3
  <2> QED
    BY <2>4
<1>4. n \in P
  <2> HIDE DEF P
  <2>1. Nat \subseteq P
    BY <1>2, <1>3, InductionOver
  <2> QED
    BY <2>1
<1>5. PICK g \in [D -> X] : \A s \in D : s \subseteq 1 .. n => g[s] = Body(g, s)
  BY <1>4
<1> QED
  BY <1>5 DEF IsFold

LEMMA FirstPositions ==
  ASSUME NEW n \in Nat, NEW k \in 1 .. n
  PROVE  /\ 1 .. k # {} /\ Max(1 .. k) = k /\ (1 .. k) \ {k} = 1 .. k - 1
         /\ 1 .. k \in SUBSET (1 .. n) /\ 1 .. k - 1 \in SUBSET (1 .. n)
<1>1. 1 .. k \in SUBSET (1 .. n) /\ k \in 1 .. k
  OBVIOUS
<1>2. Max(1 .. k) \in 1 .. k /\ \A x \in 1 .. k : x <= Max(1 .. k)
  BY <1>1, LastPosition
<1> QED
  BY <1>1, <1>2

\* The intermediate values of a fold.
IsRun(r, X, base, n, step) ==
  /\ r \in [0 .. n -> X] /\ r[0] = base
  /\ \A k \in 1 .. n : r[k] = step[<<r[k - 1], k>>]

LEMMA FoldRuns ==
  ASSUME NEW X, NEW base \in X, NEW n \in Nat, NEW step \in [X \X (1 .. n) -> X], NEW it,
         \A s \in SUBSET (1 .. n) :
           /\ s = {} => it[s] = base
           /\ s # {} /\ it[s \ {Max(s)}] \in X => it[s] = step[<<it[s \ {Max(s)}], Max(s)>>]
  PROVE  IsRun([k \in 0 .. n |-> it[1 .. k]], X, base, n, step)
<1>1. it[1 .. 0] = base
  <2>1. 1 .. 0 = {} /\ {} \in SUBSET (1 .. n)
    OBVIOUS
  <2> QED
    BY <2>1
<1>2. ASSUME NEW k \in 1 .. n, it[1 .. k - 1] \in X
      PROVE  it[1 .. k] = step[<<it[1 .. k - 1], k>>] /\ it[1 .. k] \in X
  <2>1. it[1 .. k] = step[<<it[1 .. k - 1], k>>]
    BY <1>2, FirstPositions
  <2> QED
    BY <1>2, <2>1
<1>3. ASSUME NEW k \in 0 .. n PROVE it[1 .. k] \in X
  <2> DEFINE P == {m \in Nat : m <= n => it[1 .. m] \in X}
  <2>1. 0 \in P
    BY <1>1
  <2>2. ASSUME NEW m \in Nat, m \in P PROVE m + 1 \in P
    <3>1. CASE m + 1 <= n
      <4>1. m + 1 \in 1 .. n /\ (m + 1) - 1 = m /\ it[1 .. m] \in X
        BY <2>2, <3>1
      <4>2. it[1 .. m + 1] \in X
        BY <1>2, <4>1
      <4> QED
        BY <4>2
    <3>2. CASE ~(m + 1 <= n)
      BY <3>2
    <3> QED
      BY <3>1, <3>2
  <2>3. k \in P
    <3> HIDE DEF P
    <3>1. Nat \subseteq P
      BY <2>1, <2>2, InductionOver
    <3> QED
      BY <3>1
  <2> QED
    BY <2>3
<1> DEFINE r == [k \in 0 .. n |-> it[1 .. k]]
<1>4. r \in [0 .. n -> X] /\ r[0] = base
  BY <1>1, <1>3
<1>5. ASSUME NEW k \in 1 .. n PROVE r[k] = step[<<r[k - 1], k>>]
  <2>1. k - 1 \in 0 .. n /\ k \in 0 .. n
    OBVIOUS
  <2> QED
    BY <1>2, <1>3, <2>1
<1> QED
  BY <1>4, <1>5 DEF IsRun

-----------------------------------------------------------------------------
(* Setting a parameter.                                                    *)

LEMMA OptionKinds ==
  ASSUME NEW o \in Options
  PROVE  /\ o \in Numeric \/ o = "user" \/ o = "bind" \/ o = "save" \/ o = "percentiles"
         /\ o \in Numeric => o # "user" /\ o # "bind" /\ o # "save" /\ o # "percentiles"
  BY DEF Options, Numeric

\* What a successful setting changes, for any parameter.
Assigned(r, o, text, v) ==
  /\ r.res \in {1, 2} /\ (r.res = 2 => v[o] = text)
  /\ r.values = [v EXCEPT ![o] = text]

LEMMA SetAssigns ==
  ASSUME NEW o \in Options, NEW text, NEW v \in Values, Fits(o, text)
  PROVE  Assigned(Set(o, text, v), o, text, v)
<1>1. Assigned(Changed(o, text, v), o, text, v)
  BY DEF Assigned, Changed, Result
<1>2. Assigned(Result(1, [v EXCEPT ![o] = text]), o, text, v)
  BY DEF Assigned, Result
<1>3. CASE o \in Numeric
  <2>1. Set(o, text, v) = Changed(o, text, v)
    BY <1>3, OptionKinds DEF Set, SetNumber, Fits
  <2> QED
    BY <1>1, <2>1
<1>4. CASE o = "user"
  <2>1. Set(o, text, v) = Changed(o, text, v)
    BY <1>4, OptionKinds DEF Set, SetString
  <2> QED
    BY <1>1, <2>1
<1>5. CASE o = "bind"
  <2>1. Set(o, text, v) = Result(1, [v EXCEPT ![o] = text])
    BY <1>5, OptionKinds DEF Set, SetBind, Fits
  <2> QED
    BY <1>2, <2>1
<1>6. CASE o = "save"
  <2>1. Set(o, text, v) = Result(1, [v EXCEPT ![o] = text])
    BY <1>6, OptionKinds DEF Set, SetSave, Fits
  <2> QED
    BY <1>2, <2>1
<1>7. CASE o = "percentiles"
  <2>1. Set(o, text, v) = Result(1, [v EXCEPT ![o] = text])
    BY <1>7, OptionKinds DEF Set, SetPercentiles, Fits
  <2> QED
    BY <1>2, <2>1
<1> QED
  BY <1>3, <1>4, <1>5, <1>6, <1>7, OptionKinds

\* A refusal loses at most the old percentiles.
LEMMA SetRefuses ==
  ASSUME NEW o \in Options, NEW text, NEW v \in Values, ~Fits(o, text)
  PROVE  /\ Set(o, text, v).res = 0
         /\ Set(o, text, v).values = v \/ Set(o, text, v).values = [v EXCEPT !.percentiles = << >>]
         /\ o # "percentiles" => Set(o, text, v).values = v
<1>1. CASE o \in Numeric
  <2>1. Set(o, text, v) = Result(0, v)
    BY <1>1, OptionKinds DEF Set, SetNumber, Fits
  <2> QED
    BY <2>1 DEF Result
<1>2. CASE o = "save"
  <2>1. Set(o, text, v) = Result(0, v)
    BY <1>2, OptionKinds DEF Set, SetSave, Fits
  <2> QED
    BY <2>1 DEF Result
<1>3. CASE o = "percentiles"
  <2>1. Set(o, text, v) = Result(0, [v EXCEPT !.percentiles = << >>])
    BY <1>3, OptionKinds DEF Set, SetPercentiles, Fits
  <2> QED
    BY <1>3, <2>1 DEF Result
<1>4. CASE o = "bind"
  <2>1. Set(o, text, v) = Result(0, v)
    BY <1>4, OptionKinds DEF Set, SetBind, Fits
  <2> QED
    BY <2>1 DEF Result
<1> QED
  BY <1>1, <1>2, <1>3, <1>4, OptionKinds DEF Fits

LEMMA AssignedIsValues ==
  ASSUME NEW o \in Options, NEW text \in Seq(Int), NEW v \in Values, Fits(o, text)
  PROVE  [v EXCEPT ![o] = text] \in Values
  BY DEF Values

LEMMA SetFacts ==
  ASSUME NEW o \in Options, NEW text \in Seq(Int), NEW v \in Values
  PROVE  LET r == Set(o, text, v)
         IN  /\ r.values \in Values
             /\ r.res \in {0, 1, 2} /\ (r.res # 0 <=> Fits(o, text))
             /\ \A q \in Options : q # o => r.values[q] = v[q]
             /\ r.res # 0 => r.values[o] = text
             /\ r.res = 2 => v[o] = text
<1> DEFINE r == Set(o, text, v)
<1>1. CASE Fits(o, text)
  <2>1. r.res \in {1, 2} /\ (r.res = 2 => v[o] = text) /\ r.values = [v EXCEPT ![o] = text]
    BY <1>1, SetAssigns DEF Assigned
  <2> HIDE DEF r
  <2>2. r.values \in Values
    BY <1>1, <2>1, AssignedIsValues
  <2>3. v \in [Options -> Seq(Int)]
    BY DEF Values
  <2>4. /\ \A q \in Options : q # o => r.values[q] = v[q]
        /\ r.values[o] = text
    BY <2>1, <2>3
  <2> QED
    BY <1>1, <2>1, <2>2, <2>4 DEF r
<1>2. CASE ~Fits(o, text)
  <2>1. /\ r.res = 0 /\ (r.values = v \/ r.values = [v EXCEPT !.percentiles = << >>])
        /\ o # "percentiles" => r.values = v
    BY <1>2, SetRefuses
  <2>2. [v EXCEPT !.percentiles = << >>] \in Values
    <3>1. << >> \in Seq(Int) /\ Fits("percentiles", << >>) /\ "percentiles" \in Options
      BY DEF Fits, Numeric, Legal, Options
    <3> QED
      BY <3>1, AssignedIsValues
  <2>3. v \in [Options -> Seq(Int)]
    BY DEF Values
  <2> HIDE DEF r
  <2>4. \A q \in Options : q # o => r.values[q] = v[q]
    BY <2>1, <2>3
  <2>5. r.values \in Values
    BY <2>1, <2>2
  <2> QED
    BY <1>2, <2>1, <2>4, <2>5 DEF r
<1> QED
  BY <1>1, <1>2

\* What is printed of a value can be set again.
LEMMA ShownFits ==
  ASSUME NEW o \in Options, NEW v \in Values
  PROVE  /\ Shown(o, v[o]) \in Seq(Int) /\ Fits(o, Shown(o, v[o]))
         /\ o # "percentiles" => Shown(o, v[o]) = v[o]
<1>1. v[o] \in Seq(Int) /\ Fits(o, v[o])
  BY DEF Values
<1>2. CASE o # "percentiles"
  BY <1>1, <1>2 DEF Shown
<1>3. CASE o = "percentiles"
  <2> DEFINE w == v[o]
  <2>1. w \in Seq(Int) /\ \A m \in DOMAIN w : w[m] \in Int /\ w[m] >= 0
    BY <1>1, <1>3 DEF Fits, Legal
  <2> HIDE DEF w
  <2>2. \A m \in DOMAIN w : w[m] - (w[m] % 10) \in Int /\ w[m] - (w[m] % 10) >= 0
    BY <2>1
  <2>3. Shown(o, w) = [m \in DOMAIN w |-> w[m] - (w[m] % 10)]
    BY <1>3 DEF Shown
  <2>4. /\ [m \in DOMAIN w |-> w[m] - (w[m] % 10)] \in Seq(Int)
        /\ Legal([m \in DOMAIN w |-> w[m] - (w[m] % 10)])
    BY <2>1, <2>2 DEF Legal
  <2>5. Shown(o, w) \in Seq(Int) /\ Fits(o, Shown(o, w))
    BY <1>3, <2>3, <2>4 DEF Fits, Numeric
  <2> QED
    BY <1>3, <2>5 DEF w
<1> QED
  BY <1>2, <1>3

-----------------------------------------------------------------------------
(* The rollback.                                                           *)

OptionAt(k) == OptionOf(set.request[k].name)

LEMMA RestoredRuns ==
  ASSUME NEW v \in Values, NEW count \in Nat,
         \A k \in 1 .. count : OptionAt(k) \in Options /\ set.old[k] \in Seq(Int)
  PROVE  \E r : /\ r \in [0 .. count -> Values] /\ r[0] = v
                /\ \A k \in 1 .. count : r[k] = Set(OptionAt(k), set.old[k], r[k - 1]).values
                /\ Restored(v, count) = r[count]
<1> DEFINE seq == [k \in 1 .. count |-> k]
           Op(w, k) == Set(OptionOf(set.request[k].name), set.old[k], w).values
           step == [p \in Values \X (1 .. count) |-> Op(p[1], p[2])]
           Eqn(f) == f = [s \in SUBSET (1 .. count) |->
                            IF s = {} THEN v ELSE Op(f[s \ {Max(s)}], seq[Max(s)])]
           it == CHOOSE f : Eqn(f)
<1>1. ASSUME NEW w \in Values, NEW k \in 1 .. count PROVE Op(w, k) \in Values
  BY SetFacts DEF OptionAt
<1>2. step \in [Values \X (1 .. count) -> Values]
  <2> HIDE DEF Op
  <2> QED
    BY <1>1
<1>3. PICK f : IsFold(f, Values, v, count, step)
  <2> HIDE DEF step
  <2> QED
    BY <1>2, FoldExists, Zenon
<1> HIDE DEF Op
<1>4. ASSUME NEW s \in SUBSET (1 .. count), s # {}
      PROVE  Max(s) \in 1 .. count /\ seq[Max(s)] = Max(s)
  <2>1. Max(s) \in s
    BY <1>4, LastPosition
  <2> QED
    BY <2>1
<1>5. Eqn(f)
  <2>1. ASSUME NEW s \in SUBSET (1 .. count), s # {}
        PROVE  f[s] = Op(f[s \ {Max(s)}], Max(s))
    <3>1. f[s \ {Max(s)}] \in Values /\ Max(s) \in 1 .. count
      BY <1>3, <1>4, <2>1 DEF IsFold
    <3> QED
      BY <1>3, <2>1, <3>1 DEF IsFold
  <2> HIDE DEF step, seq
  <2>2. \A s \in SUBSET (1 .. count) :
          f[s] = IF s = {} THEN v ELSE Op(f[s \ {Max(s)}], seq[Max(s)])
    BY <1>3, <1>4, <2>1 DEF IsFold
  <2>3. f \in [SUBSET (1 .. count) -> Values]
    BY <1>3 DEF IsFold
  <2> QED
    BY <2>2, <2>3
<1>6. Eqn(it)
  <2> HIDE DEF Eqn
  <2> QED
    BY <1>5
<1>7. Restored(v, count) = it[1 .. count]
  <2>1. DOMAIN seq = 1 .. count
    OBVIOUS
  <2> HIDE DEF seq
  <2> QED
    BY <2>1 DEF Restored, FoldLeft, MapThenFoldSet, Op, seq
<1> HIDE DEF it
<1> DEFINE r == [k \in 0 .. count |-> it[1 .. k]]
<1>8. IsRun(r, Values, v, count, step)
  <2>1. \A s \in SUBSET (1 .. count) :
          /\ s = {} => it[s] = v
          /\ s # {} /\ it[s \ {Max(s)}] \in Values => it[s] = step[<<it[s \ {Max(s)}], Max(s)>>]
    BY <1>4, <1>6
  <2> HIDE DEF step, Eqn
  <2> QED
    BY <1>2, <2>1, FoldRuns
<1>9. /\ r \in [0 .. count -> Values] /\ r[0] = v /\ r[count] = it[1 .. count]
      /\ \A k \in 1 .. count : r[k] = Op(r[k - 1], k)
  <2>1. r \in [0 .. count -> Values] /\ r[0] = v /\ \A k \in 1 .. count : r[k] = step[<<r[k - 1], k>>]
    BY <1>8 DEF IsRun
  <2>2. r[count] = it[1 .. count]
    OBVIOUS
  <2> HIDE DEF r
  <2>3. \A k \in 1 .. count : r[k - 1] \in Values
    BY <2>1
  <2> QED
    BY <2>1, <2>2, <2>3
<1> HIDE DEF r
<1> QED
  BY <1>7, <1>9 DEF Op, OptionAt

\* After the rollback a parameter of the first count has the value that its text stands for.
LEMMA RestoredFacts ==
  ASSUME NEW v \in Values, NEW count \in Nat, set.before \in Values,
         \A k \in 1 .. count : /\ OptionAt(k) \in Options
                               /\ set.old[k] = Shown(OptionAt(k), set.before[OptionAt(k)]),
         \A o \in Options : (\A k \in 1 .. count : OptionAt(k) # o) => v[o] = set.before[o]
  PROVE  /\ Restored(v, count) \in Values
         /\ \A o \in Options :
              \/ Restored(v, count)[o] = set.before[o]
              \/ (\E k \in 1 .. count : OptionAt(k) = o)
                 /\ Restored(v, count)[o] = Shown(o, set.before[o])
<1>1. ASSUME NEW k \in 1 .. count
      PROVE  set.old[k] \in Seq(Int) /\ Fits(OptionAt(k), set.old[k])
  BY ShownFits
<1>2. PICK r : /\ r \in [0 .. count -> Values] /\ r[0] = v
               /\ \A k \in 1 .. count : r[k] = Set(OptionAt(k), set.old[k], r[k - 1]).values
               /\ Restored(v, count) = r[count]
  BY <1>1, RestoredRuns, Zenon
<1> DEFINE At(m) == \A o \in Options :
             IF \E k \in 1 .. m : OptionAt(k) = o THEN r[m][o] = Shown(o, set.before[o])
             ELSE r[m][o] = v[o]
           P == {m \in Nat : m <= count => At(m)}
<1>3. 0 \in P
  <2>1. 1 .. 0 = {}
    OBVIOUS
  <2> QED
    BY <1>2, <2>1
<1>4. ASSUME NEW m \in Nat, m \in P PROVE m + 1 \in P
  <2> SUFFICES ASSUME m + 1 <= count PROVE At(m + 1)
    OBVIOUS
  <2>1. m + 1 \in 1 .. count /\ (m + 1) - 1 = m /\ m \in 0 .. count /\ m <= count
    OBVIOUS
  <2>2. At(m) /\ r[m] \in Values
    BY <1>2, <1>4, <2>1
  <2>3. OptionAt(m + 1) \in Options /\ r[m + 1] = Set(OptionAt(m + 1), set.old[m + 1], r[m]).values
    BY <1>2, <2>1
  <2>4. /\ r[m + 1][OptionAt(m + 1)] = set.old[m + 1]
        /\ \A o \in Options : o # OptionAt(m + 1) => r[m + 1][o] = r[m][o]
    <3>1. set.old[m + 1] \in Seq(Int) /\ Fits(OptionAt(m + 1), set.old[m + 1])
      BY <1>1, <2>1
    <3> QED
      BY <2>2, <2>3, <3>1, SetFacts
  <2>5. \A k \in 1 .. m + 1 : k = m + 1 \/ k \in 1 .. m
    OBVIOUS
  <2>6. \A k \in 1 .. m : k \in 1 .. m + 1
    OBVIOUS
  <2> HIDE DEF P
  <2> SUFFICES ASSUME NEW o \in Options
               PROVE  IF \E k \in 1 .. m + 1 : OptionAt(k) = o
                        THEN r[m + 1][o] = Shown(o, set.before[o]) ELSE r[m + 1][o] = v[o]
    OBVIOUS
  <2>7. CASE o = OptionAt(m + 1)
    <3>1. r[m + 1][o] = Shown(o, set.before[o])
      BY <2>1, <2>4, <2>7
    <3>2. \E k \in 1 .. m + 1 : OptionAt(k) = o
      BY <2>7
    <3> QED
      BY <3>1, <3>2
  <2>8. CASE o # OptionAt(m + 1)
    <3>1. (\E k \in 1 .. m + 1 : OptionAt(k) = o) <=> (\E k \in 1 .. m : OptionAt(k) = o)
      BY <2>5, <2>6, <2>8
    <3> QED
      BY <2>2, <2>4, <2>8, <3>1
  <2> QED
    BY <2>7, <2>8
<1>5. At(count)
  <2> HIDE DEF At
  <2>1. P \in SUBSET Nat
    OBVIOUS
  <2>2. Nat \subseteq P
    <3> HIDE DEF P
    <3> QED
      BY <1>3, <1>4, <2>1, InductionOver
  <2> QED
    BY <2>2
<1>6. Restored(v, count) \in Values
  BY <1>2
<1> QED
  BY <1>2, <1>5, <1>6

-----------------------------------------------------------------------------
(* Loading a file.                                                         *)

LoadStates == [ok : BOOLEAN, values : Values, reset : BOOLEAN, reading : BOOLEAN]

LineLoads(line) == line.kind = "option" => Fits(OptionOf(line.name), line.text)

LEMMA NamesOptions ==
  ASSUME NEW name \in Names
  PROVE  OptionOf(name) \in Options
  BY DEF Names, OptionOf, Options

LEMMA LoadSaveIsTyped ==
  ASSUME NEW l \in LoadStates, NEW text \in Seq(Int), Legal(text)
  PROVE  LoadSave(l, text) \in LoadStates /\ LoadSave(l, text).ok = l.ok
<1> DEFINE v == l.values
           new == IF l.reading /\ l.reset /\ text # << >> THEN v.save \o text ELSE text
           w == [v EXCEPT !.save = new]
<1>1. v \in Values
  BY DEF LoadStates
<1>2. v.save \in Seq(Int) /\ Legal(v.save)
  <2> HIDE DEF v
  <2> QED
    BY <1>1 DEF Values, Fits, Options
<1>3. v.save \o text \in Seq(Int) /\ Legal(v.save \o text)
  <2> DEFINE a == v.save
  <2>0. a \in Seq(Int) /\ \A i \in DOMAIN a : a[i] >= 0
    BY <1>2 DEF Legal
  <2> HIDE DEF a
  <2>1. \A i \in DOMAIN text : text[i] >= 0
    BY DEF Legal
  <2>2. a \o text \in Seq(Int)
    BY <2>0
  <2>3. \A i \in DOMAIN (a \o text) : (a \o text)[i] >= 0
    BY <2>0, <2>1
  <2> QED
    BY <2>2, <2>3 DEF Legal, a
<1>4. new \in Seq(Int) /\ Legal(new)
  BY <1>3
<1>5. w \in Values
  <2> HIDE DEF new, v
  <2>1. "save" \in Options /\ Fits("save", new)
    BY <1>4 DEF Options, Fits, Numeric
  <2> QED
    BY <1>1, <1>4, <2>1, AssignedIsValues
<1>6. LoadSave(l, text) = [l EXCEPT !.values = w, !.reset = l.reset \/ l.reading]
  BY DEF LoadSave, LoadStates
<1> HIDE DEF w
<1> QED
  BY <1>5, <1>6 DEF LoadStates

LEMMA LoadLineFacts ==
  ASSUME NEW l \in LoadStates, NEW line \in FileLines
  PROVE  /\ LoadLine(l, line) \in LoadStates
         /\ LoadLine(l, line).ok <=> l.ok /\ LineLoads(line)
<1>1. CASE line.kind # "option" \/ ~l.ok
  <2>1. LoadLine(l, line) = l
    BY <1>1 DEF LoadLine
  <2> QED
    BY <1>1, <2>1 DEF LineLoads
<1>2. CASE line.kind = "option" /\ l.ok
  <2> DEFINE o == OptionOf(line.name)
             r == Set(o, line.text, l.values)
  <2>1. o \in Options /\ line.text \in Seq(Int) /\ l.values \in Values
    BY <1>2, NamesOptions DEF FileLines, LoadStates
  <2>2. r.values \in Values /\ (r.res # 0 <=> Fits(o, line.text))
    BY <2>1, SetFacts
  <2>3. LoadLine(l, line) = IF r.res = 0 THEN [l EXCEPT !.ok = FALSE]
                            ELSE IF o = "save" THEN LoadSave(l, line.text)
                            ELSE [l EXCEPT !.values = r.values]
    BY <1>2 DEF LoadLine
  <2> HIDE DEF r
  <2>4. CASE r.res = 0
    BY <1>2, <2>2, <2>3, <2>4 DEF LoadStates, LineLoads
  <2>5. CASE r.res # 0 /\ o = "save"
    <3>1. Legal(line.text)
      BY <2>2, <2>5 DEF Fits
    <3>2. LoadLine(l, line) = LoadSave(l, line.text)
      BY <2>3, <2>5
    <3> QED
      BY <1>2, <2>1, <2>2, <2>5, <3>1, <3>2, LoadSaveIsTyped DEF LineLoads
  <2>6. CASE r.res # 0 /\ o # "save"
    <3>1. LoadLine(l, line) = [l EXCEPT !.values = r.values]
      BY <2>3, <2>6
    <3> QED
      BY <1>2, <2>2, <2>6, <3>1 DEF LoadStates, LineLoads
  <2> QED
    BY <2>4, <2>5, <2>6
<1> QED
  BY <1>1, <1>2

LEMMA PlainRuns ==
  ASSUME NEW l \in LoadStates, NEW lines \in Seq(FileLines)
  PROVE  \E r : /\ r \in [0 .. Len(lines) -> LoadStates] /\ r[0] = l
                /\ \A k \in 1 .. Len(lines) : r[k] = LoadLine(r[k - 1], lines[k])
                /\ FoldLeft(LoadLine, l, lines) = r[Len(lines)]
<1> DEFINE n == Len(lines)
           seq == lines
           Op(w, k) == LoadLine(w, lines[k])
           step == [p \in LoadStates \X (1 .. n) |-> Op(p[1], p[2])]
           Eqn(f) == f = [s \in SUBSET (1 .. n) |->
                            IF s = {} THEN l ELSE LoadLine(f[s \ {Max(s)}], seq[Max(s)])]
           it == CHOOSE f : Eqn(f)
<1>0. n \in Nat /\ l \in LoadStates
  OBVIOUS
<1>1. ASSUME NEW w \in LoadStates, NEW k \in 1 .. n PROVE Op(w, k) \in LoadStates
  BY LoadLineFacts
<1> HIDE DEF n, Op
<1>2. step \in [LoadStates \X (1 .. n) -> LoadStates]
  BY <1>1
<1>3. PICK f : IsFold(f, LoadStates, l, n, step)
  <2> HIDE DEF step
  <2> QED
    BY <1>0, <1>2, FoldExists, Zenon
<1>4. ASSUME NEW s \in SUBSET (1 .. n), s # {}
      PROVE  Max(s) \in 1 .. n
  <2>1. Max(s) \in s
    BY <1>0, <1>4, LastPosition
  <2> QED
    BY <2>1
<1>5. ASSUME NEW g, NEW s \in SUBSET (1 .. n), s # {}
      PROVE  LoadLine(g[s \ {Max(s)}], seq[Max(s)]) = Op(g[s \ {Max(s)}], Max(s))
  BY DEF Op
<1>6. Eqn(f)
  <2>1. ASSUME NEW s \in SUBSET (1 .. n), s # {}
        PROVE  f[s] = Op(f[s \ {Max(s)}], Max(s))
    <3>1. f[s \ {Max(s)}] \in LoadStates /\ Max(s) \in 1 .. n
      BY <1>3, <1>4, <2>1 DEF IsFold
    <3> QED
      BY <1>3, <2>1, <3>1 DEF IsFold
  <2> HIDE DEF step, seq
  <2>2. \A s \in SUBSET (1 .. n) : f[s] = IF s = {} THEN l ELSE LoadLine(f[s \ {Max(s)}], seq[Max(s)])
    BY <1>3, <1>5, <2>1 DEF IsFold
  <2>3. f \in [SUBSET (1 .. n) -> LoadStates]
    BY <1>3 DEF IsFold
  <2> QED
    BY <2>2, <2>3
<1>7. Eqn(it)
  <2> HIDE DEF Eqn
  <2> QED
    BY <1>6
<1>8. FoldLeft(LoadLine, l, lines) = it[1 .. n]
  <2>1. DOMAIN seq = 1 .. n
    BY DEF n
  <2> HIDE DEF seq
  <2> QED
    BY <2>1 DEF FoldLeft, MapThenFoldSet, seq
<1> HIDE DEF it
<1> DEFINE r == [k \in 0 .. n |-> it[1 .. k]]
<1>9. IsRun(r, LoadStates, l, n, step)
  <2>1. \A s \in SUBSET (1 .. n) :
          /\ s = {} => it[s] = l
          /\ s # {} /\ it[s \ {Max(s)}] \in LoadStates => it[s] = step[<<it[s \ {Max(s)}], Max(s)>>]
    BY <1>4, <1>5, <1>7
  <2> HIDE DEF step, Eqn
  <2> QED
    BY <1>0, <1>2, <2>1, FoldRuns
<1>10. /\ r \in [0 .. n -> LoadStates] /\ r[0] = l /\ r[n] = it[1 .. n]
       /\ \A k \in 1 .. n : r[k] = Op(r[k - 1], k)
  <2>1. r \in [0 .. n -> LoadStates] /\ r[0] = l /\ \A k \in 1 .. n : r[k] = step[<<r[k - 1], k>>]
    BY <1>9 DEF IsRun
  <2>2. r[n] = it[1 .. n]
    BY <1>0
  <2> HIDE DEF r
  <2>3. \A k \in 1 .. n : r[k - 1] \in LoadStates
    BY <1>0, <2>1
  <2> QED
    BY <2>1, <2>2, <2>3
<1> HIDE DEF r
<1> QED
  BY <1>8, <1>10 DEF n, Op

\* What holds at the end of a run when every position adds a condition.
LEMMA EveryPosition ==
  ASSUME NEW n \in Nat, NEW r, NEW G,
         \A k \in 1 .. n : r[k] <=> r[k - 1] /\ k \in G
  PROVE  r[n] <=> r[0] /\ \A k \in 1 .. n : k \in G
<1> DEFINE P == {m \in Nat : m <= n => (r[m] <=> r[0] /\ \A k \in 1 .. m : k \in G)}
<1>1. 0 \in P
  <2>1. 1 .. 0 = {}
    OBVIOUS
  <2> QED
    BY <2>1
<1>2. ASSUME NEW m \in Nat, m \in P PROVE m + 1 \in P
  <2> SUFFICES ASSUME m + 1 <= n PROVE r[m + 1] <=> r[0] /\ \A k \in 1 .. m + 1 : k \in G
    OBVIOUS
  <2>1. m + 1 \in 1 .. n /\ (m + 1) - 1 = m /\ m <= n
    OBVIOUS
  <2>2. \A k \in 1 .. m + 1 : k = m + 1 \/ k \in 1 .. m
    OBVIOUS
  <2>3. \A k \in 1 .. m : k \in 1 .. m + 1
    OBVIOUS
  <2>4. m + 1 \in 1 .. m + 1
    OBVIOUS
  <2> QED
    BY <1>2, <2>1, <2>2, <2>3, <2>4
<1>3. n \in P
  <2> HIDE DEF P
  <2>1. Nat \subseteq P
    BY <1>1, <1>2, InductionOver
  <2> QED
    BY <2>1
<1> QED
  BY <1>3

LEMMA LoadPlainFacts ==
  ASSUME NEW l \in LoadStates, NEW lines \in Seq(FileLines)
  PROVE  /\ LoadPlain(l, lines) \in LoadStates
         /\ LoadPlain(l, lines).ok <=> l.ok /\ \A k \in 1 .. Len(lines) : LineLoads(lines[k])
<1> DEFINE first == [l EXCEPT !.reading = TRUE]
           n == Len(lines)
<1>1. first \in LoadStates /\ first.ok = l.ok
  BY DEF LoadStates
<1> HIDE DEF first
<1>2. PICK r : /\ r \in [0 .. n -> LoadStates] /\ r[0] = first
               /\ \A k \in 1 .. n : r[k] = LoadLine(r[k - 1], lines[k])
               /\ FoldLeft(LoadLine, first, lines) = r[n]
  BY <1>1, PlainRuns, Zenon
<1> DEFINE fold == FoldLeft(LoadLine, first, lines)
           ok == [k \in 0 .. n |-> r[k].ok]
           G == {k \in 1 .. n : LineLoads(lines[k])}
<1>3. n \in Nat /\ \A k \in 1 .. n : k \in 0 .. n /\ k - 1 \in 0 .. n /\ lines[k] \in FileLines
  OBVIOUS
<1>4. ASSUME NEW k \in 1 .. n PROVE r[k].ok <=> r[k - 1].ok /\ LineLoads(lines[k])
  <2>1. r[k - 1] \in LoadStates /\ lines[k] \in FileLines /\ r[k] = LoadLine(r[k - 1], lines[k])
    BY <1>2, <1>3
  <2> QED
    BY <2>1, LoadLineFacts
<1>5. ok[n] <=> ok[0] /\ \A k \in 1 .. n : k \in G
  <2> HIDE DEF n
  <2>1. \A k \in 1 .. n : ok[k] <=> ok[k - 1] /\ k \in G
    BY <1>3, <1>4
  <2> HIDE DEF ok, G
  <2> QED
    BY <1>3, <2>1, EveryPosition
<1>6. fold = r[n] /\ r[n] \in LoadStates
  BY <1>2, <1>3
<1>7. LoadPlain(l, lines) = [fold EXCEPT !.reading = FALSE]
  BY DEF LoadPlain, first
<1> HIDE DEF fold
<1>8. /\ LoadPlain(l, lines) \in LoadStates
      /\ LoadPlain(l, lines).ok = r[n].ok
  BY <1>6, <1>7 DEF LoadStates
<1>9. r[n].ok <=> l.ok /\ \A k \in 1 .. n : LineLoads(lines[k])
  <2> HIDE DEF n
  <2> QED
    BY <1>1, <1>2, <1>3, <1>5
<1> QED
  BY <1>8, <1>9

\* A line of a file that may include another.
LoadAny(l, line) == IF line.kind = "include" THEN LoadPlain(l, Included) ELSE LoadLine(l, line)
GoodLine(line) ==
  LineLoads(line) /\ (line.kind = "include" => \A k \in DOMAIN Included : LineLoads(Included[k]))
GoodLines == {line \in FileLines : GoodLine(line)}

LEMMA LoadAnyFacts ==
  ASSUME NEW l \in LoadStates, NEW line \in FileLines
  PROVE  /\ LoadAny(l, line) \in LoadStates
         /\ LoadAny(l, line).ok <=> l.ok /\ GoodLine(line)
<1>1. CASE line.kind = "include"
  <2>1. LoadAny(l, line) = LoadPlain(l, Included) /\ LineLoads(line)
    BY <1>1 DEF LoadAny, LineLoads
  <2>2. Included \in Seq(FileLines) /\ DOMAIN Included = 1 .. Len(Included)
    BY FilesAssumption
  <2> QED
    BY <1>1, <2>1, <2>2, LoadPlainFacts DEF GoodLine
<1>2. CASE line.kind # "include"
  BY <1>2, LoadLineFacts DEF LoadAny, GoodLine
<1> QED
  BY <1>1, <1>2

FirstLoad == [ok |-> TRUE, values |-> Default, reset |-> FALSE, reading |-> TRUE]

LEMMA LoadRuns ==
  ASSUME NEW lines \in Seq(FileLines)
  PROVE  \E r : /\ r \in [0 .. Len(lines) -> LoadStates] /\ r[0] = FirstLoad
                /\ \A k \in 1 .. Len(lines) : r[k] = LoadAny(r[k - 1], lines[k])
                /\ Load(lines) = r[Len(lines)]
<1> DEFINE n == Len(lines)
           seq == lines
           Op(w, k) == LoadAny(w, lines[k])
           step == [p \in LoadStates \X (1 .. n) |-> Op(p[1], p[2])]
           Eqn(f) == f = [s \in SUBSET (1 .. n) |->
                            IF s = {} THEN FirstLoad ELSE LoadAny(f[s \ {Max(s)}], seq[Max(s)])]
           it == CHOOSE f : Eqn(f)
<1>0. n \in Nat /\ FirstLoad \in LoadStates
  BY ValuesAssumption DEF FirstLoad, LoadStates
<1>1. ASSUME NEW w \in LoadStates, NEW k \in 1 .. n PROVE Op(w, k) \in LoadStates
  BY LoadAnyFacts
<1> HIDE DEF n, Op
<1>2. step \in [LoadStates \X (1 .. n) -> LoadStates]
  BY <1>1
<1>3. PICK f : IsFold(f, LoadStates, FirstLoad, n, step)
  <2> HIDE DEF step
  <2> QED
    BY <1>0, <1>2, FoldExists, Zenon
<1>4. ASSUME NEW s \in SUBSET (1 .. n), s # {}
      PROVE  Max(s) \in 1 .. n
  <2>1. Max(s) \in s
    BY <1>0, <1>4, LastPosition
  <2> QED
    BY <2>1
<1>5. ASSUME NEW g, NEW s \in SUBSET (1 .. n), s # {}
      PROVE  LoadAny(g[s \ {Max(s)}], seq[Max(s)]) = Op(g[s \ {Max(s)}], Max(s))
  BY DEF Op
<1>6. Eqn(f)
  <2>1. ASSUME NEW s \in SUBSET (1 .. n), s # {}
        PROVE  f[s] = Op(f[s \ {Max(s)}], Max(s))
    <3>1. f[s \ {Max(s)}] \in LoadStates /\ Max(s) \in 1 .. n
      BY <1>3, <1>4, <2>1 DEF IsFold
    <3> QED
      BY <1>3, <2>1, <3>1 DEF IsFold
  <2> HIDE DEF step, seq
  <2>2. \A s \in SUBSET (1 .. n) : f[s] = IF s = {} THEN FirstLoad ELSE LoadAny(f[s \ {Max(s)}], seq[Max(s)])
    BY <1>3, <1>5, <2>1 DEF IsFold
  <2>3. f \in [SUBSET (1 .. n) -> LoadStates]
    BY <1>3 DEF IsFold
  <2> QED
    BY <2>2, <2>3
<1>7. Eqn(it)
  <2> HIDE DEF Eqn
  <2> QED
    BY <1>6
<1>8. Load(lines) = it[1 .. n]
  <2>1. DOMAIN seq = 1 .. n
    BY DEF n
  <2> HIDE DEF seq
  <2> QED
    BY <2>1 DEF Load, FoldLeft, MapThenFoldSet, LoadAny, FirstLoad, seq
<1> HIDE DEF it
<1> DEFINE r == [k \in 0 .. n |-> it[1 .. k]]
<1>9. IsRun(r, LoadStates, FirstLoad, n, step)
  <2>1. \A s \in SUBSET (1 .. n) :
          /\ s = {} => it[s] = FirstLoad
          /\ s # {} /\ it[s \ {Max(s)}] \in LoadStates => it[s] = step[<<it[s \ {Max(s)}], Max(s)>>]
    BY <1>4, <1>5, <1>7
  <2> HIDE DEF step, Eqn
  <2> QED
    BY <1>0, <1>2, <2>1, FoldRuns
<1>10. /\ r \in [0 .. n -> LoadStates] /\ r[0] = FirstLoad /\ r[n] = it[1 .. n]
       /\ \A k \in 1 .. n : r[k] = Op(r[k - 1], k)
  <2>1. r \in [0 .. n -> LoadStates] /\ r[0] = FirstLoad /\ \A k \in 1 .. n : r[k] = step[<<r[k - 1], k>>]
    BY <1>9 DEF IsRun
  <2>2. r[n] = it[1 .. n]
    BY <1>0
  <2> HIDE DEF r
  <2>3. \A k \in 1 .. n : r[k - 1] \in LoadStates
    BY <1>0, <2>1
  <2> QED
    BY <2>1, <2>2, <2>3
<1> HIDE DEF r
<1> QED
  BY <1>8, <1>10 DEF n, Op

\* The server starts from exactly the files whose lines are good.
LEMMA LoadFacts ==
  ASSUME NEW lines \in Seq(FileLines)
  PROVE  /\ Load(lines).values \in Values
         /\ Load(lines).ok <=> lines \in Seq(GoodLines)
<1> DEFINE n == Len(lines)
<1>1. PICK r : /\ r \in [0 .. n -> LoadStates] /\ r[0] = FirstLoad
               /\ \A k \in 1 .. n : r[k] = LoadAny(r[k - 1], lines[k])
               /\ Load(lines) = r[n]
  BY LoadRuns, Zenon
<1> DEFINE ok == [k \in 0 .. n |-> r[k].ok]
           G == {k \in 1 .. n : GoodLine(lines[k])}
<1>2. n \in Nat /\ \A k \in 1 .. n : k \in 0 .. n /\ k - 1 \in 0 .. n /\ lines[k] \in FileLines
  OBVIOUS
<1>3. ASSUME NEW k \in 1 .. n PROVE r[k].ok <=> r[k - 1].ok /\ GoodLine(lines[k])
  <2>1. r[k - 1] \in LoadStates /\ lines[k] \in FileLines /\ r[k] = LoadAny(r[k - 1], lines[k])
    BY <1>1, <1>2
  <2> QED
    BY <2>1, LoadAnyFacts
<1>4. ok[n] <=> ok[0] /\ \A k \in 1 .. n : k \in G
  <2> HIDE DEF n
  <2>1. \A k \in 1 .. n : ok[k] <=> ok[k - 1] /\ k \in G
    BY <1>2, <1>3
  <2> HIDE DEF ok, G
  <2> QED
    BY <1>2, <2>1, EveryPosition
<1>5. ok[0]
  BY <1>1, <1>2 DEF FirstLoad
<1>6. Load(lines).ok <=> \A k \in 1 .. n : GoodLine(lines[k])
  <2> HIDE DEF n
  <2> QED
    BY <1>1, <1>2, <1>4, <1>5
<1>7. lines \in Seq(GoodLines) <=> \A k \in 1 .. n : GoodLine(lines[k])
  <2>1. lines \in Seq(GoodLines) <=> \A k \in 1 .. n : lines[k] \in GoodLines
    OBVIOUS
  <2> HIDE DEF n
  <2> QED
    BY <1>2, <2>1 DEF GoodLines
<1>8. Load(lines) \in LoadStates
  BY <1>1, <1>2
<1> QED
  BY <1>6, <1>7, <1>8 DEF LoadStates

-----------------------------------------------------------------------------
(* The invariant of CONFIG SET: what each step of the command relies on.   *)

Listeners == {"updatePort", "applyBind"}
Fns == Listeners \cup {"updateMaxclients"}
Pending == ToSet(set.fns)
Done(fns) == \E k \in 1 .. set.i - 1 : set.fns[k] \in fns

SetRecords ==
  [pc : {"idle", "set", "apply", "restore", "reapply"}, reply : {"none", "ok", "error", "refused"},
   request : Seq([name : STRING, text : Seq(Int)]), old : Seq(Seq(Int)),
   before : Values \cup {<< >>}, fns : Seq(Fns), i : Nat]

SetTypes ==
  /\ values \in Values /\ capacity \in Nat /\ up \in BOOLEAN /\ broken \subseteq Fns
  /\ set \in SetRecords /\ set.i >= 1 /\ set.i <= Len(set.request) + 1
  /\ ~up => set = NoSet

\* The old values as text, and the apply functions, each once and for a parameter of the request.
BackedUp ==
  set.pc # "idle" =>
    /\ ~Refused(set.request) /\ set.before \in Values /\ Len(set.old) = Len(set.request)
    /\ \A k \in DOMAIN set.request : set.old[k] = Shown(OptionAt(k), set.before[OptionAt(k)])
    /\ \A fn \in Pending : \E k \in DOMAIN set.request : ApplyFn(OptionAt(k)) = <<fn>>
    /\ \A j, k \in DOMAIN set.fns : set.fns[j] = set.fns[k] => j = k
    /\ Len(set.fns) <= Len(set.request)

\* v has the text of the last of the first m that set it, and the old value if none did.
SetTo(v, m) ==
  /\ \A o \in Options : (\A k \in 1 .. m : OptionAt(k) # o) => v[o] = set.before[o]
  /\ \A k \in 1 .. m : (\A j \in k + 1 .. m : OptionAt(j) # OptionAt(k)) =>
       v[OptionAt(k)] = set.request[k].text

\* What has changed and is applied by a function has it in the list.
Remembered ==
  \A o \in Options : \A fn \in Fns : ApplyFn(o) = <<fn>> /\ fn \notin Pending =>
    values[o] = set.before[o]

ListensAs(v) == broken \cap Listeners = {} => listener = <<v.port, v.bind>>
HasRoomFor(v) == capacity >= v.maxclients[1]

\* Every parameter is rolled back, or failed again.
RolledBack(failed) ==
  \A o \in Options :
    \/ values[o] = set.before[o]
    \/ Asked(o) # {} /\ values[o] = Shown(o, set.before[o])
    \/ o = "maxclients" /\ failed

WhileSetting ==
  set.pc = "set" =>
    /\ Len(set.fns) < set.i
    /\ SetTo(values, set.i - 1) /\ Remembered
    /\ ListensAs(set.before) /\ HasRoomFor(set.before)

WhileApplying ==
  set.pc = "apply" =>
    /\ set.i <= Len(set.fns) + 1
    /\ SetTo(values, Len(set.request)) /\ Remembered
    /\ IF Done(Listeners) THEN ListensAs(values) ELSE ListensAs(set.before)
    /\ HasRoomFor(set.before) /\ (Done({"updateMaxclients"}) => HasRoomFor(values))

WhileRestoring ==
  set.pc = "restore" =>
    /\ \A o \in Options : Asked(o) = {} => values[o] = set.before[o]
    /\ Pending \cap Listeners = {} => ListensAs(set.before)
    /\ HasRoomFor(set.before)

WhileReapplying ==
  set.pc = "reapply" =>
    /\ set.i <= Len(set.fns) + 1
    /\ RolledBack(/\ "updateMaxclients" \in broken
                  /\ \A k \in set.i .. Len(set.fns) : set.fns[k] # "updateMaxclients")
    /\ Done(Listeners) \/ Pending \cap Listeners = {} => ListensAs(values)
    /\ HasRoomFor(values)

SetInv == /\ SetTypes /\ BackedUp
          /\ WhileSetting /\ WhileApplying /\ WhileRestoring /\ WhileReapplying
          /\ AllOrNothing /\ Applied

(* The invariant of the file: every line of it is one that loads.          *)

FileInv ==
  /\ {file, disk} \subseteq [lines : Seq(GoodLines), synced : {TRUE}]
  /\ rewrite \in [pc : {"idle", "write", "rename", "syncdir"}, content : Seq(GoodLines),
                  of : Values, synced : BOOLEAN]
  /\ rewrite.pc = "rename" => rewrite.synced
  /\ saved \in Seq(Values) /\ Len(saved) <= 1

ConfigInv == SetInv /\ FileInv

-----------------------------------------------------------------------------
(* Rewriting: whatever it does to a good file, it leaves a good one.       *)

RewriteStates == [lines : Seq(GoodLines), at : [Options -> SUBSET Nat], processed : SUBSET Options,
                  signed : BOOLEAN]

LEMMA PlainLinesAreGood ==
  /\ Blank \in GoodLines /\ Signature \in GoodLines
  /\ \A name \in LineNames : Comment(name) \in GoodLines
<1>1. ASSUME NEW kind \in {"blank", "signature", "comment"}, NEW name \in LineNames,
             NEW text \in Seq(Int)
      PROVE  Line(kind, name, text) \in GoodLines
  BY <1>1 DEF Line, GoodLines, GoodLine, FileLines, LineLoads
<1>2. << >> \in Seq(Int) /\ "" \in LineNames
  BY DEF LineNames
<1> QED
  BY <1>1, <1>2 DEF Blank, Signature, Comment

LEMMA OptionLinesAreGood ==
  ASSUME NEW o \in Options, NEW text \in Seq(Int), Fits(o, text)
  PROVE  OptionLine(o, text) \in GoodLines
<1>1. o # "slave-priority"
  BY DEF Options
<1>2. o \in Names /\ o \in LineNames /\ OptionOf(o) = o
  BY <1>1 DEF Names, LineNames, OptionOf
<1> QED
  BY <1>1, <1>2 DEF OptionLine, Line, GoodLines, GoodLine, FileLines, LineLoads

LEMMA KnownLineIsGood ==
  ASSUME NEW line \in GoodLines
  PROVE  (IF line.kind = "deprecated" THEN Comment(line.name) ELSE line) \in GoodLines
  BY PlainLinesAreGood DEF GoodLines, FileLines

AddKnown(lines, line) == Append(lines, IF line.kind = "deprecated" THEN Comment(line.name) ELSE line)

LEMMA KnownRuns ==
  ASSUME NEW text \in Seq(GoodLines)
  PROVE  \E r : /\ r \in [0 .. Len(text) -> Seq(GoodLines)] /\ r[0] = << >>
                /\ \A k \in 1 .. Len(text) : r[k] = AddKnown(r[k - 1], text[k])
                /\ Known(text) = r[Len(text)]
<1> DEFINE n == Len(text)
           seq == text
           Op(w, k) == AddKnown(w, text[k])
           step == [p \in Seq(GoodLines) \X (1 .. n) |-> Op(p[1], p[2])]
           Eqn(f) == f = [s \in SUBSET (1 .. n) |->
                            IF s = {} THEN << >> ELSE AddKnown(f[s \ {Max(s)}], seq[Max(s)])]
           it == CHOOSE f : Eqn(f)
<1>0. n \in Nat /\ << >> \in Seq(GoodLines)
  OBVIOUS
<1>1. ASSUME NEW w \in Seq(GoodLines), NEW k \in 1 .. n PROVE Op(w, k) \in Seq(GoodLines)
  BY KnownLineIsGood DEF AddKnown
<1> HIDE DEF n, Op
<1>2. step \in [Seq(GoodLines) \X (1 .. n) -> Seq(GoodLines)]
  BY <1>1
<1>3. PICK f : IsFold(f, Seq(GoodLines), << >>, n, step)
  <2> HIDE DEF step
  <2> QED
    BY <1>0, <1>2, FoldExists, Zenon
<1>4. ASSUME NEW s \in SUBSET (1 .. n), s # {}
      PROVE  Max(s) \in 1 .. n
  <2>1. Max(s) \in s
    BY <1>0, <1>4, LastPosition
  <2> QED
    BY <2>1
<1>5. ASSUME NEW g, NEW s \in SUBSET (1 .. n), s # {}
      PROVE  AddKnown(g[s \ {Max(s)}], seq[Max(s)]) = Op(g[s \ {Max(s)}], Max(s))
  BY DEF Op
<1>6. Eqn(f)
  <2>1. ASSUME NEW s \in SUBSET (1 .. n), s # {}
        PROVE  f[s] = Op(f[s \ {Max(s)}], Max(s))
    <3>1. f[s \ {Max(s)}] \in Seq(GoodLines) /\ Max(s) \in 1 .. n
      BY <1>3, <1>4, <2>1 DEF IsFold
    <3> QED
      BY <1>3, <2>1, <3>1 DEF IsFold
  <2> HIDE DEF step, seq
  <2>2. \A s \in SUBSET (1 .. n) : f[s] = IF s = {} THEN << >> ELSE AddKnown(f[s \ {Max(s)}], seq[Max(s)])
    BY <1>3, <1>5, <2>1 DEF IsFold
  <2>3. f \in [SUBSET (1 .. n) -> Seq(GoodLines)]
    BY <1>3 DEF IsFold
  <2> QED
    BY <2>2, <2>3
<1>7. Eqn(it)
  <2> HIDE DEF Eqn
  <2> QED
    BY <1>6
<1>8. Known(text) = it[1 .. n]
  <2>1. DOMAIN seq = 1 .. n
    BY DEF n
  <2> HIDE DEF seq
  <2> QED
    BY <2>1 DEF Known, FoldLeft, MapThenFoldSet, AddKnown, seq
<1> HIDE DEF it
<1> DEFINE r == [k \in 0 .. n |-> it[1 .. k]]
<1>9. IsRun(r, Seq(GoodLines), << >>, n, step)
  <2>1. \A s \in SUBSET (1 .. n) :
          /\ s = {} => it[s] = << >>
          /\ s # {} /\ it[s \ {Max(s)}] \in Seq(GoodLines) => it[s] = step[<<it[s \ {Max(s)}], Max(s)>>]
    BY <1>4, <1>5, <1>7
  <2> HIDE DEF step, Eqn
  <2> QED
    BY <1>0, <1>2, <2>1, FoldRuns
<1>10. /\ r \in [0 .. n -> Seq(GoodLines)] /\ r[0] = << >> /\ r[n] = it[1 .. n]
       /\ \A k \in 1 .. n : r[k] = Op(r[k - 1], k)
  <2>1. r \in [0 .. n -> Seq(GoodLines)] /\ r[0] = << >> /\ \A k \in 1 .. n : r[k] = step[<<r[k - 1], k>>]
    BY <1>9 DEF IsRun
  <2>2. r[n] = it[1 .. n]
    BY <1>0
  <2> HIDE DEF r
  <2>3. \A k \in 1 .. n : r[k - 1] \in Seq(GoodLines)
    BY <1>0, <2>1
  <2> QED
    BY <2>1, <2>2, <2>3
<1> HIDE DEF r
<1> QED
  BY <1>8, <1>10 DEF n, Op

LEMMA KnownIsGood ==
  ASSUME NEW text \in Seq(GoodLines)
  PROVE  Known(text) \in Seq(GoodLines)
<1>1. PICK r : /\ r \in [0 .. Len(text) -> Seq(GoodLines)] /\ r[0] = << >>
               /\ \A k \in 1 .. Len(text) : r[k] = AddKnown(r[k - 1], text[k])
               /\ Known(text) = r[Len(text)]
  BY KnownRuns, Zenon
<1>2. Len(text) \in 0 .. Len(text)
  OBVIOUS
<1> QED
  BY <1>1, <1>2

LEMMA ReadOldFileIsTyped ==
  ASSUME NEW lines \in Seq(GoodLines)
  PROVE  ReadOldFile(lines) \in RewriteStates
<1> DEFINE text == IF lines = << >> THEN << >> ELSE Append(lines, Blank)
<1>1. text \in Seq(GoodLines)
  BY PlainLinesAreGood
<1>2. DOMAIN text \subseteq Nat
  BY <1>1
<1>3. ReadOldFile(lines) =
        [lines |-> Known(text), at |-> [o \in Options |-> LineNumbers(o, text)], processed |-> {},
         signed |-> \E i \in DOMAIN text : text[i] = Signature]
  BY DEF ReadOldFile
<1> HIDE DEF text
<1>4. [o \in Options |-> LineNumbers(o, text)] \in [Options -> SUBSET Nat]
  BY <1>2 DEF LineNumbers
<1>5. Known(text) \in Seq(GoodLines)
  BY <1>1, KnownIsGood
<1> QED
  BY <1>3, <1>4, <1>5 DEF RewriteStates

LEMMA RewriteLineIsTyped ==
  ASSUME NEW s \in RewriteStates, NEW o \in Options, NEW text \in Seq(Int), Fits(o, text),
         NEW force \in BOOLEAN
  PROVE  RewriteLine(s, o, text, force) \in RewriteStates
<1> DEFINE line == OptionLine(o, text)
           first == Min(s.at[o])
           lines == s.lines
           at == s.at
           processed == s.processed \cup {o}
<1>1. line \in GoodLines /\ Signature \in GoodLines
  BY OptionLinesAreGood, PlainLinesAreGood
<1>2. lines \in Seq(GoodLines) /\ at \in [Options -> SUBSET Nat] /\ processed \in SUBSET Options
  BY DEF RewriteStates
<1>3. RewriteLine(s, o, text, force) =
        IF s.at[o] # {}
          THEN [s EXCEPT !.lines = [lines EXCEPT ![first] = line],
                         !.at = [at EXCEPT ![o] = at[o] \ {first}], !.processed = processed]
        ELSE IF force
          THEN [s EXCEPT !.lines = IF s.signed THEN Append(lines, line) ELSE lines \o <<Signature, line>>,
                         !.signed = TRUE, !.processed = processed]
        ELSE [s EXCEPT !.processed = processed]
  <2>1. RewriteLine(s, o, text, force) =
          IF s.at[o] # {}
            THEN [s EXCEPT !.lines[first] = line, !.at[o] = @ \ {first}, !.processed = @ \cup {o}]
          ELSE IF force
            THEN [s EXCEPT !.lines = IF s.signed THEN Append(@, line) ELSE @ \o <<Signature, line>>,
                           !.signed = TRUE, !.processed = @ \cup {o}]
          ELSE [s EXCEPT !.processed = @ \cup {o}]
    BY DEF RewriteLine
  <2> HIDE DEF line, first
  <2>2. [s EXCEPT !.lines[first] = line, !.at[o] = @ \ {first}, !.processed = @ \cup {o}]
        = [s EXCEPT !.lines = [lines EXCEPT ![first] = line],
                    !.at = [at EXCEPT ![o] = at[o] \ {first}], !.processed = processed]
    <3>1. s = [lines |-> lines, at |-> at, processed |-> s.processed, signed |-> s.signed]
      BY DEF RewriteStates
    <3> QED
      BY <1>2, <3>1
  <2> QED
    BY <2>1, <2>2
<1> HIDE DEF line, first, lines, at, processed
<1>4. [lines EXCEPT ![first] = line] \in Seq(GoodLines)
  <2> DEFINE n == Len(lines)
  <2>1. n \in Nat /\ lines \in [1 .. n -> GoodLines]
    BY <1>2
  <2> HIDE DEF n
  <2>2. [lines EXCEPT ![first] = line] \in [1 .. n -> GoodLines]
    BY <1>1, <2>1
  <2> QED
    BY <2>1, <2>2
<1>5. [at EXCEPT ![o] = at[o] \ {first}] \in [Options -> SUBSET Nat]
  BY <1>2
<1>6. Append(lines, line) \in Seq(GoodLines)
  BY <1>1, <1>2
<1>7. lines \o <<Signature, line>> \in Seq(GoodLines)
  <2>1. <<Signature, line>> \in Seq(GoodLines)
    BY <1>1
  <2> HIDE DEF Signature
  <2> QED
    BY <1>2, <2>1
<1> DEFINE added == IF s.signed THEN Append(lines, line) ELSE lines \o <<Signature, line>>
           replaced == [lines EXCEPT ![first] = line]
           left == [at EXCEPT ![o] = at[o] \ {first}]
<1>8. added \in Seq(GoodLines) /\ replaced \in Seq(GoodLines) /\ left \in [Options -> SUBSET Nat]
  BY <1>4, <1>5, <1>6, <1>7
<1> HIDE DEF added, replaced, left
<1>9. /\ [s EXCEPT !.lines = replaced, !.at = left, !.processed = processed] \in RewriteStates
      /\ [s EXCEPT !.lines = added, !.signed = TRUE, !.processed = processed] \in RewriteStates
      /\ [s EXCEPT !.processed = processed] \in RewriteStates
  BY <1>2, <1>8 DEF RewriteStates
<1> QED
  BY <1>3, <1>9 DEF added, replaced, left

LEMMA SavePointRuns ==
  ASSUME NEW st \in RewriteStates, NEW points \in Seq(Int), Legal(points)
  PROVE  \E r : /\ r \in [0 .. Len(points) -> RewriteStates] /\ r[0] = st
                /\ \A k \in 1 .. Len(points) : r[k] = RewriteLine(r[k - 1], "save", <<points[k]>>, TRUE)
                /\ FoldLeft(LAMBDA q, point : RewriteLine(q, "save", <<point>>, TRUE), st, points) = r[Len(points)]
<1> DEFINE n == Len(points)
           seq == points
           Op(w, k) == RewriteLine(w, "save", <<points[k]>>, TRUE)
           step == [p \in RewriteStates \X (1 .. n) |-> Op(p[1], p[2])]
           Eqn(f) == f = [s \in SUBSET (1 .. n) |->
                            IF s = {} THEN st ELSE RewriteLine(f[s \ {Max(s)}], "save", <<seq[Max(s)]>>, TRUE)]
           it == CHOOSE f : Eqn(f)
<1>0. n \in Nat /\ st \in RewriteStates
  OBVIOUS
<1>1. ASSUME NEW w \in RewriteStates, NEW k \in 1 .. n PROVE Op(w, k) \in RewriteStates
  <2>1. points[k] \in Int /\ points[k] >= 0
    BY DEF Legal
  <2>2. <<points[k]>> \in Seq(Int) /\ Legal(<<points[k]>>)
    BY <2>1 DEF Legal
  <2>3. Fits("save", <<points[k]>>) /\ "save" \in Options
    BY <2>2 DEF Fits, Numeric, Options
  <2> QED
    BY <2>2, <2>3, RewriteLineIsTyped
<1> HIDE DEF n, Op
<1>2. step \in [RewriteStates \X (1 .. n) -> RewriteStates]
  BY <1>1
<1>3. PICK f : IsFold(f, RewriteStates, st, n, step)
  <2> HIDE DEF step
  <2> QED
    BY <1>0, <1>2, FoldExists, Zenon
<1>4. ASSUME NEW s \in SUBSET (1 .. n), s # {}
      PROVE  Max(s) \in 1 .. n
  <2>1. Max(s) \in s
    BY <1>0, <1>4, LastPosition
  <2> QED
    BY <2>1
<1>5. ASSUME NEW g, NEW s \in SUBSET (1 .. n), s # {}
      PROVE  RewriteLine(g[s \ {Max(s)}], "save", <<seq[Max(s)]>>, TRUE) = Op(g[s \ {Max(s)}], Max(s))
  BY DEF Op
<1>6. Eqn(f)
  <2>1. ASSUME NEW s \in SUBSET (1 .. n), s # {}
        PROVE  f[s] = Op(f[s \ {Max(s)}], Max(s))
    <3>1. f[s \ {Max(s)}] \in RewriteStates /\ Max(s) \in 1 .. n
      BY <1>3, <1>4, <2>1 DEF IsFold
    <3> QED
      BY <1>3, <2>1, <3>1 DEF IsFold
  <2> HIDE DEF step, seq
  <2>2. \A s \in SUBSET (1 .. n) : f[s] = IF s = {} THEN st ELSE RewriteLine(f[s \ {Max(s)}], "save", <<seq[Max(s)]>>, TRUE)
    BY <1>3, <1>5, <2>1 DEF IsFold
  <2>3. f \in [SUBSET (1 .. n) -> RewriteStates]
    BY <1>3 DEF IsFold
  <2> QED
    BY <2>2, <2>3
<1>7. Eqn(it)
  <2> HIDE DEF Eqn
  <2> QED
    BY <1>6
<1>8. FoldLeft(LAMBDA q, point : RewriteLine(q, "save", <<point>>, TRUE), st, points) = it[1 .. n]
  <2>1. DOMAIN seq = 1 .. n
    BY DEF n
  <2> HIDE DEF seq
  <2> QED
    BY <2>1 DEF FoldLeft, MapThenFoldSet, seq
<1> HIDE DEF it
<1> DEFINE r == [k \in 0 .. n |-> it[1 .. k]]
<1>9. IsRun(r, RewriteStates, st, n, step)
  <2>1. \A s \in SUBSET (1 .. n) :
          /\ s = {} => it[s] = st
          /\ s # {} /\ it[s \ {Max(s)}] \in RewriteStates => it[s] = step[<<it[s \ {Max(s)}], Max(s)>>]
    BY <1>4, <1>5, <1>7
  <2> HIDE DEF step, Eqn
  <2> QED
    BY <1>0, <1>2, <2>1, FoldRuns
<1>10. /\ r \in [0 .. n -> RewriteStates] /\ r[0] = st /\ r[n] = it[1 .. n]
       /\ \A k \in 1 .. n : r[k] = Op(r[k - 1], k)
  <2>1. r \in [0 .. n -> RewriteStates] /\ r[0] = st /\ \A k \in 1 .. n : r[k] = step[<<r[k - 1], k>>]
    BY <1>9 DEF IsRun
  <2>2. r[n] = it[1 .. n]
    BY <1>0
  <2> HIDE DEF r
  <2>3. \A k \in 1 .. n : r[k - 1] \in RewriteStates
    BY <1>0, <2>1
  <2> QED
    BY <2>1, <2>2, <2>3
<1> HIDE DEF r
<1> QED
  BY <1>8, <1>10 DEF n, Op

LEMMA RewriteSaveIsTyped ==
  ASSUME NEW s \in RewriteStates, NEW v \in Values
  PROVE  RewriteSave(s, "save", v) \in RewriteStates
<1> DEFINE points == v["save"]
<1>1. points \in Seq(Int) /\ Legal(points) /\ "save" \in Options
  BY DEF Values, Fits, Options
<1>2. << >> \in Seq(Int) /\ Fits("save", << >>)
  BY DEF Fits, Legal, Numeric
<1>3. RewriteLine(s, "save", << >>, TRUE) \in RewriteStates
  BY <1>1, <1>2, RewriteLineIsTyped
<1> DEFINE fold == FoldLeft(LAMBDA q, point : RewriteLine(q, "save", <<point>>, TRUE), s, points)
<1>4. fold \in RewriteStates
  <2> HIDE DEF points
  <2>1. PICK r : /\ r \in [0 .. Len(points) -> RewriteStates] /\ r[0] = s
                 /\ \A k \in 1 .. Len(points) : r[k] = RewriteLine(r[k - 1], "save", <<points[k]>>, TRUE)
                 /\ fold = r[Len(points)]
    BY <1>1, SavePointRuns, Zenon
  <2>2. Len(points) \in 0 .. Len(points)
    BY <1>1
  <2> HIDE DEF fold
  <2> QED
    BY <2>1, <2>2
<1>5. RewriteSave(s, "save", v) = IF points = << >> THEN RewriteLine(s, "save", << >>, TRUE) ELSE fold
  BY DEF RewriteSave
<1> HIDE DEF fold, points
<1> QED
  BY <1>3, <1>4, <1>5

LEMMA RewriteOptionIsTyped ==
  ASSUME NEW s \in RewriteStates, NEW o \in Options, NEW v \in Values
  PROVE  RewriteOption(s, o, v) \in RewriteStates
<1>1. v[o] \in Seq(Int) /\ Fits(o, v[o])
  BY DEF Values
<1>2. RewriteLine(s, o, v[o], v[o] # Default[o]) \in RewriteStates
  BY <1>1, RewriteLineIsTyped
<1>3. RewriteLine(s, o, v[o], TRUE) \in RewriteStates
  BY <1>1, RewriteLineIsTyped
<1>4. RewriteLine(s, o, Shown(o, v[o]), TRUE) \in RewriteStates
  BY ShownFits, RewriteLineIsTyped
<1>5. MarkAsProcessed(s, o) \in RewriteStates
  BY DEF MarkAsProcessed, RewriteStates
<1>6. CASE o \in Numeric
  <2>1. RewriteOption(s, o, v) = RewriteNumber(s, o, v)
    BY <1>6, OptionKinds DEF RewriteOption
  <2> QED
    BY <1>2, <2>1 DEF RewriteNumber
<1>7. CASE o = "user"
  <2>1. RewriteOption(s, o, v) = RewriteString(s, o, v)
    BY <1>7, OptionKinds DEF RewriteOption
  <2> QED
    BY <1>2, <1>5, <2>1 DEF RewriteNumber, RewriteString
<1>8. CASE o = "bind"
  <2>1. RewriteOption(s, o, v) = RewriteBind(s, o, v)
    BY <1>8, OptionKinds DEF RewriteOption
  <2> QED
    BY <1>3, <1>5, <2>1 DEF RewriteBind
<1>9. CASE o = "save"
  <2>1. RewriteOption(s, o, v) = RewriteSave(s, "save", v)
    BY <1>9, OptionKinds DEF RewriteOption
  <2> QED
    BY <2>1, RewriteSaveIsTyped
<1>10. CASE o = "percentiles"
  <2>1. RewriteOption(s, o, v) = RewritePercentiles(s, o, v)
    BY <1>10, OptionKinds DEF RewriteOption
  <2> QED
    BY <1>4, <2>1 DEF RewritePercentiles
<1> QED
  BY <1>6, <1>7, <1>8, <1>9, <1>10, OptionKinds

LEMMA OptionRuns ==
  ASSUME NEW st \in RewriteStates, NEW order \in Seq(Options), NEW v \in Values
  PROVE  \E r : /\ r \in [0 .. Len(order) -> RewriteStates] /\ r[0] = st
                /\ \A k \in 1 .. Len(order) : r[k] = RewriteOption(r[k - 1], order[k], v)
                /\ FoldLeft(LAMBDA q, o : RewriteOption(q, o, v), st, order) = r[Len(order)]
<1> DEFINE n == Len(order)
           seq == order
           Op(w, k) == RewriteOption(w, order[k], v)
           step == [p \in RewriteStates \X (1 .. n) |-> Op(p[1], p[2])]
           Eqn(f) == f = [s \in SUBSET (1 .. n) |->
                            IF s = {} THEN st ELSE RewriteOption(f[s \ {Max(s)}], seq[Max(s)], v)]
           it == CHOOSE f : Eqn(f)
<1>0. n \in Nat /\ st \in RewriteStates
  OBVIOUS
<1>1. ASSUME NEW w \in RewriteStates, NEW k \in 1 .. n PROVE Op(w, k) \in RewriteStates
  BY RewriteOptionIsTyped
<1> HIDE DEF n, Op
<1>2. step \in [RewriteStates \X (1 .. n) -> RewriteStates]
  BY <1>1
<1>3. PICK f : IsFold(f, RewriteStates, st, n, step)
  <2> HIDE DEF step
  <2> QED
    BY <1>0, <1>2, FoldExists, Zenon
<1>4. ASSUME NEW s \in SUBSET (1 .. n), s # {}
      PROVE  Max(s) \in 1 .. n
  <2>1. Max(s) \in s
    BY <1>0, <1>4, LastPosition
  <2> QED
    BY <2>1
<1>5. ASSUME NEW g, NEW s \in SUBSET (1 .. n), s # {}
      PROVE  RewriteOption(g[s \ {Max(s)}], seq[Max(s)], v) = Op(g[s \ {Max(s)}], Max(s))
  BY DEF Op
<1>6. Eqn(f)
  <2>1. ASSUME NEW s \in SUBSET (1 .. n), s # {}
        PROVE  f[s] = Op(f[s \ {Max(s)}], Max(s))
    <3>1. f[s \ {Max(s)}] \in RewriteStates /\ Max(s) \in 1 .. n
      BY <1>3, <1>4, <2>1 DEF IsFold
    <3> QED
      BY <1>3, <2>1, <3>1 DEF IsFold
  <2> HIDE DEF step, seq
  <2>2. \A s \in SUBSET (1 .. n) : f[s] = IF s = {} THEN st ELSE RewriteOption(f[s \ {Max(s)}], seq[Max(s)], v)
    BY <1>3, <1>5, <2>1 DEF IsFold
  <2>3. f \in [SUBSET (1 .. n) -> RewriteStates]
    BY <1>3 DEF IsFold
  <2> QED
    BY <2>2, <2>3
<1>7. Eqn(it)
  <2> HIDE DEF Eqn
  <2> QED
    BY <1>6
<1>8. FoldLeft(LAMBDA q, o : RewriteOption(q, o, v), st, order) = it[1 .. n]
  <2>1. DOMAIN seq = 1 .. n
    BY DEF n
  <2> HIDE DEF seq
  <2> QED
    BY <2>1 DEF FoldLeft, MapThenFoldSet, seq
<1> HIDE DEF it
<1> DEFINE r == [k \in 0 .. n |-> it[1 .. k]]
<1>9. IsRun(r, RewriteStates, st, n, step)
  <2>1. \A s \in SUBSET (1 .. n) :
          /\ s = {} => it[s] = st
          /\ s # {} /\ it[s \ {Max(s)}] \in RewriteStates => it[s] = step[<<it[s \ {Max(s)}], Max(s)>>]
    BY <1>4, <1>5, <1>7
  <2> HIDE DEF step, Eqn
  <2> QED
    BY <1>0, <1>2, <2>1, FoldRuns
<1>10. /\ r \in [0 .. n -> RewriteStates] /\ r[0] = st /\ r[n] = it[1 .. n]
       /\ \A k \in 1 .. n : r[k] = Op(r[k - 1], k)
  <2>1. r \in [0 .. n -> RewriteStates] /\ r[0] = st /\ \A k \in 1 .. n : r[k] = step[<<r[k - 1], k>>]
    BY <1>9 DEF IsRun
  <2>2. r[n] = it[1 .. n]
    BY <1>0
  <2> HIDE DEF r
  <2>3. \A k \in 1 .. n : r[k - 1] \in RewriteStates
    BY <1>0, <2>1
  <2> QED
    BY <2>1, <2>2, <2>3
<1> HIDE DEF r
<1> QED
  BY <1>8, <1>10 DEF n, Op

LEMMA RemoveOrphanedIsGood ==
  ASSUME NEW s \in RewriteStates
  PROVE  RemoveOrphaned(s) \in Seq(GoodLines)
<1> DEFINE lines == s.lines
           gone == {i \in DOMAIN lines : \E o \in s.processed : i \in s.at[o]}
<1>1. lines \in Seq(GoodLines) /\ Blank \in GoodLines
  BY PlainLinesAreGood DEF RewriteStates
<1>2. RemoveOrphaned(s) = [i \in DOMAIN lines |-> IF i \in gone THEN Blank ELSE lines[i]]
  BY DEF RemoveOrphaned
<1> HIDE DEF lines, gone
<1> QED
  BY <1>1, <1>2

\* Adds the line of a position, unless it is an empty one after an empty one.
AddContent(lines, content, i) ==
  LET empty(j) == j > 0 /\ lines[j] = Blank
  IN IF empty(i) /\ empty(i - 1) THEN content ELSE Append(content, lines[i])

LEMMA ContentRuns ==
  ASSUME NEW lines \in Seq(GoodLines)
  PROVE  \E r : /\ r \in [0 .. Len(lines) -> Seq(GoodLines)] /\ r[0] = << >>
                /\ \A k \in 1 .. Len(lines) : r[k] = AddContent(lines, r[k - 1], k)
                /\ GetContent(lines) = r[Len(lines)]
<1> DEFINE n == Len(lines)
           seq == [i \in DOMAIN lines |-> i]
           Op(w, k) == AddContent(lines, w, k)
           step == [p \in Seq(GoodLines) \X (1 .. n) |-> Op(p[1], p[2])]
           Eqn(f) == f = [s \in SUBSET (1 .. n) |->
                            IF s = {} THEN << >> ELSE AddContent(lines, f[s \ {Max(s)}], seq[Max(s)])]
           it == CHOOSE f : Eqn(f)
<1>0. n \in Nat /\ << >> \in Seq(GoodLines)
  OBVIOUS
<1>1. ASSUME NEW w \in Seq(GoodLines), NEW k \in 1 .. n PROVE Op(w, k) \in Seq(GoodLines)
  BY DEF AddContent
<1> HIDE DEF n, Op
<1>2. step \in [Seq(GoodLines) \X (1 .. n) -> Seq(GoodLines)]
  BY <1>1
<1>3. PICK f : IsFold(f, Seq(GoodLines), << >>, n, step)
  <2> HIDE DEF step
  <2> QED
    BY <1>0, <1>2, FoldExists, Zenon
<1>4. ASSUME NEW s \in SUBSET (1 .. n), s # {}
      PROVE  Max(s) \in 1 .. n
  <2>1. Max(s) \in s
    BY <1>0, <1>4, LastPosition
  <2> QED
    BY <2>1
<1>5. ASSUME NEW g, NEW s \in SUBSET (1 .. n), s # {}
      PROVE  AddContent(lines, g[s \ {Max(s)}], seq[Max(s)]) = Op(g[s \ {Max(s)}], Max(s))
  <2>1. Max(s) \in 1 .. n
    BY <1>4, <1>5
  <2>2. seq[Max(s)] = Max(s)
    BY <2>1 DEF n
  <2> HIDE DEF seq
  <2> QED
    BY <2>2 DEF Op
<1>6. Eqn(f)
  <2>1. ASSUME NEW s \in SUBSET (1 .. n), s # {}
        PROVE  f[s] = Op(f[s \ {Max(s)}], Max(s))
    <3>1. f[s \ {Max(s)}] \in Seq(GoodLines) /\ Max(s) \in 1 .. n
      BY <1>3, <1>4, <2>1 DEF IsFold
    <3> QED
      BY <1>3, <2>1, <3>1 DEF IsFold
  <2> HIDE DEF step, seq
  <2>2. \A s \in SUBSET (1 .. n) : f[s] = IF s = {} THEN << >> ELSE AddContent(lines, f[s \ {Max(s)}], seq[Max(s)])
    BY <1>3, <1>5, <2>1 DEF IsFold
  <2>3. f \in [SUBSET (1 .. n) -> Seq(GoodLines)]
    BY <1>3 DEF IsFold
  <2> QED
    BY <2>2, <2>3
<1>7. Eqn(it)
  <2> HIDE DEF Eqn
  <2> QED
    BY <1>6
<1>8. GetContent(lines) = it[1 .. n]
  <2>1. DOMAIN seq = 1 .. n
    BY DEF n
  <2> HIDE DEF seq
  <2> QED
    BY <2>1 DEF GetContent, FoldLeftDomain, FoldLeft, MapThenFoldSet, AddContent, seq
<1> HIDE DEF it
<1> DEFINE r == [k \in 0 .. n |-> it[1 .. k]]
<1>9. IsRun(r, Seq(GoodLines), << >>, n, step)
  <2>1. \A s \in SUBSET (1 .. n) :
          /\ s = {} => it[s] = << >>
          /\ s # {} /\ it[s \ {Max(s)}] \in Seq(GoodLines) => it[s] = step[<<it[s \ {Max(s)}], Max(s)>>]
    BY <1>4, <1>5, <1>7
  <2> HIDE DEF step, Eqn
  <2> QED
    BY <1>0, <1>2, <2>1, FoldRuns
<1>10. /\ r \in [0 .. n -> Seq(GoodLines)] /\ r[0] = << >> /\ r[n] = it[1 .. n]
       /\ \A k \in 1 .. n : r[k] = Op(r[k - 1], k)
  <2>1. r \in [0 .. n -> Seq(GoodLines)] /\ r[0] = << >> /\ \A k \in 1 .. n : r[k] = step[<<r[k - 1], k>>]
    BY <1>9 DEF IsRun
  <2>2. r[n] = it[1 .. n]
    BY <1>0
  <2> HIDE DEF r
  <2>3. \A k \in 1 .. n : r[k - 1] \in Seq(GoodLines)
    BY <1>0, <2>1
  <2> QED
    BY <2>1, <2>2, <2>3
<1> HIDE DEF r
<1> QED
  BY <1>8, <1>10 DEF n, Op

LEMMA GetContentIsGood ==
  ASSUME NEW lines \in Seq(GoodLines)
  PROVE  GetContent(lines) \in Seq(GoodLines)
<1>1. PICK r : /\ r \in [0 .. Len(lines) -> Seq(GoodLines)] /\ r[0] = << >>
               /\ \A k \in 1 .. Len(lines) : r[k] = AddContent(lines, r[k - 1], k)
               /\ GetContent(lines) = r[Len(lines)]
  BY ContentRuns, Zenon
<1>2. Len(lines) \in 0 .. Len(lines)
  OBVIOUS
<1> QED
  BY <1>1, <1>2

LEMMA RewrittenIsGood ==
  ASSUME NEW lines \in Seq(GoodLines), NEW v \in Values, NEW order \in Orders
  PROVE  Rewritten(lines, v, order) \in Seq(GoodLines)
<1> DEFINE st == ReadOldFile(lines)
           fold == FoldLeft(LAMBDA q, o : RewriteOption(q, o, v), st, order)
<1>1. st \in RewriteStates /\ order \in Seq(Options)
  BY ReadOldFileIsTyped, ConfigAssumption
<1>2. fold \in RewriteStates
  <2> HIDE DEF st
  <2>1. PICK r : /\ r \in [0 .. Len(order) -> RewriteStates] /\ r[0] = st
                 /\ \A k \in 1 .. Len(order) : r[k] = RewriteOption(r[k - 1], order[k], v)
                 /\ fold = r[Len(order)]
    BY <1>1, OptionRuns, Zenon
  <2>2. Len(order) \in 0 .. Len(order)
    BY <1>1
  <2> HIDE DEF fold
  <2> QED
    BY <2>1, <2>2
<1>3. Rewritten(lines, v, order) = GetContent(RemoveOrphaned(fold))
  BY DEF Rewritten
<1> HIDE DEF fold
<1> QED
  BY <1>2, <1>3, RemoveOrphanedIsGood, GetContentIsGood

-----------------------------------------------------------------------------
(* The steps of CONFIG SET.                                                *)

LEMMA ApplyFns ==
  ASSUME NEW o \in Options
  PROVE  /\ ApplyFn(o) = Nothing \/ \E fn \in Fns : ApplyFn(o) = <<fn>>
         /\ ApplyFn("port") = <<"updatePort">> /\ ApplyFn("bind") = <<"applyBind">>
         /\ ApplyFn("maxclients") = <<"updateMaxclients">>
         /\ ApplyFn(o) = <<"updateMaxclients">> => o = "maxclients"
  BY DEF ApplyFn, Nothing, Fns, Listeners

LEMMA ValuesFields ==
  ASSUME NEW v \in Values
  PROVE  /\ {"port", "bind", "maxclients"} \subseteq Options
         /\ v.maxclients[1] \in Nat
         /\ Shown("port", v.port) = v.port /\ Shown("bind", v.bind) = v.bind
         /\ Shown("maxclients", v.maxclients) = v.maxclients
<1>1. {"port", "bind", "maxclients"} \subseteq Options
  BY DEF Options
<1>2. v["maxclients"] \in Seq(Int) /\ Fits("maxclients", v["maxclients"])
  BY <1>1 DEF Values
<1>3. IsNumber(v["maxclients"])
  BY <1>2 DEF Fits, Numeric
<1>4. v["maxclients"][1] \in Nat
  BY <1>2, <1>3 DEF IsNumber
<1> QED
  BY <1>1, <1>4 DEF Shown

LEMMA ElementsOf ==
  ASSUME NEW X, NEW s \in Seq(X), NEW k \in DOMAIN s
  PROVE  s[k] \in X
  OBVIOUS

\* The parameters of a request in progress.
LEMMA AskedFor ==
  ASSUME SetInv, set.pc # "idle"
  PROVE  /\ set.before \in Values /\ Len(set.old) = Len(set.request)
         /\ DOMAIN set.request = 1 .. Len(set.request) /\ Len(set.request) \in Nat
         /\ \A k \in DOMAIN set.request :
              /\ OptionAt(k) \in Options /\ set.request[k].text \in Seq(Int)
              /\ set.old[k] = Shown(OptionAt(k), set.before[OptionAt(k)])
<1>1. set.request \in Seq([name : STRING, text : Seq(Int)])
  BY DEF SetInv, SetTypes, SetRecords
<1>2. ASSUME NEW k \in DOMAIN set.request
      PROVE  OptionAt(k) \in Options /\ set.request[k].text \in Seq(Int)
  <2>1. set.request[k].name \in Names
    BY <1>2 DEF SetInv, BackedUp, Refused
  <2>2. set.request[k].text \in Seq(Int)
    <3>1. set.request[k] \in [name : STRING, text : Seq(Int)]
      BY <1>1, <1>2, ElementsOf
    <3> QED
      BY <3>1
  <2> QED
    BY <2>1, <2>2, NamesOptions DEF OptionAt
<1> QED
  BY <1>1, <1>2 DEF SetInv, BackedUp

\* The answer with an error, when every parameter is restored: port, addresses and clients have
\* no digits to lose.
LEMMA RolledBackFields ==
  ASSUME NEW v \in Values, set.before \in Values,
         \A o \in Options : \/ v[o] = set.before[o]
                            \/ v[o] = Shown(o, set.before[o])
  PROVE  /\ v.port = set.before.port /\ v.bind = set.before.bind
         /\ v.maxclients = set.before.maxclients
  BY ValuesFields

LEMMA AnsweredIsTyped ==
  ASSUME set \in SetRecords, NEW reply \in {"ok", "error"}
  PROVE  /\ Answered(reply) \in SetRecords
         /\ Answered(reply).pc = "idle" /\ Answered(reply).reply = reply
         /\ Answered(reply).i = 1 /\ Answered(reply).fns = << >>
         /\ Answered(reply).request = set.request /\ Answered(reply).before = set.before
<1>1. << >> \in Seq(Fns) /\ << >> \in Seq(Seq(Int))
  OBVIOUS
<1>2. Answered(reply) \in SetRecords
  <2> HIDE DEF Fns
  <2> QED
    BY <1>1 DEF Answered, SetRecords
<1>3. /\ Answered(reply).pc = "idle" /\ Answered(reply).reply = reply
      /\ Answered(reply).i = 1 /\ Answered(reply).fns = << >>
      /\ Answered(reply).request = set.request /\ Answered(reply).before = set.before
  BY DEF Answered, SetRecords
<1> QED
  BY <1>2, <1>3

LEMMA ConfigSetKeeps ==
  ASSUME SetInv, NEW request \in Requests, ConfigSet(request)
  PROVE  SetInv'
<1>1. /\ up /\ set.pc = "idle" /\ values' = values /\ listener' = listener
      /\ capacity' = capacity /\ broken' = broken /\ up' = up
  BY DEF ConfigSet, Idle
<1>2. request \in Seq([name : STRING, text : Seq(Int)])
  BY ConfigAssumption
<1>3. values \in Values /\ SetTypes /\ Applied
  BY DEF SetInv, SetTypes
<1>4. CASE Refused(request)
  <2>1. set' = [NoSet EXCEPT !.reply = "refused"]
    BY <1>4 DEF ConfigSet
  <2>2. /\ set' = [pc |-> "idle", reply |-> "refused", request |-> << >>, old |-> << >>,
                   before |-> << >>, fns |-> << >>, i |-> 1]
    BY <2>1 DEF NoSet
  <2>3. SetTypes'
    <3>1. << >> \in Seq(Fns) /\ << >> \in Seq(Seq(Int)) /\ << >> \in Seq([name : STRING, text : Seq(Int)])
      OBVIOUS
    <3>2. set' \in SetRecords
      BY <2>2, <3>1 DEF SetRecords
    <3> QED
      BY <1>1, <1>3, <2>2, <3>2 DEF SetTypes
  <2>4. AllOrNothing' /\ Applied'
    BY <1>1, <1>3, <2>2 DEF AllOrNothing, Applied
  <2> QED
    BY <2>2, <2>3, <2>4
       DEF SetInv, BackedUp, WhileSetting, WhileApplying, WhileRestoring, WhileReapplying
<1>5. CASE ~Refused(request)
  <2> DEFINE old == [i \in DOMAIN request |->
                       Shown(OptionOf(request[i].name), values[OptionOf(request[i].name)])]
  <2>1. set' = [pc |-> "set", reply |-> "none", request |-> request, old |-> old,
                before |-> values, fns |-> << >>, i |-> 1]
    BY <1>5 DEF ConfigSet
  <2>2. ASSUME NEW k \in DOMAIN request PROVE old[k] \in Seq(Int)
    <3>1. request[k].name \in Names
      BY <1>5 DEF Refused
    <3> QED
      BY <1>3, <3>1, NamesOptions, ShownFits
  <2>3. old \in Seq(Seq(Int)) /\ Len(old) = Len(request)
    <3> DEFINE n == Len(request)
    <3>1. n \in Nat /\ DOMAIN request = 1 .. n
      BY <1>2
    <3>2. DOMAIN old = 1 .. n
      BY <3>1
    <3> HIDE DEF n, old
    <3>3. old \in [1 .. n -> Seq(Int)]
      <4>1. old = [k \in 1 .. n |-> old[k]]
        BY <3>2 DEF old
      <4> QED
        BY <2>2, <3>1, <4>1
    <3>4. old \in Seq(Seq(Int)) /\ Len(old) = n
      BY <3>1, <3>3
    <3> QED
      BY <3>4 DEF n
  <2>4. SetTypes'
    <3> HIDE DEF old
    <3> QED
      <4>1. << >> \in Seq(Fns)
        OBVIOUS
      <4>2. set' \in SetRecords
        BY <1>2, <1>3, <2>1, <2>3, <4>1 DEF SetRecords, SetTypes
      <4>3. Len(request) \in Nat
        BY <1>2
      <4> QED
        BY <1>1, <1>3, <2>1, <4>2, <4>3 DEF SetTypes
  <2>5. BackedUp'
    <3>1. \A k \in DOMAIN request : OptionAt(k)' = OptionOf(request[k].name)
      BY <2>1 DEF OptionAt
    <3>2. /\ ~Refused(set'.request) /\ set'.before \in Values /\ Len(set'.old) = Len(set'.request)
          /\ \A k \in DOMAIN set'.request : set'.old[k] = Shown(OptionAt(k), set.before[OptionAt(k)])'
      BY <1>3, <1>5, <2>1, <2>3, <3>1
    <3>3. DOMAIN set'.fns = {} /\ Pending' = {} /\ Len(set'.fns) <= Len(set'.request)
      BY <1>2, <2>1 DEF Pending, ToSet
    <3> QED
      BY <3>2, <3>3 DEF BackedUp
  <2>6. SetTo(values, set.i - 1)' /\ Remembered'
    <3>1. 1 .. set'.i - 1 = {}
      BY <2>1
    <3>2. values' = set'.before
      BY <1>1, <2>1
    <3> QED
      BY <3>1, <3>2 DEF SetTo, Remembered
  <2>7. ListensAs(set.before)' /\ HasRoomFor(set.before)' /\ Len(set'.fns) < set'.i
    BY <1>1, <1>3, <2>1 DEF Applied, ListensAs, HasRoomFor, Listeners
  <2> QED
    BY <2>1, <2>4, <2>5, <2>6, <2>7
       DEF SetInv, WhileSetting, WhileApplying, WhileRestoring, WhileReapplying, AllOrNothing, Applied
<1> QED
  BY <1>4, <1>5

LEMMA OneMoreFn ==
  ASSUME NEW fns \in Seq(Fns), NEW fn \in Fns, \A k \in DOMAIN fns : fns[k] # fn,
         \A j, k \in DOMAIN fns : fns[j] = fns[k] => j = k
  PROVE  LET more == fns \o <<fn>>
         IN  /\ more \in Seq(Fns) /\ Len(more) = Len(fns) + 1 /\ ToSet(more) = ToSet(fns) \cup {fn}
             /\ \A j, k \in DOMAIN more : more[j] = more[k] => j = k
<1> DEFINE more == fns \o <<fn>>
           n == Len(fns)
<1>1. /\ n \in Nat /\ DOMAIN fns = 1 .. n /\ more \in Seq(Fns) /\ Len(more) = n + 1
      /\ DOMAIN more = 1 .. n + 1 /\ more[n + 1] = fn /\ \A k \in 1 .. n : more[k] = fns[k]
  OBVIOUS
<1> HIDE DEF more, n
<1>2. \A k \in 1 .. n + 1 : k = n + 1 \/ k \in 1 .. n
  BY <1>1
<1>3. \A k \in 1 .. n : k \in 1 .. n + 1 /\ n + 1 \in 1 .. n + 1
  BY <1>1
<1>4. n + 1 \in 1 .. n + 1
  BY <1>1
<1>5. ToSet(more) = ToSet(fns) \cup {fn}
  BY <1>1, <1>2, <1>3, <1>4 DEF ToSet
<1>6. \A j, k \in DOMAIN more : more[j] = more[k] => j = k
  BY <1>1, <1>2
<1> QED
  BY <1>1, <1>5, <1>6 DEF more, n

\* A value that is refused: what was set so far is set back.
LEMMA SetOneRefused ==
  ASSUME SetInv, SetOne,
         Set(OptionAt(set.i), set.request[set.i].text, values).res = 0
  PROVE  SetInv'
<1> DEFINE n == set.i
           o == OptionAt(n)
           v == Set(o, set.request[n].text, values).values
<1>1. /\ up /\ set.pc = "set" /\ n <= Len(set.request) /\ UNCHANGED <<listener, capacity, broken, up>>
      /\ values' = Restored(v, n) /\ set' = Answered("error")
  BY DEF SetOne, OptionAt
<1>2. /\ SetTypes /\ BackedUp /\ WhileSetting /\ SetTo(values, n - 1) /\ values \in Values
      /\ ListensAs(set.before) /\ HasRoomFor(set.before)
  BY <1>1 DEF SetInv, SetTypes, SetRecords, WhileSetting
<1>3. n \in Nat /\ n >= 1 /\ n - 1 \in Nat /\ n \in 1 .. Len(set.request)
  BY <1>1, <1>2, AskedFor DEF SetTypes, SetRecords
<1>4. /\ set.before \in Values /\ DOMAIN set.request = 1 .. Len(set.request)
      /\ \A k \in DOMAIN set.request :
           /\ OptionAt(k) \in Options /\ set.request[k].text \in Seq(Int)
           /\ set.old[k] = Shown(OptionAt(k), set.before[OptionAt(k)])
  BY <1>1, AskedFor
<1>5. v \in Values /\ \A q \in Options : q # o => v[q] = values[q]
  BY <1>2, <1>3, <1>4, SetFacts
<1> HIDE DEF v
<1>6. ASSUME NEW q \in Options, \A k \in 1 .. n : OptionAt(k) # q
      PROVE  v[q] = set.before[q]
  <2>1. q # o /\ \A k \in 1 .. n - 1 : OptionAt(k) # q
    BY <1>3, <1>6
  <2> QED
    BY <1>2, <1>5, <2>1 DEF SetTo
<1>7. /\ values' \in Values
      /\ \A q \in Options :
           \/ values'[q] = set.before[q]
           \/ (\E k \in 1 .. n : OptionAt(k) = q) /\ values'[q] = Shown(q, set.before[q])
  <2>1. \A k \in 1 .. n : /\ OptionAt(k) \in Options
                          /\ set.old[k] = Shown(OptionAt(k), set.before[OptionAt(k)])
    <3>1. \A k \in 1 .. n : k \in DOMAIN set.request
      BY <1>3, <1>4
    <3> HIDE DEF n
    <3> QED
      BY <1>4, <3>1
  <2>2. /\ Restored(v, n) \in Values
        /\ \A q \in Options :
              \/ Restored(v, n)[q] = set.before[q]
              \/ (\E k \in 1 .. n : OptionAt(k) = q)
                 /\ Restored(v, n)[q] = Shown(q, set.before[q])
    BY <1>3, <1>4, <1>5, <1>6, <2>1, RestoredFacts
  <2> QED
    BY <1>1, <2>2
<1>8. /\ set' \in SetRecords
      /\ set'.pc = "idle" /\ set'.reply = "error" /\ set'.fns = << >> /\ set'.i = 1
      /\ set'.request = set.request /\ set'.before = set.before
  <2>1. set \in SetRecords
    BY <1>2 DEF SetTypes
  <2> QED
    BY <1>1, <2>1, AnsweredIsTyped
<1>9. SetTypes'
  <2>1. Len(set.request) \in Nat
    BY <1>1, AskedFor
  <2> QED
    BY <1>1, <1>2, <1>7, <1>8, <2>1 DEF SetTypes
<1>10. AllOrNothing'
  <2>1. \A q \in Options : (\E k \in 1 .. n : OptionAt(k) = q) => Asked(q)' # {}
    BY <1>3, <1>4, <1>8 DEF Asked, OptionAt
  <2> QED
    BY <1>7, <1>8, <2>1 DEF AllOrNothing
<1>11. Applied'
  <2>1. /\ values'.port = set.before.port /\ values'.bind = set.before.bind
        /\ values'.maxclients = set.before.maxclients
    BY <1>4, <1>7, RolledBackFields
  <2> QED
    BY <1>1, <1>2, <2>1 DEF Applied, ListensAs, HasRoomFor, Listeners
<1> QED
  BY <1>8, <1>9, <1>10, <1>11
     DEF SetInv, BackedUp, WhileSetting, WhileApplying, WhileRestoring, WhileReapplying

LEMMA SetOneAccepted ==
  ASSUME SetInv, SetOne,
         Set(OptionAt(set.i), set.request[set.i].text, values).res # 0
  PROVE  SetInv'
<1> DEFINE n == set.i
           o == OptionAt(n)
           text == set.request[n].text
           r == Set(o, text, values)
           fn == ApplyFn(o)
           same == r.res = 2 \/ fn = Nothing \/ \E k \in DOMAIN set.fns : set.fns[k] = fn[1]
           more == IF same THEN set.fns ELSE set.fns \o fn
<1>1. /\ up /\ set.pc = "set" /\ n <= Len(set.request) /\ UNCHANGED <<listener, capacity, broken, up>>
      /\ values' = r.values /\ set' = [set EXCEPT !.i = n + 1, !.fns = more]
  <2>1. SetTypes
    BY DEF SetInv
  <2> QED
    BY <2>1 DEF SetOne, OptionAt, SetTypes, SetRecords
<1>2. /\ SetTypes /\ BackedUp /\ WhileSetting /\ SetTo(values, n - 1) /\ values \in Values
      /\ ListensAs(set.before) /\ HasRoomFor(set.before) /\ Len(set.fns) < n /\ Remembered
      /\ set.fns \in Seq(Fns)
  BY <1>1 DEF SetInv, SetTypes, SetRecords, WhileSetting
<1>3. n \in Nat /\ n >= 1 /\ n - 1 \in Nat /\ n \in 1 .. Len(set.request)
  BY <1>1, <1>2, AskedFor DEF SetTypes, SetRecords
<1>4. /\ set.before \in Values /\ DOMAIN set.request = 1 .. Len(set.request)
      /\ Len(set.request) \in Nat
      /\ \A k \in DOMAIN set.request :
           /\ OptionAt(k) \in Options /\ set.request[k].text \in Seq(Int)
           /\ set.old[k] = Shown(OptionAt(k), set.before[OptionAt(k)])
  BY <1>1, AskedFor
<1>5. /\ r.values \in Values /\ \A q \in Options : q # o => r.values[q] = values[q]
      /\ r.values[o] = text /\ (r.res = 2 => values[o] = text)
  BY <1>2, <1>3, <1>4, SetFacts
<1> HIDE DEF r
<1>6. fn = Nothing \/ \E f \in Fns : fn = <<f>>
  BY <1>3, <1>4, ApplyFns
<1>7. /\ more \in Seq(Fns) /\ Len(more) <= Len(set.fns) + 1
      /\ \A j, k \in DOMAIN more : more[j] = more[k] => j = k
      /\ ToSet(set.fns) \subseteq ToSet(more)
      /\ \A f \in ToSet(more) : f \in ToSet(set.fns) \/ fn = <<f>>
      /\ r.res # 2 => \A f \in Fns : fn = <<f>> => f \in ToSet(more)
  <2>0. /\ \A j, k \in DOMAIN set.fns : set.fns[j] = set.fns[k] => j = k
        /\ Len(set.fns) \in Nat
    BY <1>1, <1>2 DEF BackedUp
  <2>1. CASE same
    <3>1. more = set.fns
      BY <2>1
    <3>2. ASSUME r.res # 2, NEW f \in Fns, fn = <<f>> PROVE f \in ToSet(set.fns)
      <4>1. fn # Nothing /\ fn[1] = f
        BY <3>2 DEF Nothing
      <4>2. \E k \in DOMAIN set.fns : set.fns[k] = f
        BY <2>1, <3>2, <4>1
      <4> QED
        BY <4>2 DEF ToSet
    <3> HIDE DEF more
    <3> QED
      BY <1>2, <2>0, <3>1, <3>2
  <2>2. CASE ~same
    <3>1. PICK f \in Fns : fn = <<f>>
      BY <1>6, <2>2
    <3>2. more = set.fns \o <<f>> /\ \A k \in DOMAIN set.fns : set.fns[k] # f
      BY <2>2, <3>1
    <3> HIDE DEF more, fn
    <3>3. /\ more \in Seq(Fns) /\ Len(more) = Len(set.fns) + 1
          /\ ToSet(more) = ToSet(set.fns) \cup {f}
          /\ \A j, k \in DOMAIN more : more[j] = more[k] => j = k
      BY <1>2, <2>0, <3>2, OneMoreFn
    <3>4. \A g : fn = <<g>> => g = f
      BY <3>1
    <3> QED
      BY <2>0, <3>1, <3>3, <3>4
  <2> QED
    BY <2>1, <2>2
<1> HIDE DEF more
<1>8. /\ set'.pc = "set" /\ set'.reply = set.reply /\ set'.fns = more /\ set'.i = n + 1
      /\ set'.old = set.old /\ set'.request = set.request /\ set'.before = set.before
      /\ Pending' = ToSet(more) /\ \A k : OptionAt(k)' = OptionAt(k)
  BY <1>1, <1>2 DEF SetTypes, SetRecords, Pending, OptionAt
<1>9. SetTypes'
  <2>1. n + 1 \in Nat /\ n + 1 >= 1 /\ n + 1 <= Len(set.request) + 1
    BY <1>3, <1>4
  <2>2. set' \in SetRecords
    BY <1>1, <1>2, <1>7, <2>1 DEF SetTypes, SetRecords
  <2> QED
    BY <1>1, <1>2, <1>5, <1>8, <2>1, <2>2 DEF SetTypes
<1>10. BackedUp'
  <2>1. \A f \in Pending' : \E k \in DOMAIN set.request : ApplyFn(OptionAt(k)) = <<f>>
    BY <1>1, <1>2, <1>3, <1>4, <1>7, <1>8 DEF BackedUp, Pending
  <2>2. Len(more) <= Len(set.request)
    BY <1>2, <1>3, <1>4, <1>7
  <2> QED
    BY <1>1, <1>2, <1>7, <1>8, <2>1, <2>2 DEF BackedUp
<1>11. SetTo(values, set.i - 1)'
  <2>1. set'.i - 1 = n
    BY <1>3, <1>8
  <2>2. ASSUME NEW q \in Options, \A k \in 1 .. n : OptionAt(k) # q
        PROVE  values'[q] = set.before[q]
    <3>1. q # o /\ \A k \in 1 .. n - 1 : OptionAt(k) # q
      BY <1>3, <2>2
    <3> QED
      BY <1>1, <1>2, <1>5, <3>1 DEF SetTo
  <2>3. ASSUME NEW k \in 1 .. n, \A j \in k + 1 .. n : OptionAt(j) # OptionAt(k)
        PROVE  values'[OptionAt(k)] = set.request[k].text
    <3>1. CASE k = n
      BY <1>1, <1>5, <3>1
    <3>2. CASE k # n
      <4>1. k \in 1 .. n - 1 /\ n \in k + 1 .. n /\ \A j \in k + 1 .. n - 1 : j \in k + 1 .. n
        BY <1>3, <3>2
      <4>2. o # OptionAt(k) /\ \A j \in k + 1 .. n - 1 : OptionAt(j) # OptionAt(k)
        BY <2>3, <4>1
      <4>3. OptionAt(k) \in Options
        BY <1>3, <1>4
      <4> QED
        BY <1>1, <1>2, <1>5, <4>1, <4>2, <4>3 DEF SetTo
    <3> QED
      BY <3>1, <3>2
  <2> QED
    BY <1>8, <2>1, <2>2, <2>3 DEF SetTo
<1>12. Remembered'
  <2> SUFFICES ASSUME NEW q \in Options, NEW f \in Fns, ApplyFn(q) = <<f>>, f \notin ToSet(more)
               PROVE  values'[q] = set.before[q]
    BY <1>8 DEF Remembered
  <2>1. values[q] = set.before[q]
    BY <1>2, <1>7 DEF Remembered, Pending
  <2>2. CASE q # o
    BY <1>1, <1>5, <2>1, <2>2
  <2>3. CASE q = o
    <3>1. r.res = 2
      BY <1>7, <2>3
    <3> QED
      BY <1>1, <1>5, <2>1, <2>3, <3>1
  <2> QED
    BY <2>2, <2>3
<1>13. ListensAs(set.before)' /\ HasRoomFor(set.before)' /\ Len(set'.fns) < set'.i
  <2>1. Len(more) < n + 1
    <3>1. Len(more) \in Nat /\ Len(set.fns) \in Nat
      BY <1>2, <1>7
    <3> QED
      BY <1>2, <1>3, <1>7, <3>1
  <2> QED
    BY <1>1, <1>2, <1>8, <2>1 DEF ListensAs, HasRoomFor
<1> QED
  BY <1>8, <1>9, <1>10, <1>11, <1>12, <1>13
     DEF SetInv, WhileSetting, WhileApplying, WhileRestoring, WhileReapplying, AllOrNothing, Applied

LEMMA SetOneKeeps ==
  ASSUME SetInv, SetOne
  PROVE  SetInv'
  BY SetOneRefused, SetOneAccepted

\* What an apply function does, whether it fails or not.
LEMMA ApplyFacts ==
  ASSUME values \in Values, capacity \in Nat, broken \subseteq Fns,
         NEW fn \in Fns, NEW ok \in BOOLEAN, NEW logged \in BOOLEAN, Apply(fn, ok, logged)
  PROVE  /\ values' \in Values /\ \A o \in Options : o # "maxclients" => values'[o] = values[o]
         /\ ok \/ fn # "updateMaxclients" => values' = values
         /\ broken' \subseteq Fns /\ capacity' \in Nat /\ capacity' >= capacity
         /\ HasRoomFor(values) => HasRoomFor(values)'
         /\ ok /\ fn = "updateMaxclients" => HasRoomFor(values)'
         /\ fn \in Listeners /\ (ok \/ logged) => ListensAs(values)'
         /\ fn = "updateMaxclients" =>
              listener' = listener /\ broken' \cap Listeners = broken \cap Listeners
         /\ fn = "updateMaxclients" /\ ~ok /\ logged => "updateMaxclients" \in broken'
         /\ fn # "updateMaxclients" /\ "updateMaxclients" \in broken => "updateMaxclients" \in broken'
<1>1. values.maxclients[1] \in Nat /\ values'.maxclients = values'["maxclients"]
  BY ValuesFields
<1>2. CASE fn = "updateMaxclients"
  <2>1. Resize(ok) /\ listener' = listener
    BY <1>2 DEF Apply, Resize
  <2>2. broken' = IF ~ok THEN broken \cup (IF logged THEN {fn} ELSE {}) ELSE broken \ {fn}
    BY <1>2 DEF Apply
  <2>3. broken' \subseteq Fns /\ broken' \cap Listeners = broken \cap Listeners
    BY <1>2, <2>2 DEF Fns, Listeners
  <2>4. /\ capacity' \in Nat /\ capacity' >= capacity
        /\ ok => capacity' >= values.maxclients[1]
    BY <1>1, <2>1 DEF Resize
  <2>5. CASE values' = values
    BY <1>1, <1>2, <2>1, <2>2, <2>3, <2>4, <2>5 DEF HasRoomFor, Listeners
  <2>6. CASE values' # values
    <3>1. /\ ~ok /\ LowClients < values.maxclients[1]
          /\ values' = [values EXCEPT !.maxclients = <<LowClients>>]
      BY <2>1, <2>6 DEF Resize
    <3>2. LowClients \in Nat /\ "maxclients" \in Options
      BY ConfigAssumption, ValuesFields
    <3>3. <<LowClients>> \in Seq(Int) /\ Fits("maxclients", <<LowClients>>)
      BY <3>2 DEF Fits, IsNumber
    <3>4. values' \in Values
      BY <3>1, <3>2, <3>3, AssignedIsValues
    <3>5. values \in [Options -> Seq(Int)]
      BY DEF Values
    <3>6. /\ \A o \in Options : o # "maxclients" => values'[o] = values[o]
          /\ values'.maxclients[1] = LowClients
      BY <3>1, <3>2, <3>5
    <3>7. HasRoomFor(values) => HasRoomFor(values)'
      BY <1>1, <2>4, <3>1, <3>2, <3>6 DEF HasRoomFor
    <3> QED
      BY <1>2, <2>1, <2>2, <2>3, <2>4, <3>1, <3>4, <3>6, <3>7 DEF Listeners
  <2> QED
    BY <2>5, <2>6
<1>3. CASE fn # "updateMaxclients"
  <2>1. /\ listener' = (IF ok THEN <<values.port, values.bind>> ELSE Closed)
        /\ values' = values /\ capacity' = capacity
        /\ broken' = IF ~ok THEN broken \cup (IF logged THEN {fn} ELSE {}) ELSE broken \ Listeners
    BY <1>3 DEF Apply, Listen, Listeners
  <2>2. fn \in Listeners /\ broken' \subseteq Fns
    BY <1>3, <2>1 DEF Fns, Listeners
  <2>3. ok \/ logged => ListensAs(values)'
    <3>1. CASE ok
      BY <2>1, <3>1 DEF ListensAs
    <3>2. CASE ~ok /\ logged
      BY <2>1, <2>2, <3>2 DEF ListensAs
    <3> QED
      BY <3>1, <3>2
  <2>4. "updateMaxclients" \in broken => "updateMaxclients" \in broken'
    BY <2>1 DEF Listeners
  <2> QED
    BY <1>3, <2>1, <2>2, <2>3, <2>4 DEF HasRoomFor
<1> QED
  BY <1>2, <1>3

\* The functions that are in the list are those of the request; one that is at hand is in it.
LEMMA PendingFacts ==
  ASSUME SetInv, set.pc # "idle"
  PROVE  /\ set.fns \in Seq(Fns) /\ Len(set.fns) \in Nat /\ DOMAIN set.fns = 1 .. Len(set.fns)
         /\ set.i \in Nat /\ set.i >= 1
         /\ \A k \in DOMAIN set.fns : set.fns[k] \in Fns /\ set.fns[k] \in Pending
         /\ "updateMaxclients" \in Pending => Asked("maxclients") # {}
<1>1. set.fns \in Seq(Fns) /\ set.i \in Nat /\ set.i >= 1
  BY DEF SetInv, SetTypes, SetRecords
<1>2. ASSUME NEW k \in DOMAIN set.fns PROVE set.fns[k] \in Fns /\ set.fns[k] \in Pending
  BY <1>1, <1>2, ElementsOf DEF Pending, ToSet
<1>3. ASSUME "updateMaxclients" \in Pending PROVE Asked("maxclients") # {}
  <2>1. PICK k \in DOMAIN set.request : ApplyFn(OptionAt(k)) = <<"updateMaxclients">>
    BY <1>3 DEF SetInv, BackedUp
  <2>2. OptionAt(k) = "maxclients"
    BY <2>1, AskedFor, ApplyFns
  <2> QED
    BY <2>2 DEF Asked, OptionAt
<1>4. Len(set.fns) \in Nat /\ DOMAIN set.fns = 1 .. Len(set.fns)
  BY <1>1
<1> QED
  BY <1>1, <1>2, <1>3, <1>4

LEMMA AllSetKeeps ==
  ASSUME SetInv, AllSet
  PROVE  SetInv'
<1>1. /\ up /\ set.pc = "set" /\ set.i > Len(set.request)
      /\ set' = [set EXCEPT !.pc = "apply", !.i = 1]
      /\ UNCHANGED <<values, listener, capacity, broken, up>>
  BY DEF AllSet
<1>2. SetTypes /\ BackedUp /\ WhileSetting
  BY DEF SetInv
<1>3. Len(set.request) \in Nat /\ set.i \in Nat /\ Len(set.fns) \in Nat
  BY <1>1, AskedFor, PendingFacts
<1>4. /\ set' \in SetRecords /\ set'.pc = "apply" /\ set'.i = 1 /\ set'.request = set.request
      /\ set'.old = set.old /\ set'.before = set.before /\ set'.fns = set.fns
      /\ Pending' = Pending /\ \A k : OptionAt(k)' = OptionAt(k)
  BY <1>1, <1>2 DEF SetTypes, SetRecords, Pending, OptionAt
<1>5. set.i - 1 = Len(set.request)
  BY <1>1, <1>2, <1>3 DEF SetTypes
<1>6. SetTypes' /\ BackedUp'
  BY <1>1, <1>2, <1>3, <1>4 DEF SetTypes, BackedUp
<1>7. SetTo(values, Len(set.request))' /\ Remembered'
  BY <1>1, <1>2, <1>4, <1>5 DEF WhileSetting, SetTo, Remembered
<1>8. ~Done(Listeners)' /\ ~Done({"updateMaxclients"})'
  <2>1. 1 .. set'.i - 1 = {}
    BY <1>4
  <2> QED
    BY <2>1 DEF Done
<1>9. ListensAs(set.before)' /\ HasRoomFor(set.before)'
  BY <1>1, <1>2, <1>4 DEF WhileSetting, ListensAs, HasRoomFor
<1> QED
  BY <1>3, <1>4, <1>6, <1>7, <1>8, <1>9
     DEF SetInv, WhileSetting, WhileApplying, WhileRestoring, WhileReapplying, AllOrNothing, Applied

\* The loop of apply functions: one more is done.
LEMMA OneMoreDone ==
  ASSUME NEW fns, set.i \in Nat, set.i >= 1, set'.i = set.i + 1, set'.fns = set.fns
  PROVE  Done(fns)' <=> Done(fns) \/ set.fns[set.i] \in fns
<1>1. set'.i - 1 = set.i
  OBVIOUS
<1>2. \A k \in 1 .. set.i : k = set.i \/ k \in 1 .. set.i - 1
  OBVIOUS
<1>3. set.i \in 1 .. set.i /\ \A k \in 1 .. set.i - 1 : k \in 1 .. set.i
  OBVIOUS
<1> QED
  BY <1>1, <1>2, <1>3 DEF Done

LEMMA ApplyOneKeeps ==
  ASSUME SetInv, NEW ok \in BOOLEAN, ApplyOne(ok)
  PROVE  SetInv'
<1> DEFINE fn == set.fns[set.i]
<1>1. /\ up /\ set.pc = "apply" /\ set.i <= Len(set.fns) /\ up' = up
      /\ Apply(fn, ok, FALSE)
      /\ set' = IF ok THEN [set EXCEPT !.i = set.i + 1] ELSE [set EXCEPT !.pc = "restore", !.i = 1]
  <2>1. set \in SetRecords
    BY DEF SetInv, SetTypes
  <2> QED
    BY <2>1 DEF ApplyOne, SetRecords
<1>2. /\ SetTypes /\ BackedUp /\ WhileApplying /\ values \in Values /\ capacity \in Nat
      /\ broken \subseteq Fns /\ set \in SetRecords
  BY DEF SetInv, SetTypes
<1>3. /\ SetTo(values, Len(set.request)) /\ Remembered /\ HasRoomFor(set.before)
      /\ IF Done(Listeners) THEN ListensAs(values) ELSE ListensAs(set.before)
      /\ Done({"updateMaxclients"}) => HasRoomFor(values)
  BY <1>1, <1>2 DEF WhileApplying
<1>4. /\ set.i \in 1 .. Len(set.fns) /\ Len(set.fns) \in Nat /\ fn \in Fns /\ fn \in Pending
      /\ DOMAIN set.fns = 1 .. Len(set.fns) /\ set.i \in Nat /\ set.i >= 1
  BY <1>1, PendingFacts
<1>5. /\ set.before \in Values /\ DOMAIN set.request = 1 .. Len(set.request)
      /\ Len(set.request) \in Nat
  BY <1>1, AskedFor
<1>6. set.before.maxclients[1] \in Nat /\ {"port", "bind", "maxclients"} \subseteq Options
  BY <1>5, ValuesFields
<1> HIDE DEF fn
<1>7. /\ values' \in Values /\ \A o \in Options : o # "maxclients" => values'[o] = values[o]
      /\ ok \/ fn # "updateMaxclients" => values' = values
      /\ broken' \subseteq Fns /\ capacity' \in Nat /\ capacity' >= capacity
      /\ HasRoomFor(values) => HasRoomFor(values)'
      /\ ok /\ fn = "updateMaxclients" => HasRoomFor(values)'
      /\ fn \in Listeners /\ ok => ListensAs(values)'
      /\ fn = "updateMaxclients" =>
           listener' = listener /\ broken' \cap Listeners = broken \cap Listeners
  BY <1>1, <1>2, <1>4, ApplyFacts
<1>8. fn \in Listeners \/ fn = "updateMaxclients"
  BY <1>4 DEF Fns
<1>9. CASE ok
  <2>1. set' = [set EXCEPT !.i = set.i + 1] /\ values' = values
    BY <1>1, <1>7, <1>9
  <2>2. /\ set' \in SetRecords /\ set'.pc = "apply" /\ set'.i = set.i + 1 /\ set'.request = set.request
        /\ set'.old = set.old /\ set'.before = set.before /\ set'.fns = set.fns
        /\ set'.reply = set.reply /\ Pending' = Pending /\ \A k : OptionAt(k)' = OptionAt(k)
    <3>1. set.i + 1 \in Nat
      BY <1>4
    <3>2. set' \in SetRecords
      <4> DEFINE j == set.i + 1
      <4> HIDE DEF j
      <4> QED
        BY <1>2, <2>1, <3>1 DEF SetRecords, j
    <3> QED
      BY <1>1, <1>2, <2>1, <3>2 DEF SetRecords, Pending, OptionAt
  <2>3. SetTypes'
    <3>1. set.i + 1 <= Len(set.request) + 1
      BY <1>1, <1>2, <1>4, <1>5 DEF BackedUp
    <3> QED
      BY <1>1, <1>2, <1>4, <1>7, <2>2, <3>1 DEF SetTypes
  <2>4. BackedUp'
    BY <1>1, <1>2, <2>2 DEF BackedUp
  <2>5. SetTo(values, Len(set.request))' /\ Remembered'
    BY <1>3, <2>1, <2>2 DEF SetTo, Remembered
  <2>6. \A fns : Done(fns)' <=> Done(fns) \/ fn \in fns
    BY <1>4, <2>2, OneMoreDone DEF fn
  <2>7. HasRoomFor(set.before)' /\ (Done({"updateMaxclients"})' => HasRoomFor(values)')
    <3>1. HasRoomFor(set.before)'
      BY <1>2, <1>3, <1>6, <1>7, <2>2 DEF HasRoomFor
    <3>2. Done({"updateMaxclients"})' => Done({"updateMaxclients"}) \/ fn = "updateMaxclients"
      BY <2>6
    <3> QED
      BY <1>3, <1>7, <1>9, <3>1, <3>2
  <2>8. IF Done(Listeners)' THEN ListensAs(values)' ELSE ListensAs(set.before)'
    <3>1. CASE fn \in Listeners
      BY <1>7, <1>9, <2>6, <3>1
    <3>2. CASE fn \notin Listeners
      <4>1. Done(Listeners)' <=> Done(Listeners)
        BY <2>6, <3>2
      <4>2. listener' = listener /\ broken' \cap Listeners = broken \cap Listeners
        BY <1>7, <1>8, <3>2
      <4> QED
        BY <1>3, <2>1, <2>2, <4>1, <4>2 DEF ListensAs
    <3> QED
      BY <3>1, <3>2
  <2> QED
    BY <1>4, <2>2, <2>3, <2>4, <2>5, <2>7, <2>8
       DEF SetInv, WhileSetting, WhileApplying, WhileRestoring, WhileReapplying, AllOrNothing, Applied
<1>10. CASE ~ok
  <2>1. set' = [set EXCEPT !.pc = "restore", !.i = 1]
    BY <1>1, <1>10
  <2>2. /\ set' \in SetRecords /\ set'.pc = "restore" /\ set'.i = 1 /\ set'.request = set.request
        /\ set'.old = set.old /\ set'.before = set.before /\ set'.fns = set.fns
        /\ Pending' = Pending /\ \A k : OptionAt(k)' = OptionAt(k)
        /\ \A o \in Options : Asked(o)' = Asked(o)
    BY <1>2, <2>1 DEF SetRecords, Pending, OptionAt, Asked
  <2>3. SetTypes' /\ BackedUp'
    BY <1>1, <1>2, <1>5, <1>7, <2>2 DEF SetTypes, BackedUp
  <2>4. ASSUME NEW o \in Options, Asked(o) = {} PROVE values'[o] = set.before[o]
    <3>1. values[o] = set.before[o]
      BY <1>3, <1>5, <2>4 DEF SetTo, Asked, OptionAt
    <3>2. CASE o # "maxclients"
      BY <1>7, <3>1, <3>2
    <3>3. CASE o = "maxclients"
      <4>1. fn # "updateMaxclients"
        BY <1>1, <1>4, <2>4, <3>3, PendingFacts
      <4> QED
        BY <1>7, <3>1, <4>1
    <3> QED
      BY <3>2, <3>3
  <2>5. ASSUME Pending \cap Listeners = {} PROVE ListensAs(set.before)'
    <3>1. ~Done(Listeners) /\ fn \notin Listeners
      BY <1>1, <1>4, <2>5, PendingFacts DEF Done
    <3>2. ListensAs(set.before) /\ fn = "updateMaxclients"
      BY <1>3, <1>8, <3>1
    <3> QED
      BY <1>7, <2>2, <3>2 DEF ListensAs
  <2>6. HasRoomFor(set.before)'
    BY <1>2, <1>3, <1>6, <1>7, <2>2 DEF HasRoomFor
  <2> QED
    BY <2>2, <2>3, <2>4, <2>5, <2>6
       DEF SetInv, WhileSetting, WhileApplying, WhileRestoring, WhileReapplying, AllOrNothing, Applied
<1> QED
  BY <1>9, <1>10

LEMMA AllAppliedKeeps ==
  ASSUME SetInv, AllApplied
  PROVE  SetInv'
<1>1. /\ up /\ set.pc = "apply" /\ set.i > Len(set.fns) /\ set' = Answered("ok")
      /\ UNCHANGED <<values, listener, capacity, broken, up>>
  BY DEF AllApplied
<1>2. SetTypes /\ BackedUp /\ WhileApplying /\ set \in SetRecords /\ values \in Values
  BY DEF SetInv, SetTypes
<1>3. /\ SetTo(values, Len(set.request)) /\ Remembered /\ HasRoomFor(set.before)
      /\ IF Done(Listeners) THEN ListensAs(values) ELSE ListensAs(set.before)
      /\ Done({"updateMaxclients"}) => HasRoomFor(values)
      /\ set.i <= Len(set.fns) + 1
  BY <1>1, <1>2 DEF WhileApplying
<1>4. /\ Len(set.fns) \in Nat /\ DOMAIN set.fns = 1 .. Len(set.fns)
      /\ set.i \in Nat /\ set.i - 1 = Len(set.fns)
  BY <1>1, <1>3, PendingFacts
<1>5. \A fn : fn \in Pending => Done({fn})
  BY <1>4 DEF Done, Pending, ToSet
<1>6. /\ set.before \in Values /\ DOMAIN set.request = 1 .. Len(set.request)
      /\ Len(set.request) \in Nat
  BY <1>1, AskedFor
<1>7. /\ set' \in SetRecords /\ set'.pc = "idle" /\ set'.reply = "ok" /\ set'.fns = << >>
      /\ set'.i = 1 /\ set'.request = set.request /\ set'.before = set.before
      /\ \A o \in Options : Asked(o)' = Asked(o)
  BY <1>1, <1>2, AnsweredIsTyped DEF Asked
<1>8. SetTypes'
  BY <1>1, <1>2, <1>6, <1>7 DEF SetTypes
<1>9. AllOrNothing'
  <2>1. ASSUME NEW o \in Options, Asked(o) = {} PROVE values[o] = set.before[o]
    BY <1>3, <1>6, <2>1 DEF SetTo, Asked, OptionAt
  <2>2. ASSUME NEW o \in Options, Asked(o) # {}
        PROVE  values[o] = set.request[CHOOSE i \in Asked(o) : \A j \in Asked(o) : j <= i].text
    <3> DEFINE c == CHOOSE i \in Asked(o) : \A j \in Asked(o) : j <= i
    <3>1. Asked(o) \in SUBSET (1 .. Len(set.request))
      BY <1>6 DEF Asked
    <3>2. \E i \in Asked(o) : \A j \in Asked(o) : j <= i
      BY <1>6, <2>2, <3>1, LastPosition
    <3>3. c \in Asked(o) /\ \A j \in Asked(o) : j <= c
      BY <3>2
    <3> HIDE DEF c
    <3>4. c \in 1 .. Len(set.request) /\ OptionAt(c) = o
      BY <3>1, <3>3 DEF Asked, OptionAt
    <3>5. ASSUME NEW j \in c + 1 .. Len(set.request) PROVE OptionAt(j) # o
      <4>1. j \in 1 .. Len(set.request) /\ ~(j <= c)
        BY <1>6, <3>4
      <4>2. j \notin Asked(o)
        BY <3>3, <4>1
      <4> QED
        BY <1>6, <4>1, <4>2 DEF Asked, OptionAt
    <3>6. values[o] = set.request[c].text
      BY <1>3, <3>4, <3>5 DEF SetTo
    <3> QED
      BY <3>6 DEF c
  <2> QED
    BY <1>1, <1>7, <2>1, <2>2 DEF AllOrNothing
<1>10. Applied'
  <2>1. {"port", "bind", "maxclients"} \subseteq Options
    BY <1>2, ValuesFields
  <2>2. ListensAs(values)
    <3>1. CASE Done(Listeners)
      BY <1>3, <3>1
    <3>2. CASE ~Done(Listeners)
      <4>1. "updatePort" \notin Pending /\ "applyBind" \notin Pending
        BY <1>5, <3>2 DEF Done, Listeners
      <4>2. values["port"] = set.before["port"] /\ values["bind"] = set.before["bind"]
        BY <1>3, <2>1, <4>1, ApplyFns DEF Remembered, Fns, Listeners
      <4> QED
        BY <1>3, <3>2, <4>2 DEF ListensAs
    <3> QED
      BY <3>1, <3>2
  <2>3. HasRoomFor(values)
    <3>1. CASE "updateMaxclients" \in Pending
      BY <1>3, <1>5, <3>1
    <3>2. CASE "updateMaxclients" \notin Pending
      <4>1. values["maxclients"] = set.before["maxclients"]
        BY <1>3, <2>1, <3>2, ApplyFns DEF Remembered, Fns
      <4> QED
        BY <1>3, <4>1 DEF HasRoomFor
    <3> QED
      BY <3>1, <3>2
  <2> QED
    BY <1>1, <2>2, <2>3 DEF Applied, ListensAs, HasRoomFor, Listeners
<1> QED
  BY <1>7, <1>8, <1>9, <1>10
     DEF SetInv, BackedUp, WhileSetting, WhileApplying, WhileRestoring, WhileReapplying

LEMMA RestoreValuesKeeps ==
  ASSUME SetInv, RestoreValues
  PROVE  SetInv'
<1> DEFINE n == Len(set.request)
<1>1. /\ up /\ set.pc = "restore" /\ values' = Restored(values, n)
      /\ set' = [set EXCEPT !.pc = "reapply", !.i = 1]
      /\ UNCHANGED <<listener, capacity, broken, up>>
  BY DEF RestoreValues
<1>2. /\ SetTypes /\ BackedUp /\ WhileRestoring /\ set \in SetRecords /\ values \in Values
      /\ capacity \in Nat
  BY DEF SetInv, SetTypes
<1>3. /\ \A o \in Options : Asked(o) = {} => values[o] = set.before[o]
      /\ Pending \cap Listeners = {} => ListensAs(set.before)
      /\ HasRoomFor(set.before)
  BY <1>1, <1>2 DEF WhileRestoring
<1>4. /\ set.before \in Values /\ DOMAIN set.request = 1 .. n /\ n \in Nat
      /\ \A k \in DOMAIN set.request :
           /\ OptionAt(k) \in Options
           /\ set.old[k] = Shown(OptionAt(k), set.before[OptionAt(k)])
  BY <1>1, AskedFor
<1>5. /\ Len(set.fns) \in Nat
  BY <1>1, PendingFacts
<1>6. /\ values' \in Values
      /\ \A o \in Options :
           \/ values'[o] = set.before[o]
           \/ (\E k \in 1 .. n : OptionAt(k) = o) /\ values'[o] = Shown(o, set.before[o])
  <2>1. \A o \in Options : (\A k \in 1 .. n : OptionAt(k) # o) => values[o] = set.before[o]
    BY <1>3, <1>4 DEF Asked, OptionAt
  <2> HIDE DEF n
  <2>2. \A k \in 1 .. n : /\ OptionAt(k) \in Options
                          /\ set.old[k] = Shown(OptionAt(k), set.before[OptionAt(k)])
    BY <1>4
  <2> QED
    BY <1>1, <1>2, <1>4, <2>1, <2>2, RestoredFacts
<1>7. /\ set' \in SetRecords /\ set'.pc = "reapply" /\ set'.i = 1 /\ set'.request = set.request
      /\ set'.old = set.old /\ set'.before = set.before /\ set'.fns = set.fns
      /\ Pending' = Pending /\ \A k : OptionAt(k)' = OptionAt(k)
      /\ \A o \in Options : Asked(o)' = Asked(o)
  BY <1>1, <1>2 DEF SetRecords, Pending, OptionAt, Asked
<1>8. SetTypes' /\ BackedUp'
  BY <1>1, <1>2, <1>4, <1>6, <1>7 DEF SetTypes, BackedUp
<1>9. /\ values'.port = set.before.port /\ values'.bind = set.before.bind
      /\ values'.maxclients = set.before.maxclients
  BY <1>4, <1>6, RolledBackFields
<1>10. RolledBack(FALSE)'
  <2>1. \A o \in Options : (\E k \in 1 .. n : OptionAt(k) = o) => Asked(o)' # {}
    BY <1>4, <1>7 DEF Asked, OptionAt
  <2> QED
    BY <1>6, <1>7, <2>1 DEF RolledBack
<1>11. ~Done(Listeners)'
  <2>1. 1 .. set'.i - 1 = {}
    BY <1>7
  <2> QED
    BY <2>1 DEF Done
<1>12. Pending' \cap Listeners = {} => ListensAs(values)'
  BY <1>1, <1>3, <1>7, <1>9 DEF ListensAs
<1>13. HasRoomFor(values)'
  BY <1>1, <1>3, <1>9 DEF HasRoomFor
<1>14. WhileReapplying'
  BY <1>5, <1>7, <1>10, <1>11, <1>12, <1>13 DEF WhileReapplying, RolledBack
<1> QED
  BY <1>7, <1>8, <1>14
     DEF SetInv, WhileSetting, WhileApplying, WhileRestoring, AllOrNothing, Applied

LEMMA ReapplyKeeps ==
  ASSUME SetInv, NEW ok \in BOOLEAN, Reapply(ok)
  PROVE  SetInv'
<1> DEFINE fn == set.fns[set.i]
           Later(i) == \A k \in i .. Len(set.fns) : set.fns[k] # "updateMaxclients"
<1>1. /\ up /\ set.pc = "reapply" /\ set.i <= Len(set.fns) /\ up' = up
      /\ Apply(fn, ok, TRUE) /\ set' = [set EXCEPT !.i = set.i + 1]
  <2>1. set \in SetRecords
    BY DEF SetInv, SetTypes
  <2> QED
    BY <2>1 DEF Reapply, SetRecords
<1>2. /\ SetTypes /\ BackedUp /\ WhileReapplying /\ values \in Values /\ capacity \in Nat
      /\ broken \subseteq Fns /\ set \in SetRecords
  BY DEF SetInv, SetTypes
<1>3. /\ \A o \in Options :
           \/ values[o] = set.before[o]
           \/ Asked(o) # {} /\ values[o] = Shown(o, set.before[o])
           \/ o = "maxclients" /\ "updateMaxclients" \in broken /\ Later(set.i)
      /\ Done(Listeners) \/ Pending \cap Listeners = {} => ListensAs(values)
      /\ HasRoomFor(values)
  BY <1>1, <1>2 DEF WhileReapplying, RolledBack
<1>4. /\ set.i \in 1 .. Len(set.fns) /\ Len(set.fns) \in Nat /\ fn \in Fns /\ fn \in Pending
      /\ DOMAIN set.fns = 1 .. Len(set.fns) /\ set.i \in Nat /\ set.i >= 1
  BY <1>1, PendingFacts
<1>5. Len(set.request) \in Nat
  BY <1>1, AskedFor
<1> HIDE DEF fn
<1>6. /\ values' \in Values /\ \A o \in Options : o # "maxclients" => values'[o] = values[o]
      /\ ok \/ fn # "updateMaxclients" => values' = values
      /\ broken' \subseteq Fns /\ capacity' \in Nat
      /\ HasRoomFor(values)'
      /\ fn \in Listeners => ListensAs(values)'
      /\ fn = "updateMaxclients" =>
           listener' = listener /\ broken' \cap Listeners = broken \cap Listeners
      /\ fn = "updateMaxclients" /\ ~ok => "updateMaxclients" \in broken'
      /\ fn # "updateMaxclients" /\ "updateMaxclients" \in broken => "updateMaxclients" \in broken'
  BY <1>1, <1>2, <1>3, <1>4, ApplyFacts
<1>7. fn \in Listeners \/ fn = "updateMaxclients"
  BY <1>4 DEF Fns
<1>8. /\ set' \in SetRecords /\ set'.pc = "reapply" /\ set'.i = set.i + 1 /\ set'.request = set.request
      /\ set'.old = set.old /\ set'.before = set.before /\ set'.fns = set.fns
      /\ Pending' = Pending /\ \A k : OptionAt(k)' = OptionAt(k)
      /\ \A o \in Options : Asked(o)' = Asked(o)
  <2>1. set.i + 1 \in Nat
    BY <1>4
  <2>2. set' \in SetRecords
    <3> DEFINE j == set.i + 1
    <3> HIDE DEF j
    <3> QED
      BY <1>1, <1>2, <2>1 DEF SetRecords, j
  <2> QED
    BY <1>1, <1>2, <2>2 DEF SetRecords, Pending, OptionAt, Asked
<1>9. SetTypes' /\ BackedUp'
  <2>1. set.i + 1 <= Len(set.request) + 1
    BY <1>1, <1>2, <1>4, <1>5 DEF BackedUp
  <2>2. SetTypes'
    BY <1>1, <1>2, <1>4, <1>6, <1>8, <2>1 DEF SetTypes
  <2>3. BackedUp'
    BY <1>1, <1>2, <1>8 DEF BackedUp
  <2> QED
    BY <2>2, <2>3
<1>10. Later(set.i) => fn # "updateMaxclients" /\ Later(set.i + 1)
  <2>1. set.i \in set.i .. Len(set.fns) /\ \A k \in set.i + 1 .. Len(set.fns) : k \in set.i .. Len(set.fns)
    BY <1>4
  <2> QED
    BY <2>1 DEF fn
<1>11. fn = "updateMaxclients" => Later(set.i + 1)
  <2> SUFFICES ASSUME fn = "updateMaxclients", NEW k \in set.i + 1 .. Len(set.fns)
               PROVE  set.fns[k] # "updateMaxclients"
    OBVIOUS
  <2>1. k \in DOMAIN set.fns /\ set.i \in DOMAIN set.fns /\ k # set.i
    BY <1>4
  <2> QED
    BY <1>1, <1>2, <2>1 DEF BackedUp, fn
<1> HIDE DEF Later
<1>12. ASSUME NEW o \in Options
       PROVE  \/ values'[o] = set.before[o]
              \/ Asked(o) # {} /\ values'[o] = Shown(o, set.before[o])
              \/ o = "maxclients" /\ "updateMaxclients" \in broken' /\ Later(set.i + 1)
  <2>1. CASE fn = "updateMaxclients" /\ ~ok
    BY <1>3, <1>6, <1>10, <1>11, <2>1
  <2>2. CASE fn = "updateMaxclients" /\ ok
    BY <1>3, <1>6, <1>10, <2>2
  <2>3. CASE fn # "updateMaxclients"
    BY <1>3, <1>6, <1>10, <2>3
  <2> QED
    BY <2>1, <2>2, <2>3
<1>13. Done(Listeners)' \/ Pending' \cap Listeners = {} => ListensAs(values)'
  <2>1. Done(Listeners)' <=> Done(Listeners) \/ fn \in Listeners
    BY <1>4, <1>8, OneMoreDone DEF fn
  <2>2. CASE fn \in Listeners
    BY <1>6, <2>2
  <2>3. CASE fn \notin Listeners
    <3>1. /\ listener' = listener /\ broken' \cap Listeners = broken \cap Listeners
          /\ fn = "updateMaxclients"
      BY <1>6, <1>7, <2>3
    <3>2. values'["port"] = values["port"] /\ values'["bind"] = values["bind"]
      BY <1>2, <1>6, ValuesFields
    <3> QED
      BY <1>3, <1>8, <2>1, <2>3, <3>1, <3>2 DEF ListensAs
  <2> QED
    BY <2>2, <2>3
<1>14. WhileReapplying'
  <2>1. set'.i <= Len(set'.fns) + 1
    BY <1>1, <1>4, <1>8
  <2> QED
    BY <1>6, <1>8, <1>12, <1>13, <2>1 DEF WhileReapplying, RolledBack, Later
<1> QED
  BY <1>8, <1>9, <1>14
     DEF SetInv, WhileSetting, WhileApplying, WhileRestoring, AllOrNothing, Applied

LEMMA AllReappliedKeeps ==
  ASSUME SetInv, AllReapplied
  PROVE  SetInv'
<1>1. /\ up /\ set.pc = "reapply" /\ set.i > Len(set.fns) /\ set' = Answered("error")
      /\ UNCHANGED <<values, listener, capacity, broken, up>>
  BY DEF AllReapplied
<1>2. SetTypes /\ BackedUp /\ WhileReapplying /\ set \in SetRecords
  BY DEF SetInv, SetTypes
<1>3. /\ \A o \in Options :
           \/ values[o] = set.before[o]
           \/ Asked(o) # {} /\ values[o] = Shown(o, set.before[o])
           \/ o = "maxclients" /\ "updateMaxclients" \in broken
      /\ Done(Listeners) \/ Pending \cap Listeners = {} => ListensAs(values)
      /\ HasRoomFor(values) /\ set.i <= Len(set.fns) + 1
  BY <1>1, <1>2 DEF WhileReapplying, RolledBack
<1>4. /\ Len(set.fns) \in Nat /\ DOMAIN set.fns = 1 .. Len(set.fns)
      /\ set.i \in Nat /\ set.i - 1 = Len(set.fns)
  BY <1>1, <1>3, PendingFacts
<1>5. Len(set.request) \in Nat
  BY <1>1, AskedFor
<1>6. ListensAs(values)
  BY <1>3, <1>4 DEF Done, Pending, ToSet
<1>7. /\ set' \in SetRecords /\ set'.pc = "idle" /\ set'.reply = "error" /\ set'.fns = << >>
      /\ set'.i = 1 /\ set'.request = set.request /\ set'.before = set.before
      /\ \A o \in Options : Asked(o)' = Asked(o)
  BY <1>1, <1>2, AnsweredIsTyped DEF Asked
<1>8. SetTypes'
  BY <1>1, <1>2, <1>5, <1>7 DEF SetTypes
<1>9. AllOrNothing'
  BY <1>1, <1>3, <1>7 DEF AllOrNothing
<1>10. Applied'
  BY <1>1, <1>3, <1>6 DEF Applied, ListensAs, HasRoomFor, Listeners
<1> QED
  BY <1>7, <1>8, <1>9, <1>10
     DEF SetInv, BackedUp, WhileSetting, WhileApplying, WhileRestoring, WhileReapplying

LEMMA SetStepKeeps ==
  ASSUME SetInv, SetStep
  PROVE  SetInv'
  BY SetOneKeeps, AllSetKeeps, ApplyOneKeeps, AllAppliedKeeps, RestoreValuesKeeps, ReapplyKeeps,
     AllReappliedKeeps DEF SetStep

\* No command in progress: what is left of the invariant.
LEMMA NoSetFacts ==
  /\ NoSet \in SetRecords /\ NoSet.pc = "idle" /\ NoSet.reply = "none" /\ NoSet.i = 1
  /\ Len(NoSet.request) = 0
<1>1. << >> \in Seq(Fns) /\ << >> \in Seq(Seq(Int)) /\ << >> \in Seq([name : STRING, text : Seq(Int)])
  OBVIOUS
<1> QED
  BY <1>1 DEF NoSet, SetRecords

LEMMA NoSetKeeps ==
  ASSUME set' = NoSet, values' \in Values, capacity' \in Nat, up' \in BOOLEAN, broken' \subseteq Fns,
         up' => ListensAs(values)' /\ HasRoomFor(values)'
  PROVE  SetInv'
<1>1. set' \in SetRecords /\ set'.pc = "idle" /\ set'.reply = "none" /\ set'.i = 1 /\ Len(set'.request) = 0
  BY NoSetFacts
<1>2. SetTypes'
  BY <1>1 DEF SetTypes
<1>3. AllOrNothing' /\ Applied'
  BY <1>1 DEF AllOrNothing, Applied, ListensAs, HasRoomFor, Listeners
<1> QED
  BY <1>1, <1>2, <1>3
     DEF SetInv, BackedUp, WhileSetting, WhileApplying, WhileRestoring, WhileReapplying

LEMMA OthersKeep ==
  ASSUME SetInv, UNCHANGED <<configVars, up>>
  PROVE  SetInv'
<1>1. UNCHANGED <<values, listener, capacity, set, broken, up>> /\ SetInv
  BY DEF configVars
<1>2. SetTypes' /\ Applied'
  BY <1>1 DEF SetInv, SetTypes, Applied
<1>3. BackedUp'
  BY <1>1 DEF SetInv, BackedUp, OptionAt, Pending
<1>4. AllOrNothing'
  BY <1>1 DEF SetInv, AllOrNothing, Asked
<1>5. WhileSetting' /\ WhileApplying'
  BY <1>1 DEF SetInv, WhileSetting, WhileApplying, SetTo, Remembered, ListensAs, HasRoomFor,
         Done, OptionAt, Pending
<1>6. WhileRestoring' /\ WhileReapplying'
  BY <1>1 DEF SetInv, WhileRestoring, WhileReapplying, RolledBack, ListensAs, HasRoomFor,
         Done, Asked, Pending
<1> QED
  BY <1>2, <1>3, <1>4, <1>5, <1>6 DEF SetInv

-----------------------------------------------------------------------------
(* The steps of a rewrite, crashes and the start.                          *)

LEMMA NoRewriteIsTyped ==
  NoRewrite \in [pc : {"idle", "write", "rename", "syncdir"}, content : Seq(GoodLines),
                 of : Values, synced : BOOLEAN] /\ NoRewrite.pc = "idle"
<1>1. << >> \in Seq(GoodLines)
  OBVIOUS
<1> QED
  BY <1>1, ValuesAssumption DEF NoRewrite

LEMMA FilesAreGood ==
  ASSUME NEW lines \in Files
  PROVE  Whole(lines) \in [lines : Seq(GoodLines), synced : {TRUE}]
<1>1. lines \in Seq(GoodLines)
  BY FilesAssumption, LoadFacts
<1> QED
  BY <1>1 DEF Whole

LEMMA RewriteKeeps ==
  ASSUME ConfigInv, NEW order \in Orders, Rewrite(order)
  PROVE  ConfigInv'
<1>1. /\ up /\ set.pc = "idle" /\ set' = NoSet
      /\ UNCHANGED <<values, listener, capacity, broken, file, disk, saved, up>>
      /\ rewrite' = [NoRewrite EXCEPT !.pc = "write", !.of = values,
                                     !.content = Rewritten(file.lines, values, order)]
  BY DEF Rewrite, Idle
<1>2. values \in Values /\ file.lines \in Seq(GoodLines)
  BY DEF ConfigInv, SetInv, SetTypes, FileInv
<1>3. Rewritten(file.lines, values, order) \in Seq(GoodLines)
  BY <1>2, RewrittenIsGood
<1>4. FileInv'
  <2> DEFINE content == Rewritten(file.lines, values, order)
  <2> HIDE DEF content
  <2>1. /\ rewrite' \in [pc : {"idle", "write", "rename", "syncdir"}, content : Seq(GoodLines),
                         of : Values, synced : BOOLEAN]
        /\ rewrite'.pc = "write"
    BY <1>1, <1>2, <1>3, NoRewriteIsTyped DEF content
  <2> QED
    BY <1>1, <2>1 DEF ConfigInv, FileInv
<1>5. SetInv'
  <2>1. up' => ListensAs(values)' /\ HasRoomFor(values)'
    BY <1>1 DEF ConfigInv, SetInv, Applied, ListensAs, HasRoomFor, Listeners
  <2> QED
    BY <1>1, <2>1, NoSetKeeps DEF ConfigInv, SetInv, SetTypes
<1> QED
  BY <1>4, <1>5 DEF ConfigInv

LEMMA RewriteStepKeeps ==
  ASSUME ConfigInv, RewriteStep
  PROVE  ConfigInv'
<1>1. UNCHANGED <<configVars, up>>
  BY DEF RewriteStep, RewriteFails, Sync, Rename, SyncDir
<1>2. SetInv'
  BY <1>1, OthersKeep DEF ConfigInv
<1>3. FileInv
  BY DEF ConfigInv
<1>4. ASSUME RewriteFails PROVE FileInv'
  BY <1>3, <1>4, NoRewriteIsTyped DEF RewriteFails, FileInv
<1>5. ASSUME Sync PROVE FileInv'
  BY <1>3, <1>5 DEF Sync, FileInv
<1>6. ASSUME Rename PROVE FileInv'
  <2>1. /\ file' = [lines |-> rewrite.content, synced |-> rewrite.synced]
        /\ rewrite' = [rewrite EXCEPT !.pc = "syncdir"] /\ saved' = << >> /\ disk' = disk
        /\ rewrite.synced
    BY <1>3, <1>6 DEF Rename, Nothing, FileInv
  <2>2. file' \in [lines : Seq(GoodLines), synced : {TRUE}]
    BY <1>3, <2>1 DEF FileInv
  <2>3. saved' \in Seq(Values) /\ Len(saved') <= 1
    BY <2>1
  <2> QED
    BY <1>3, <2>1, <2>2, <2>3 DEF FileInv
<1>7. ASSUME SyncDir PROVE FileInv'
  <2>1. disk' = file /\ file' = file /\ saved' = <<rewrite.of>> /\ rewrite' = NoRewrite
    BY <1>7 DEF SyncDir
  <2>2. rewrite.of \in Values
    BY <1>3 DEF FileInv
  <2>3. saved' \in Seq(Values) /\ Len(saved') <= 1
    BY <2>1, <2>2
  <2> QED
    BY <1>3, <2>1, <2>3, NoRewriteIsTyped DEF FileInv
<1>8. FileInv'
  BY <1>4, <1>5, <1>6, <1>7 DEF RewriteStep
<1> QED
  BY <1>2, <1>8 DEF ConfigInv

LEMMA CrashKeeps ==
  ASSUME ConfigInv, ServerCrash \/ MachineCrash
  PROVE  ConfigInv'
<1>1. /\ up' = FALSE /\ set' = NoSet /\ rewrite' = NoRewrite /\ broken' = {} /\ saved' = saved
      /\ UNCHANGED <<values, capacity>>
  BY DEF ServerCrash, MachineCrash, Down
<1>2. SetInv'
  BY <1>1, NoSetKeeps DEF ConfigInv, SetInv, SetTypes
<1>3. FileInv
  BY DEF ConfigInv
<1>4. {file', disk'} \subseteq {file, disk}
  <2>1. CASE ServerCrash
    BY <2>1 DEF ServerCrash
  <2>2. CASE MachineCrash
    <3>1. PICK survivor \in {file, disk} :
            /\ file' = IF survivor.synced THEN survivor ELSE Whole(Garbage)
            /\ disk' = file'
      BY <2>2 DEF MachineCrash
    <3>2. survivor.synced
      BY <1>3 DEF FileInv
    <3> QED
      BY <3>1, <3>2
  <2> QED
    BY <2>1, <2>2
<1>5. FileInv'
  BY <1>1, <1>3, <1>4, NoRewriteIsTyped DEF FileInv
<1> QED
  BY <1>2, <1>5 DEF ConfigInv

LEMMA StartKeeps ==
  ASSUME ConfigInv, Start
  PROVE  ConfigInv'
<1>1. /\ ~up /\ up' = TRUE /\ values' = Load(file.lines).values
      /\ listener' = <<values'.port, values'.bind>> /\ capacity' = values'.maxclients[1]
      /\ UNCHANGED <<set, broken, fileVars>>
  BY DEF Start
<1>2. set' = NoSet /\ broken' \subseteq Fns
  BY <1>1 DEF ConfigInv, SetInv, SetTypes
<1>3. FileInv'
  BY <1>1 DEF ConfigInv, FileInv, fileVars
<1>4. file.lines \in Seq(FileLines)
  <2>1. file.lines \in Seq(GoodLines)
    BY DEF ConfigInv, FileInv
  <2> QED
    BY <2>1 DEF GoodLines
<1>5. values' \in Values
  BY <1>1, <1>4, LoadFacts
<1>6. capacity' \in Nat
  BY <1>1, <1>5, ValuesFields
<1>7. ListensAs(values)' /\ HasRoomFor(values)'
  BY <1>1, <1>6 DEF ListensAs, HasRoomFor
<1>8. SetInv'
  BY <1>1, <1>2, <1>5, <1>6, <1>7, NoSetKeeps
<1> QED
  BY <1>3, <1>8 DEF ConfigInv

-----------------------------------------------------------------------------
(* The invariant holds at the start and after every step.                  *)

LEMMA InitHolds ==
  ASSUME Init
  PROVE  ConfigInv
<1>1. PICK lines \in Files : file = Whole(lines)
  BY DEF Init
<1>2. file \in [lines : Seq(GoodLines), synced : {TRUE}] /\ file.lines = lines
  BY <1>1, FilesAreGood DEF Whole
<1>3. values \in Values
  BY <1>2, FilesAssumption, LoadFacts DEF Init
<1>4. capacity = values.maxclients[1] /\ capacity \in Nat /\ listener = <<values.port, values.bind>>
  BY <1>3, ValuesFields DEF Init
<1>5. FileInv
  <2>1. saved = << >> /\ disk = file /\ rewrite = NoRewrite
    BY DEF Init, Nothing
  <2>2. saved \in Seq(Values) /\ Len(saved) <= 1
    BY <2>1
  <2> QED
    BY <1>2, <2>1, <2>2, NoRewriteIsTyped DEF FileInv
<1>6. set = NoSet /\ broken = {} /\ up = TRUE
  BY DEF Init
<1>7. SetTypes
  BY <1>3, <1>4, <1>6, NoSetFacts DEF SetTypes
<1>8. AllOrNothing /\ Applied
  BY <1>4, <1>6, NoSetFacts DEF AllOrNothing, Applied
<1> QED
  BY <1>5, <1>6, <1>7, <1>8, NoSetFacts
     DEF ConfigInv, SetInv, BackedUp, WhileSetting, WhileApplying, WhileRestoring, WhileReapplying

LEMMA NextKeeps ==
  ASSUME ConfigInv, [Next]_vars
  PROVE  ConfigInv'
<1>1. SetInv /\ FileInv
  BY DEF ConfigInv
<1>2. CASE \E request \in Requests : ConfigSet(request)
  <2>1. SetInv'
    BY <1>1, <1>2, ConfigSetKeeps
  <2>2. FileInv'
    BY <1>1, <1>2 DEF ConfigSet, fileVars, FileInv
  <2> QED
    BY <2>1, <2>2 DEF ConfigInv
<1>3. CASE SetStep
  <2>1. SetInv'
    BY <1>1, <1>3, SetStepKeeps
  <2>2. UNCHANGED fileVars
    BY <1>3 DEF SetStep, SetOne, AllSet, ApplyOne, AllApplied, RestoreValues, Reapply, AllReapplied
  <2>3. FileInv'
    BY <1>1, <2>2 DEF fileVars, FileInv
  <2> QED
    BY <2>1, <2>3 DEF ConfigInv
<1>4. CASE \E order \in Orders : Rewrite(order)
  BY <1>4, RewriteKeeps
<1>5. CASE RewriteStep
  BY <1>5, RewriteStepKeeps
<1>6. CASE \E lines \in Files : Edit(lines)
  <2>1. PICK lines \in Files : Edit(lines)
    BY <1>6
  <2>2. /\ UNCHANGED <<configVars, rewrite, up>> /\ file' = Whole(lines) /\ disk' = Whole(lines)
        /\ saved' = << >>
    BY <2>1 DEF Edit, Nothing
  <2>3. saved' \in Seq(Values) /\ Len(saved') <= 1
    BY <2>2
  <2>4. SetInv' /\ FileInv'
    BY <1>1, <2>2, <2>3, OthersKeep, FilesAreGood DEF FileInv
  <2> QED
    BY <2>4 DEF ConfigInv
<1>7. CASE ServerCrash \/ MachineCrash
  BY <1>7, CrashKeeps
<1>8. CASE Start
  BY <1>8, StartKeeps
<1>9. CASE UNCHANGED vars
  <2>1. UNCHANGED <<configVars, up>> /\ UNCHANGED fileVars
    BY <1>9 DEF vars
  <2>2. SetInv' /\ FileInv'
    BY <1>1, <2>1, OthersKeep DEF fileVars, FileInv
  <2> QED
    BY <2>2 DEF ConfigInv
<1> QED
  BY <1>2, <1>3, <1>4, <1>5, <1>6, <1>7, <1>8, <1>9 DEF Next

LEMMA InvariantHolds ==
  Spec => []ConfigInv
<1>1. Init => ConfigInv
  BY InitHolds
<1>2. ConfigInv /\ [Next]_vars => ConfigInv'
  BY NextKeeps
<1> QED
  BY <1>1, <1>2, PTL DEF Spec

(***************************************************************************)
(* Every parameter always has a value of its kind, also one that was read  *)
(* from a file that a rewrite left, and the command and the rewrite are    *)
(* where their states say.                                                 *)
(***************************************************************************)
THEOREM TypeCorrect ==
  Spec => []TypeOK
<1>1. ConfigInv => TypeOK
  <2> SUFFICES ASSUME ConfigInv PROVE TypeOK
    OBVIOUS
  <2>1. /\ values \in Values /\ capacity \in Nat /\ up \in BOOLEAN /\ broken \subseteq Fns
        /\ set \in SetRecords /\ set.i >= 1 /\ set.i <= Len(set.request) + 1
    BY DEF ConfigInv, SetInv, SetTypes
  <2>2. set.request \in Seq([name : STRING, text : Seq(Int)]) /\ set.i \in Nat
    BY <2>1 DEF SetRecords
  <2>3. set.i \in 1 .. Len(set.request) + 1
    <3>1. Len(set.request) \in Nat
      BY <2>2
    <3> QED
      BY <2>1, <2>2, <3>1
  <2>4. saved \in Seq(Values) /\ Len(saved) <= 1
    BY DEF ConfigInv, FileInv
  <2>5. Len(saved) \in 0 .. 1
    <3> DEFINE n == Len(saved)
    <3>1. n \in Nat /\ n <= 1
      BY <2>4
    <3> HIDE DEF n
    <3>2. n \in 0 .. 1
      BY <3>1
    <3> QED
      BY <3>2 DEF n
  <2>6. rewrite.pc \in {"idle", "write", "rename", "syncdir"}
    BY DEF ConfigInv, FileInv
  <2> QED
    BY <2>1, <2>3, <2>5, <2>6 DEF TypeOK, SetRecords, Fns, Listeners
<1> QED
  BY <1>1, InvariantHolds, PTL

(***************************************************************************)
(* CONFIG SET sets all of its parameters or none: for every request, and   *)
(* wherever a setter or an apply function fails (config.c:779-803,         *)
(* 868-915).                                                               *)
(***************************************************************************)
THEOREM AllOrNothingCorrect ==
  Spec => []AllOrNothing
<1>1. ConfigInv => AllOrNothing
  BY DEF ConfigInv, SetInv
<1> QED
  BY <1>1, InvariantHolds, PTL

(***************************************************************************)
(* Between commands the server listens where its parameters say and has    *)
(* room for the clients that they allow (config.c:779-803, 905-915).       *)
(***************************************************************************)
THEOREM AppliedCorrect ==
  Spec => []Applied
<1>1. ConfigInv => Applied
  BY DEF ConfigInv, SetInv
<1> QED
  BY <1>1, InvariantHolds, PTL

LEMMA FileStarts ==
  ASSUME ConfigInv, NEW f \in {file, disk}
  PROVE  f.lines # Garbage /\ Load(f.lines).ok
<1>1. f.lines \in Seq(GoodLines)
  BY DEF ConfigInv, FileInv
<1>2. f.lines \in Seq(FileLines)
  BY <1>1 DEF GoodLines
<1>3. Load(f.lines).ok
  BY <1>1, <1>2, LoadFacts
<1>4. f.lines # Garbage
  <2>1. \A k \in DOMAIN f.lines : f.lines[k] \in FileLines
    BY <1>2, ElementsOf
  <2>2. Garbage[1].kind = "garbage" /\ 1 \in DOMAIN Garbage
    <3> DEFINE line == Line("garbage", "", << >>)
    <3>1. line.kind = "garbage"
      BY DEF Line
    <3>2. Garbage = <<line>>
      BY DEF Garbage
    <3> HIDE DEF line
    <3> QED
      BY <3>1, <3>2
  <2> QED
    BY <2>1, <2>2 DEF FileLines
<1> QED
  BY <1>3, <1>4

(***************************************************************************)
(* The configuration file is a whole one, from which the server starts,    *)
(* whatever was in it and wherever a rewrite or the machine stopped        *)
(* (config.c:1679-1747).                                                   *)
(***************************************************************************)
THEOREM FileIsWholeCorrect ==
  Spec => []FileIsWhole
<1>1. ConfigInv => FileIsWhole
  BY FileStarts DEF FileIsWhole
<1> QED
  BY <1>1, InvariantHolds, PTL

-----------------------------------------------------------------------------
(* What a rewrite leaves: each parameter in the lines that its rewriter    *)
(* wrote, and in no other.                                                 *)

\* The texts of a parameter's lines, and whether it may stand in lines, or in none.
TextsOf(o, v) ==
  IF o = "save" /\ v[o] # << >> THEN [i \in DOMAIN v[o] |-> <<v[o][i]>>] ELSE <<Shown(o, v[o])>>
MayStand(o, v) == ~(o = "user" /\ v[o] = << >>) /\ ~(o = "bind" /\ v[o] = Default[o])
MayMiss(o, v) == v[o] = Default[o] /\ o \notin {"save", "percentiles"}

\* The lines of used are those of the first m texts, in their order.
Listed(lines, used, o, texts, m) ==
  \E pos \in [1 .. m -> used] :
    /\ \A j \in 1 .. m : lines[pos[j]] = OptionLine(o, texts[j])
    /\ \A i, j \in 1 .. m : i < j => pos[i] < pos[j]
    /\ \A u \in used : \E j \in 1 .. m : pos[j] = u

Stands(lines, used, o, v) ==
  \/ MayStand(o, v) /\ Listed(lines, used, o, TextsOf(o, v), Len(TextsOf(o, v)))
  \/ MayMiss(o, v) /\ used = {}

\* A state of a rewrite whose numbers are those of lines, and the lines that were used.
Numbered(s) == s \in RewriteStates /\ \A q \in Options : s.at[q] \subseteq LineNumbers(q, s.lines)
UsedOf(s, o) == LineNumbers(o, s.lines) \ s.at[o]

\* Line k of r is the text of o: the first old line of o, or a new one.
Writes(s, r, o, text, k) ==
  /\ k \in DOMAIN r.lines /\ r.lines[k] = OptionLine(o, text)
  /\ DOMAIN s.lines \subseteq DOMAIN r.lines
  /\ \A i \in DOMAIN s.lines : i # k => r.lines[i] = s.lines[i]
  /\ IF k \in DOMAIN s.lines
       THEN k \in s.at[o] /\ (\A a \in s.at[o] : k <= a) /\ DOMAIN r.lines = DOMAIN s.lines
            /\ r.signed = s.signed
       ELSE s.at[o] = {} /\ r.signed
  /\ \A i \in DOMAIN r.lines \ DOMAIN s.lines :
       i = k \/ (~s.signed /\ i = Len(s.lines) + 1 /\ r.lines[i] = Signature)
  /\ k \notin DOMAIN s.lines /\ ~s.signed =>
       Len(s.lines) + 1 \in DOMAIN r.lines /\ r.lines[Len(s.lines) + 1] = Signature
  /\ r.at = [s.at EXCEPT ![o] = @ \ {k}]
  /\ r.processed = s.processed \cup {o}

LEMMA FirstOf ==
  ASSUME NEW T, T \subseteq Nat, T # {}
  PROVE  Min(T) \in T /\ \A x \in T : Min(T) <= x
<1>1. PICK n \in T : \A m \in T : ~(m < n)
  BY LeastOf
<1>2. \A m \in T : n <= m
  BY <1>1
<1> QED
  BY <1>2 DEF Min

LEMMA PlainKinds ==
  /\ Signature.kind = "signature" /\ Blank.kind = "blank" /\ Signature # Blank
  /\ \A name : Comment(name).kind = "comment" /\ Comment(name).name = name
  BY DEF Signature, Blank, Comment, Line

LEMMA LineNumbersOf ==
  ASSUME NEW lines \in Seq(GoodLines), NEW o \in Options
  PROVE  /\ LineNumbers(o, lines) \subseteq DOMAIN lines /\ DOMAIN lines = 1 .. Len(lines)
         /\ Len(lines) \in Nat /\ LineNumbers(o, lines) \subseteq Nat
  BY DEF LineNumbers

\* rewriteConfigRewriteLine(), when it writes and when it does not.
LEMMA LineIsWritten ==
  ASSUME NEW s, Numbered(s), NEW o \in Options, NEW text \in Seq(Int), Fits(o, text),
         NEW force \in BOOLEAN, s.at[o] # {} \/ force
  PROVE  LET r == RewriteLine(s, o, text, force)
         IN  r \in RewriteStates /\ \E k : Writes(s, r, o, text, k)
<1> DEFINE r == RewriteLine(s, o, text, force)
           line == OptionLine(o, text)
           first == Min(s.at[o])
           lines == s.lines
           at == s.at
           n == Len(lines)
<1>1. s \in RewriteStates /\ lines \in Seq(GoodLines) /\ at \in [Options -> SUBSET Nat]
  BY DEF Numbered, RewriteStates
<1>2. r \in RewriteStates
  BY <1>1, RewriteLineIsTyped
<1>3. n \in Nat /\ DOMAIN lines = 1 .. n
  BY <1>1
<1>4. CASE s.at[o] # {}
  <2>1. r = [s EXCEPT !.lines[first] = line, !.at[o] = @ \ {first}, !.processed = @ \cup {o}]
    BY <1>4 DEF RewriteLine
  <2>2. first \in at[o] /\ \A a \in at[o] : first <= a
    <3>1. at[o] \subseteq Nat
      BY <1>1
    <3> QED
      BY <1>4, <3>1, FirstOf
  <2>3. first \in DOMAIN lines
    BY <2>2 DEF Numbered, LineNumbers
  <2> HIDE DEF r, first, line
  <2>4. /\ r.lines = [lines EXCEPT ![first] = line] /\ r.at = [at EXCEPT ![o] = @ \ {first}]
        /\ r.processed = s.processed \cup {o} /\ r.signed = s.signed
    <3>1. s = [lines |-> lines, at |-> at, processed |-> s.processed, signed |-> s.signed]
      BY <1>1 DEF RewriteStates
    <3> QED
      BY <1>1, <2>1, <3>1
  <2>5. Writes(s, r, o, text, first)
    BY <2>2, <2>3, <2>4 DEF Writes, line
  <2> QED
    BY <1>2, <2>5 DEF r
<1>5. CASE s.at[o] = {}
  <2>1. r = [s EXCEPT !.lines = IF s.signed THEN Append(lines, line) ELSE lines \o <<Signature, line>>,
                   !.signed = TRUE, !.processed = @ \cup {o}]
    BY <1>5 DEF RewriteLine
  <2> DEFINE added == IF s.signed THEN Append(lines, line) ELSE lines \o <<Signature, line>>
             k == IF s.signed THEN n + 1 ELSE n + 2
  <2>2. s.signed \in BOOLEAN
    BY <1>1 DEF RewriteStates
  <2>3. /\ DOMAIN added = 1 .. k /\ added[k] = line /\ \A i \in 1 .. n : added[i] = lines[i]
        /\ ~s.signed => added[n + 1] = Signature
    <3>1. CASE s.signed
      BY <1>1, <1>3, <3>1
    <3>2. CASE ~s.signed
      <4> HIDE DEF Signature, line
      <4>1. added = lines \o <<Signature, line>> /\ k = n + 2
        BY <3>2
      <4>2. <<Signature, line>> \in Seq({Signature, line}) /\ Len(<<Signature, line>>) = 2
        OBVIOUS
      <4> DEFINE two == <<Signature, line>>
      <4>3. two[1] = Signature /\ two[2] = line
        OBVIOUS
      <4> HIDE DEF two
      <4>4. DOMAIN (lines \o two) = 1 .. n + 2 /\ (lines \o two)[n + 2] = two[2]
            /\ (\A i \in 1 .. n : (lines \o two)[i] = lines[i]) /\ (lines \o two)[n + 1] = two[1]
        BY <1>1, <1>3, <4>2 DEF two
      <4> QED
        BY <3>2, <4>1, <4>3, <4>4 DEF two
    <3> QED
      BY <2>2, <3>1, <3>2
  <2> HIDE DEF added, r
  <2>4. /\ r.lines = added /\ r.at = at /\ r.signed = TRUE /\ r.processed = s.processed \cup {o}
    BY <1>1, <2>1 DEF RewriteStates, added
  <2>5. at = [at EXCEPT ![o] = @ \ {k}]
    BY <1>1, <1>5
  <2> HIDE DEF line
  <2>6. Writes(s, r, o, text, k)
    <3>1. k \in Nat /\ k > n /\ (s.signed => k = n + 1) /\ (~s.signed => k = n + 2)
      BY <1>3
    <3> HIDE DEF k, n
    <3>2. \A i \in (1 .. k) \ (1 .. n) : i = k \/ (~s.signed /\ i = n + 1)
      BY <1>3, <3>1
    <3>3. ~s.signed => n + 1 \in 1 .. k
      BY <1>3, <3>1
    <3>4. k \in 1 .. k /\ k \notin 1 .. n /\ 1 .. n \subseteq 1 .. k
      BY <1>3, <3>1
    <3> QED
      BY <1>3, <1>5, <2>3, <2>4, <2>5, <3>2, <3>3, <3>4 DEF Writes, line, n
  <2> QED
    BY <1>2, <2>6 DEF r
<1> QED
  BY <1>4, <1>5

LEMMA LineIsNotWritten ==
  ASSUME NEW s, NEW o, NEW text, s.at[o] = {}
  PROVE  RewriteLine(s, o, text, FALSE) = MarkAsProcessed(s, o)
  BY DEF RewriteLine, MarkAsProcessed

\* The lines of o so far: the first m texts, before the old ones that are left.
Progress(s, o, texts, m) ==
  /\ Numbered(s) /\ Listed(s.lines, UsedOf(s, o), o, texts, m)
  /\ \A u \in UsedOf(s, o) : \A a \in s.at[o] : u < a

LEMMA OptionLineOf ==
  ASSUME NEW o \in Options, NEW text
  PROVE  /\ OptionLine(o, text).kind = "option" /\ OptionOf(OptionLine(o, text).name) = o
         /\ OptionLine(o, text).text = text
         /\ OptionLine(o, text) # Signature /\ OptionLine(o, text) # Blank
<1>1. o # "slave-priority"
  BY DEF Options
<1> QED
  BY <1>1 DEF OptionLine, Line, OptionOf, Signature, Blank

\* One more line of o.
LEMMA OneMoreLine ==
  ASSUME NEW s, NEW r \in RewriteStates, NEW o \in Options, NEW texts, NEW m \in Nat, NEW k,
         Progress(s, o, texts, m), Writes(s, r, o, texts[m + 1], k)
  PROVE  Progress(r, o, texts, m + 1)
<1>1. /\ s \in RewriteStates /\ s.lines \in Seq(GoodLines) /\ s.at \in [Options -> SUBSET Nat]
      /\ r.lines \in Seq(GoodLines) /\ r.at \in [Options -> SUBSET Nat]
  BY DEF Progress, Numbered, RewriteStates
<1>2. /\ k \in DOMAIN r.lines /\ r.lines[k] = OptionLine(o, texts[m + 1])
      /\ DOMAIN s.lines \subseteq DOMAIN r.lines
      /\ \A i \in DOMAIN s.lines : i # k => r.lines[i] = s.lines[i]
      /\ \A i \in DOMAIN r.lines \ DOMAIN s.lines : i = k \/ r.lines[i] = Signature
      /\ r.at = [s.at EXCEPT ![o] = @ \ {k}]
      /\ k \in DOMAIN s.lines => k \in s.at[o] /\ \A a \in s.at[o] : k <= a
      /\ k \notin DOMAIN s.lines => s.at[o] = {}
  BY DEF Writes
<1>3. DOMAIN s.lines = 1 .. Len(s.lines) /\ Len(s.lines) \in Nat
      /\ DOMAIN r.lines = 1 .. Len(r.lines) /\ Len(r.lines) \in Nat /\ k \in Nat
  BY <1>1, <1>2
<1>4. \A q \in Options : s.at[q] \subseteq LineNumbers(q, s.lines)
  BY DEF Progress, Numbered
<1>5. k \in DOMAIN s.lines => k \in LineNumbers(o, s.lines)
  BY <1>2, <1>4
<1>6. Signature.kind # "option"
  BY DEF Signature, Line
<1>7. \A q \in Options : LineNumbers(q, r.lines) = LineNumbers(q, s.lines) \cup (IF q = o THEN {k} ELSE {})
  <2> TAKE q \in Options
  <2>1. ASSUME NEW i \in DOMAIN s.lines, i # k
        PROVE  i \in LineNumbers(q, r.lines) <=> i \in LineNumbers(q, s.lines)
    BY <1>2, <2>1 DEF LineNumbers
  <2>2. k \in LineNumbers(q, r.lines) <=> q = o
    BY <1>2, OptionLineOf DEF LineNumbers
  <2>3. k \in LineNumbers(q, s.lines) => q = o
    BY <1>5 DEF LineNumbers
  <2>4. ASSUME NEW i \in DOMAIN r.lines \ DOMAIN s.lines, i # k
        PROVE  i \notin LineNumbers(q, r.lines)
    BY <1>2, <1>6, <2>4 DEF LineNumbers
  <2>5. LineNumbers(q, r.lines) \subseteq DOMAIN r.lines /\ LineNumbers(q, s.lines) \subseteq DOMAIN s.lines
    BY DEF LineNumbers
  <2> QED
    BY <1>2, <2>1, <2>2, <2>3, <2>4, <2>5
<1>8. Numbered(r)
  <2> SUFFICES ASSUME NEW q \in Options PROVE r.at[q] \subseteq LineNumbers(q, r.lines)
    BY DEF Numbered
  <2>1. r.at[q] \subseteq s.at[q]
    BY <1>1, <1>2
  <2> QED
    BY <1>4, <1>7, <2>1
<1>9. r.at[o] = s.at[o] \ {k}
  BY <1>1, <1>2
<1>10. UsedOf(r, o) = UsedOf(s, o) \cup {k}
  BY <1>4, <1>7, <1>9 DEF UsedOf
<1>11. \A u \in UsedOf(s, o) : u < k /\ u \in DOMAIN s.lines
  <2> TAKE u \in UsedOf(s, o)
  <2>1. u \in DOMAIN s.lines
    BY DEF UsedOf, LineNumbers
  <2>2. k \in s.at[o] => u < k
    BY DEF Progress
  <2>3. k \notin DOMAIN s.lines => u < k
    BY <1>2, <1>3, <2>1
  <2> QED
    BY <1>2, <2>1, <2>2, <2>3
<1>12. \A u \in UsedOf(r, o) : \A a \in r.at[o] : u < a
  <2> TAKE u \in UsedOf(r, o)
  <2> TAKE a \in r.at[o]
  <2>1. a \in s.at[o] /\ a # k /\ a \in Nat
    BY <1>1, <1>9
  <2>2. u \in UsedOf(s, o) => u < a
    BY <2>1 DEF Progress
  <2>3. k < a
    BY <1>2, <1>3, <2>1
  <2> QED
    BY <1>10, <2>2, <2>3
<1>13. Listed(r.lines, UsedOf(r, o), o, texts, m + 1)
  <2>1. PICK pos \in [1 .. m -> UsedOf(s, o)] :
          /\ \A j \in 1 .. m : s.lines[pos[j]] = OptionLine(o, texts[j])
          /\ \A i, j \in 1 .. m : i < j => pos[i] < pos[j]
          /\ \A u \in UsedOf(s, o) : \E j \in 1 .. m : pos[j] = u
    BY DEF Progress, Listed
  <2> DEFINE more == [j \in 1 .. m + 1 |-> IF j = m + 1 THEN k ELSE pos[j]]
  <2>2. \A j \in 1 .. m : more[j] = pos[j] /\ pos[j] \in UsedOf(s, o)
    BY <2>1
  <2>3. more[m + 1] = k /\ m + 1 \in 1 .. m + 1
    OBVIOUS
  <2>4. \A j \in 1 .. m + 1 : j = m + 1 \/ j \in 1 .. m
    OBVIOUS
  <2>5. more \in [1 .. m + 1 -> UsedOf(r, o)]
    BY <1>10, <2>2, <2>4
  <2> HIDE DEF more
  <2>6. \A j \in 1 .. m + 1 : r.lines[more[j]] = OptionLine(o, texts[j])
    <3> TAKE j \in 1 .. m + 1
    <3>1. CASE j = m + 1
      BY <1>2, <2>3, <3>1
    <3>2. CASE j \in 1 .. m
      <4>1. pos[j] \in DOMAIN s.lines /\ pos[j] # k
        BY <1>3, <1>11, <2>2, <3>2
      <4> QED
        BY <1>2, <2>1, <2>2, <3>2, <4>1
    <3> QED
      BY <2>4, <3>1, <3>2
  <2>7. \A i, j \in 1 .. m + 1 : i < j => more[i] < more[j]
    <3> SUFFICES ASSUME NEW i \in 1 .. m + 1, NEW j \in 1 .. m + 1, i < j PROVE more[i] < more[j]
      OBVIOUS
    <3>1. i \in 1 .. m
      OBVIOUS
    <3>2. CASE j = m + 1
      BY <1>11, <2>2, <2>3, <3>1, <3>2
    <3>3. CASE j \in 1 .. m
      BY <2>1, <2>2, <3>1, <3>3
    <3> QED
      BY <2>4, <3>2, <3>3
  <2>8. \A u \in UsedOf(r, o) : \E j \in 1 .. m + 1 : more[j] = u
    <3> TAKE u \in UsedOf(r, o)
    <3>1. CASE u = k
      BY <2>3, <3>1
    <3>2. CASE u \in UsedOf(s, o)
      BY <2>1, <2>2, <3>2
    <3> QED
      BY <1>10, <3>1, <3>2
  <2> QED
    BY <2>5, <2>6, <2>7, <2>8 DEF Listed
<1> QED
  BY <1>8, <1>12, <1>13 DEF Progress

\* What a rewriter of o does to the rest: it replaces lines of o, appends them, and signs the
\* file before the first that it appends.
NewSignatures(s, r) == {i \in DOMAIN r.lines \ DOMAIN s.lines : r.lines[i] = Signature}
Alters(s, r, o) ==
  /\ r \in RewriteStates /\ DOMAIN s.lines \subseteq DOMAIN r.lines
  /\ \A i \in DOMAIN s.lines :
       r.lines[i] = s.lines[i] \/ (i \in LineNumbers(o, s.lines) /\ i \in LineNumbers(o, r.lines))
  /\ \A i \in DOMAIN r.lines \ DOMAIN s.lines : i \in LineNumbers(o, r.lines) \/ r.lines[i] = Signature
  /\ \/ NewSignatures(s, r) = {} /\ r.signed = s.signed
     \/ ~s.signed /\ r.signed /\ \E i : NewSignatures(s, r) = {i}
  /\ \A q \in Options \ {o} : r.at[q] = s.at[q]
  /\ s.processed \subseteq r.processed /\ r.processed \subseteq s.processed \cup {o}

LEMMA WritesAlters ==
  ASSUME NEW s, NEW r \in RewriteStates, NEW o \in Options, NEW text, NEW k,
         Numbered(s), Writes(s, r, o, text, k)
  PROVE  Alters(s, r, o)
<1>1. s \in RewriteStates /\ s.at \in [Options -> SUBSET Nat]
  BY DEF Numbered, RewriteStates
<1>2. /\ k \in DOMAIN r.lines /\ r.lines[k] = OptionLine(o, text)
      /\ DOMAIN s.lines \subseteq DOMAIN r.lines
      /\ \A i \in DOMAIN s.lines : i # k => r.lines[i] = s.lines[i]
      /\ \A i \in DOMAIN r.lines \ DOMAIN s.lines :
           i = k \/ (~s.signed /\ i = Len(s.lines) + 1 /\ r.lines[i] = Signature)
      /\ k \notin DOMAIN s.lines /\ ~s.signed =>
           Len(s.lines) + 1 \in DOMAIN r.lines /\ r.lines[Len(s.lines) + 1] = Signature
      /\ r.at = [s.at EXCEPT ![o] = @ \ {k}]
      /\ r.processed = s.processed \cup {o}
  BY DEF Writes
<1>3. k \in LineNumbers(o, r.lines) /\ r.lines[k] # Signature
  BY <1>2, OptionLineOf DEF LineNumbers
<1>4. /\ k \in DOMAIN s.lines => /\ k \in LineNumbers(o, s.lines) /\ DOMAIN r.lines = DOMAIN s.lines
                                 /\ r.signed = s.signed
      /\ k \notin DOMAIN s.lines => r.signed
  BY DEF Writes, Numbered
<1>5. \A q \in Options \ {o} : r.at[q] = s.at[q]
  BY <1>1, <1>2
<1>6. \/ NewSignatures(s, r) = {} /\ r.signed = s.signed
      \/ ~s.signed /\ r.signed /\ \E i : NewSignatures(s, r) = {i}
  <2>1. CASE k \in DOMAIN s.lines
    BY <1>4, <2>1 DEF NewSignatures
  <2>2. CASE k \notin DOMAIN s.lines /\ s.signed
    <3>1. NewSignatures(s, r) = {}
      BY <1>2, <1>3, <2>2 DEF NewSignatures
    <3>2. r.signed \in BOOLEAN /\ s.signed \in BOOLEAN
      BY <1>1 DEF RewriteStates
    <3> QED
      BY <1>4, <2>2, <3>1, <3>2
  <2>3. CASE k \notin DOMAIN s.lines /\ ~s.signed
    <3>1. Len(s.lines) + 1 \notin DOMAIN s.lines
      BY <1>1 DEF RewriteStates
    <3>2. NewSignatures(s, r) = {Len(s.lines) + 1}
      BY <1>2, <1>3, <2>3, <3>1 DEF NewSignatures
    <3> QED
      BY <1>4, <2>3, <3>2
  <2> QED
    BY <2>1, <2>2, <2>3
<1> QED
  BY <1>2, <1>3, <1>4, <1>5, <1>6 DEF Alters

LEMMA MarkAlters ==
  ASSUME NEW s \in RewriteStates, NEW o \in Options
  PROVE  /\ Alters(s, MarkAsProcessed(s, o), o) /\ MarkAsProcessed(s, o).lines = s.lines
         /\ MarkAsProcessed(s, o).at = s.at /\ MarkAsProcessed(s, o).processed = s.processed \cup {o}
         /\ MarkAsProcessed(s, o).signed = s.signed
<1> DEFINE r == MarkAsProcessed(s, o)
<1>1. r = [s EXCEPT !.processed = @ \cup {o}]
  BY DEF MarkAsProcessed
<1>2. /\ r \in RewriteStates /\ r.lines = s.lines /\ r.at = s.at /\ r.signed = s.signed
      /\ r.processed = s.processed \cup {o}
  BY <1>1 DEF RewriteStates
<1> QED
  BY <1>2 DEF Alters, NewSignatures

LEMMA AltersTwice ==
  ASSUME NEW s \in RewriteStates, NEW r, NEW t, NEW o \in Options, Alters(s, r, o), Alters(r, t, o)
  PROVE  Alters(s, t, o)
<1>1. t \in RewriteStates /\ DOMAIN s.lines \subseteq DOMAIN r.lines /\ DOMAIN r.lines \subseteq DOMAIN t.lines
  BY DEF Alters
<1>2. ASSUME NEW i \in DOMAIN r.lines
      PROVE  t.lines[i] = r.lines[i] \/ (i \in LineNumbers(o, r.lines) /\ i \in LineNumbers(o, t.lines))
  BY DEF Alters
<1>3. ASSUME NEW i \in DOMAIN r.lines, i \in LineNumbers(o, r.lines) PROVE i \in LineNumbers(o, t.lines)
  BY <1>1, <1>2, <1>3 DEF LineNumbers
<1>4. ASSUME NEW i \in LineNumbers(o, r.lines) PROVE r.lines[i] # Signature
  BY PlainKinds DEF LineNumbers
<1>5. ASSUME NEW i \in LineNumbers(o, t.lines) PROVE t.lines[i] # Signature
  BY PlainKinds DEF LineNumbers
<1>6. ASSUME NEW i \in DOMAIN r.lines PROVE t.lines[i] = Signature <=> r.lines[i] = Signature
  BY <1>2, <1>4, <1>5
<1>7. NewSignatures(s, t) = NewSignatures(s, r) \cup NewSignatures(r, t)
  BY <1>1, <1>6 DEF NewSignatures
<1>8. \A i \in DOMAIN s.lines :
        t.lines[i] = s.lines[i] \/ (i \in LineNumbers(o, s.lines) /\ i \in LineNumbers(o, t.lines))
  <2> TAKE i \in DOMAIN s.lines
  <2>1. CASE r.lines[i] = s.lines[i]
    BY <1>1, <1>2, <2>1 DEF LineNumbers
  <2>2. CASE i \in LineNumbers(o, s.lines) /\ i \in LineNumbers(o, r.lines)
    BY <1>1, <1>3, <2>2
  <2> QED
    BY <2>1, <2>2 DEF Alters
<1>9. \A i \in DOMAIN t.lines \ DOMAIN s.lines : i \in LineNumbers(o, t.lines) \/ t.lines[i] = Signature
  <2> TAKE i \in DOMAIN t.lines \ DOMAIN s.lines
  <2>1. CASE i \in DOMAIN r.lines
    <3>1. i \in LineNumbers(o, r.lines) \/ r.lines[i] = Signature
      BY <2>1 DEF Alters
    <3> QED
      BY <1>3, <1>6, <2>1, <3>1
  <2>2. CASE i \notin DOMAIN r.lines
    BY <2>2 DEF Alters
  <2> QED
    BY <2>1, <2>2
<1>10. \/ NewSignatures(s, t) = {} /\ t.signed = s.signed
       \/ ~s.signed /\ t.signed /\ \E i : NewSignatures(s, t) = {i}
  <2>1. \/ NewSignatures(s, r) = {} /\ r.signed = s.signed
        \/ ~s.signed /\ r.signed /\ \E i : NewSignatures(s, r) = {i}
    BY DEF Alters
  <2>2. \/ NewSignatures(r, t) = {} /\ t.signed = r.signed
        \/ ~r.signed /\ t.signed /\ \E i : NewSignatures(r, t) = {i}
    BY DEF Alters
  <2> QED
    BY <1>7, <2>1, <2>2
<1>11. /\ \A q \in Options \ {o} : t.at[q] = s.at[q]
       /\ s.processed \subseteq t.processed /\ t.processed \subseteq s.processed \cup {o}
  BY DEF Alters
<1> QED
  BY <1>1, <1>8, <1>9, <1>10, <1>11 DEF Alters

\* The lines of the other parameters stay.
LEMMA AltersNoOther ==
  ASSUME NEW s, NEW r, NEW o \in Options, NEW q \in Options, q # o, Alters(s, r, o)
  PROVE  /\ LineNumbers(q, r.lines) = LineNumbers(q, s.lines) /\ r.at[q] = s.at[q]
         /\ \A i \in LineNumbers(q, s.lines) : r.lines[i] = s.lines[i]
         /\ q \in r.processed <=> q \in s.processed
<1>1. \A i \in LineNumbers(q, s.lines) : r.lines[i] = s.lines[i]
  BY DEF Alters, LineNumbers
<1>2. \A i \in LineNumbers(q, r.lines) : i \in DOMAIN s.lines /\ r.lines[i] = s.lines[i]
  BY PlainKinds DEF Alters, LineNumbers
<1>3. LineNumbers(q, r.lines) = LineNumbers(q, s.lines)
  BY <1>1, <1>2 DEF Alters, LineNumbers
<1> QED
  BY <1>1, <1>3 DEF Alters

LEMMA AltersNothing ==
  ASSUME NEW s \in RewriteStates, NEW o \in Options
  PROVE  Alters(s, s, o)
  BY DEF Alters, NewSignatures

LEMMA TextsFit ==
  ASSUME NEW o \in Options, NEW v \in Values
  PROVE  /\ TextsOf(o, v) \in Seq(Seq(Int)) /\ Len(TextsOf(o, v)) \in Nat /\ Len(TextsOf(o, v)) > 0
         /\ \A j \in 1 .. Len(TextsOf(o, v)) : TextsOf(o, v)[j] \in Seq(Int) /\ Fits(o, TextsOf(o, v)[j])
         /\ o # "save" => TextsOf(o, v) = <<Shown(o, v[o])>>
         /\ o = "save" /\ v[o] = << >> => TextsOf(o, v) = << << >> >>
         /\ o = "save" /\ v[o] # << >> => /\ Len(TextsOf(o, v)) = Len(v[o])
                                          /\ \A j \in 1 .. Len(v[o]) : TextsOf(o, v)[j] = <<v[o][j]>>
<1>1. CASE o # "save" \/ v[o] = << >>
  <2>1. TextsOf(o, v) = <<Shown(o, v[o])>>
    BY <1>1 DEF TextsOf
  <2>2. Shown(o, v[o]) \in Seq(Int) /\ Fits(o, Shown(o, v[o]))
    BY ShownFits
  <2>3. o = "save" => Shown(o, v[o]) = v[o]
    BY DEF Shown
  <2> DEFINE t == Shown(o, v[o])
  <2> HIDE DEF t
  <2>4. /\ <<t>> \in Seq({t}) /\ Len(<<t>>) = 1 /\ <<t>>[1] = t /\ \A j \in 1 .. 1 : j = 1
        /\ t \in Seq(Int) => <<t>> \in Seq(Seq(Int))
    OBVIOUS
  <2> QED
    BY <1>1, <2>1, <2>2, <2>3, <2>4 DEF t
<1>2. CASE o = "save" /\ v[o] # << >>
  <2> DEFINE points == v[o]
             n == Len(points)
  <2>1. points \in Seq(Int) /\ Legal(points)
    BY <1>2 DEF Values, Fits
  <2>2. n \in Nat /\ n > 0 /\ points \in [1 .. n -> Int] /\ DOMAIN points = 1 .. n
    BY <1>2, <2>1
  <2>3. TextsOf(o, v) = [i \in 1 .. n |-> <<points[i]>>]
    BY <1>2, <2>2 DEF TextsOf
  <2>4. \A i \in 1 .. n : points[i] \in Int /\ points[i] >= 0
    BY <2>1, <2>2 DEF Legal
  <2> HIDE DEF n, points
  <2>5. \A i \in 1 .. n : <<points[i]>> \in Seq(Int) /\ Len(<<points[i]>>) = 1 /\ <<points[i]>>[1] = points[i]
    BY <2>4
  <2>6. \A i \in 1 .. n : Fits(o, <<points[i]>>)
    <3> TAKE i \in 1 .. n
    <3>1. \A j \in DOMAIN <<points[i]>> : j = 1
      OBVIOUS
    <3>2. Legal(<<points[i]>>)
      BY <2>4, <2>5, <3>1 DEF Legal
    <3> QED
      BY <1>2, <3>2 DEF Fits, Numeric
  <2>7. Len(TextsOf(o, v)) = n /\ TextsOf(o, v) \in Seq(Seq(Int))
    BY <2>2, <2>3, <2>5
  <2>8. \A i \in 1 .. n : TextsOf(o, v)[i] = <<points[i]>>
    BY <2>3
  <2> QED
    BY <1>2, <2>2, <2>5, <2>6, <2>7, <2>8 DEF n, points
<1> QED
  BY <1>1, <1>2

\* o is rewritten: nothing of it was yet in s.
Fresh(s, o) == Numbered(s) /\ s.at[o] = LineNumbers(o, s.lines)
Rewrote(s, r, o, v) ==
  /\ Numbered(r) /\ Alters(s, r, o) /\ o \in r.processed
  /\ Stands(r.lines, UsedOf(r, o), o, v)

LEMMA FreshProgress ==
  ASSUME NEW s, NEW o \in Options, NEW texts, Fresh(s, o)
  PROVE  Progress(s, o, texts, 0) /\ UsedOf(s, o) = {}
<1>1. UsedOf(s, o) = {}
  BY DEF Fresh, UsedOf
<1>2. Listed(s.lines, {}, o, texts, 0)
  <2> DEFINE pos == [j \in 1 .. 0 |-> 0]
  <2>1. 1 .. 0 = {}
    OBVIOUS
  <2>2. pos \in [1 .. 0 -> {}]
    BY <2>1
  <2> HIDE DEF pos
  <2> QED
    BY <2>1, <2>2 DEF Listed
<1> QED
  BY <1>1, <1>2 DEF Progress, Fresh

LEMMA OneLineRewritten ==
  ASSUME NEW s, NEW o \in Options, NEW v \in Values, Fresh(s, o), MayStand(o, v),
         TextsOf(o, v) = <<Shown(o, v[o])>>, NEW force \in BOOLEAN, s.at[o] # {} \/ force
  PROVE  Rewrote(s, RewriteLine(s, o, Shown(o, v[o]), force), o, v)
<1> DEFINE text == Shown(o, v[o])
           texts == TextsOf(o, v)
           r == RewriteLine(s, o, text, force)
<1>1. text \in Seq(Int) /\ Fits(o, text)
  BY ShownFits
<1>2. texts[1] = text /\ Len(texts) = 1
  <2> HIDE DEF text
  <2>1. texts = <<text>>
    BY DEF text
  <2> HIDE DEF texts
  <2> QED
    BY <2>1
<1> HIDE DEF text, texts
<1>3. r \in RewriteStates /\ \E k : Writes(s, r, o, text, k)
  <2>1. Numbered(s)
    BY DEF Fresh
  <2> QED
    BY <1>1, <2>1, LineIsWritten
<1> HIDE DEF r
<1>4. PICK k : Writes(s, r, o, text, k)
  BY <1>3
<1>5. Writes(s, r, o, texts[0 + 1], k)
  BY <1>2, <1>4
<1>6. Progress(r, o, texts, 0 + 1)
  <2>1. Progress(s, o, texts, 0) /\ 0 \in Nat
    BY FreshProgress
  <2> QED
    BY <1>3, <1>5, <2>1, OneMoreLine
<1>7. Listed(r.lines, UsedOf(r, o), o, texts, Len(texts)) /\ Numbered(r)
  BY <1>2, <1>6 DEF Progress
<1>8. Alters(s, r, o)
  BY <1>3, <1>4, WritesAlters DEF Fresh
<1>9. o \in r.processed
  BY <1>4 DEF Writes
<1> QED
  BY <1>7, <1>8, <1>9 DEF Rewrote, Stands, r, text, texts

LEMMA NoLineRewritten ==
  ASSUME NEW s, NEW o \in Options, NEW v \in Values, Fresh(s, o), MayMiss(o, v)
  PROVE  Rewrote(s, MarkAsProcessed(s, o), o, v)
<1> DEFINE r == MarkAsProcessed(s, o)
<1>1. s \in RewriteStates
  BY DEF Fresh, Numbered
<1>2. /\ Alters(s, r, o) /\ r.lines = s.lines /\ r.at = s.at /\ r.processed = s.processed \cup {o}
  BY <1>1, MarkAlters
<1>3. Numbered(r)
  BY <1>2 DEF Numbered, Fresh, Alters
<1>4. UsedOf(r, o) = {}
  BY <1>2 DEF UsedOf, Fresh
<1> QED
  BY <1>2, <1>3, <1>4 DEF Rewrote, Stands

LEMMA SaveRewritten ==
  ASSUME NEW s, NEW v \in Values, Fresh(s, "save"), "save" \in Options
  PROVE  Rewrote(s, RewriteSave(s, "save", v), "save", v)
<1> DEFINE texts == TextsOf("save", v)
<1>1. MayStand("save", v)
  BY DEF MayStand
<1>2. CASE v["save"] = << >>
  <2>1. Shown("save", v["save"]) = << >>
    BY <1>2 DEF Shown
  <2>2. RewriteSave(s, "save", v) = RewriteLine(s, "save", Shown("save", v["save"]), TRUE)
    BY <1>2, <2>1 DEF RewriteSave
  <2>3. texts = <<Shown("save", v["save"])>>
    BY <1>2 DEF TextsOf
  <2> QED
    BY <1>1, <2>2, <2>3, OneLineRewritten
<1>3. CASE v["save"] # << >>
  <2> DEFINE points == v["save"]
             n == Len(points)
             fold == FoldLeft(LAMBDA r, point : RewriteLine(r, "save", <<point>>, TRUE), s, points)
  <2>1. points \in Seq(Int) /\ Legal(points) /\ s \in RewriteStates
    BY DEF Values, Fits, Fresh, Numbered
  <2>2. RewriteSave(s, "save", v) = fold
    BY <1>3 DEF RewriteSave
  <2>3. /\ Len(texts) = n
        /\ \A j \in 1 .. n : texts[j] = <<points[j]>> /\ texts[j] \in Seq(Int) /\ Fits("save", texts[j])
    BY <1>3, TextsFit
  <2>4. PICK r : /\ r \in [0 .. n -> RewriteStates] /\ r[0] = s
                 /\ \A k \in 1 .. n : r[k] = RewriteLine(r[k - 1], "save", <<points[k]>>, TRUE)
                 /\ fold = r[n]
    BY <2>1, SavePointRuns, Zenon
  <2>5. n \in Nat /\ n > 0
    BY <1>3, <2>1
  <2> HIDE DEF fold, n, points, texts
  <2> DEFINE P == {k \in Nat : k <= n =>
                     /\ Progress(r[k], "save", texts, k) /\ Alters(s, r[k], "save")
                     /\ k > 0 => "save" \in r[k].processed}
  <2>6. 0 \in P
    <3>1. Progress(s, "save", texts, 0)
      BY FreshProgress
    <3>2. Alters(s, s, "save")
      BY <2>1, AltersNothing
    <3> QED
      BY <2>4, <3>1, <3>2
  <2>7. ASSUME NEW k \in Nat, k \in P PROVE k + 1 \in P
    <3> SUFFICES ASSUME k + 1 <= n
                 PROVE  /\ Progress(r[k + 1], "save", texts, k + 1) /\ Alters(s, r[k + 1], "save")
                        /\ "save" \in r[k + 1].processed
      OBVIOUS
    <3>1. k <= n /\ k + 1 \in 1 .. n /\ (k + 1) - 1 = k /\ k + 1 \in 0 .. n
      BY <2>5
    <3>2. Progress(r[k], "save", texts, k) /\ Alters(s, r[k], "save")
      BY <2>7, <3>1
    <3> DEFINE q == r[k]
               t == r[k + 1]
    <3>3. t = RewriteLine(q, "save", texts[k + 1], TRUE) /\ t \in RewriteStates
      BY <2>3, <2>4, <3>1
    <3>4. Numbered(q)
      BY <3>2 DEF Progress
    <3>5. texts[k + 1] \in Seq(Int) /\ Fits("save", texts[k + 1])
      BY <2>3, <3>1
    <3> HIDE DEF q, t
    <3>6. \E i : Writes(q, t, "save", texts[k + 1], i)
      BY <3>3, <3>4, <3>5, LineIsWritten
    <3>7. PICK i : Writes(q, t, "save", texts[k + 1], i)
      BY <3>6
    <3>8. Progress(t, "save", texts, k + 1)
      <4>1. Progress(q, "save", texts, k)
        BY <3>2 DEF q
      <4> QED
        BY <3>3, <3>7, <4>1, OneMoreLine
    <3>9. Alters(q, t, "save")
      BY <3>3, <3>4, <3>7, WritesAlters
    <3>10. Alters(s, t, "save")
      BY <2>1, <3>2, <3>9, AltersTwice DEF q
    <3>11. "save" \in t.processed
      BY <3>7 DEF Writes
    <3> QED
      BY <3>8, <3>10, <3>11 DEF t
  <2>8. n \in P
    <3> HIDE DEF P
    <3>1. Nat \subseteq P
      BY <2>6, <2>7, InductionOver
    <3> QED
      BY <2>5, <3>1
  <2>9. Progress(r[n], "save", texts, n) /\ Alters(s, r[n], "save") /\ "save" \in r[n].processed
    BY <2>5, <2>8
  <2>10. Stands(r[n].lines, UsedOf(r[n], "save"), "save", v) /\ Numbered(r[n])
    BY <1>1, <2>3, <2>9 DEF Stands, Progress, texts
  <2> QED
    BY <2>2, <2>4, <2>9, <2>10 DEF Rewrote
<1> QED
  BY <1>2, <1>3

\* config->interface.rewrite() of any parameter.
LEMMA OptionRewritten ==
  ASSUME NEW s, NEW o \in Options, NEW v \in Values, Fresh(s, o)
  PROVE  Rewrote(s, RewriteOption(s, o, v), o, v)
<1>1. s \in RewriteStates
  BY DEF Fresh, Numbered
<1>2. o # "save" => TextsOf(o, v) = <<Shown(o, v[o])>>
  BY TextsFit
<1>3. o \notin {"save", "percentiles"} => Shown(o, v[o]) = v[o]
  BY DEF Shown
<1>4. ASSUME o \notin {"save", "percentiles", "bind"}, o = "user" => v[o] # << >>
      PROVE  Rewrote(s, RewriteNumber(s, o, v), o, v)
  <2>1. MayStand(o, v)
    BY <1>4 DEF MayStand
  <2>2. RewriteNumber(s, o, v) = RewriteLine(s, o, Shown(o, v[o]), v[o] # Default[o])
    BY <1>3, <1>4 DEF RewriteNumber
  <2>3. CASE s.at[o] # {} \/ v[o] # Default[o]
    <3>1. (v[o] # Default[o]) \in BOOLEAN
      OBVIOUS
    <3> QED
      BY <1>2, <1>4, <2>1, <2>2, <2>3, <3>1, OneLineRewritten
  <2>4. CASE s.at[o] = {} /\ v[o] = Default[o]
    <3>1. MayMiss(o, v)
      BY <1>4, <2>4 DEF MayMiss
    <3>2. (v[o] # Default[o]) = FALSE
      BY <2>4
    <3>3. RewriteNumber(s, o, v) = MarkAsProcessed(s, o)
      BY <2>2, <2>4, <3>2, LineIsNotWritten
    <3> QED
      BY <3>1, <3>3, NoLineRewritten
  <2> QED
    BY <2>3, <2>4
<1>5. CASE o \in Numeric
  <2>1. RewriteOption(s, o, v) = RewriteNumber(s, o, v)
    BY <1>5, OptionKinds DEF RewriteOption
  <2>2. o \notin {"save", "percentiles", "bind", "user"}
    BY <1>5, OptionKinds
  <2> QED
    BY <1>4, <2>1, <2>2
<1>6. CASE o = "user"
  <2>1. o \notin Numeric
    BY <1>6 DEF Numeric
  <2>2. RewriteOption(s, o, v) = RewriteString(s, o, v)
    BY <1>6, <2>1 DEF RewriteOption
  <2>3. CASE v[o] = << >>
    <3>1. RewriteOption(s, o, v) = MarkAsProcessed(s, o)
      BY <2>2, <2>3 DEF RewriteString
    <3>2. MayMiss(o, v)
      BY <1>6, <2>3, ValuesAssumption DEF MayMiss
    <3> QED
      BY <3>1, <3>2, NoLineRewritten
  <2>4. CASE v[o] # << >>
    <3>1. RewriteOption(s, o, v) = RewriteNumber(s, o, v)
      BY <2>2, <2>4 DEF RewriteString
    <3> QED
      BY <1>4, <1>6, <2>4, <3>1
  <2> QED
    BY <2>3, <2>4
<1>7. CASE o = "bind"
  <2>1. o \notin Numeric
    BY <1>7 DEF Numeric
  <2>2. RewriteOption(s, o, v) = RewriteBind(s, o, v)
    BY <1>7, <2>1 DEF RewriteOption
  <2>3. CASE v[o] = Default[o]
    <3>1. RewriteOption(s, o, v) = MarkAsProcessed(s, o)
      BY <2>2, <2>3 DEF RewriteBind
    <3>2. MayMiss(o, v)
      BY <1>7, <2>3 DEF MayMiss
    <3> QED
      BY <3>1, <3>2, NoLineRewritten
  <2>4. CASE v[o] # Default[o]
    <3>1. RewriteOption(s, o, v) = RewriteLine(s, o, Shown(o, v[o]), TRUE)
      BY <1>3, <1>7, <2>2, <2>4 DEF RewriteBind
    <3>2. MayStand(o, v)
      BY <1>7, <2>4 DEF MayStand
    <3> QED
      BY <1>2, <1>7, <3>1, <3>2, OneLineRewritten
  <2> QED
    BY <2>3, <2>4
<1>8. CASE o = "save"
  <2>1. o \notin Numeric
    BY <1>8 DEF Numeric
  <2>2. RewriteOption(s, o, v) = RewriteSave(s, o, v)
    BY <1>8, <2>1 DEF RewriteOption
  <2> QED
    BY <1>8, <2>2, SaveRewritten
<1>9. CASE o = "percentiles"
  <2>1. o \notin Numeric
    BY <1>9 DEF Numeric
  <2>2. RewriteOption(s, o, v) = RewriteLine(s, o, Shown(o, v[o]), TRUE)
    BY <1>9, <2>1 DEF RewriteOption, RewritePercentiles
  <2>3. MayStand(o, v)
    BY <1>9 DEF MayStand
  <2> QED
    BY <1>2, <1>9, <2>2, <2>3, OneLineRewritten
<1> QED
  BY <1>5, <1>6, <1>7, <1>8, <1>9, OptionKinds

\* What a line becomes when the parameters do not know it.
KnownLine(line) == IF line.kind = "deprecated" THEN Comment(line.name) ELSE line

LEMMA KnownIs ==
  ASSUME NEW text \in Seq(GoodLines)
  PROVE  /\ Known(text) \in Seq(GoodLines) /\ Len(Known(text)) = Len(text)
         /\ DOMAIN Known(text) = DOMAIN text
         /\ \A i \in DOMAIN text : Known(text)[i] = KnownLine(text[i])
<1> DEFINE n == Len(text)
<1>1. PICK r : /\ r \in [0 .. n -> Seq(GoodLines)] /\ r[0] = << >>
               /\ \A k \in 1 .. n : r[k] = AddKnown(r[k - 1], text[k])
               /\ Known(text) = r[n]
  BY KnownRuns, Zenon
<1>2. n \in Nat /\ DOMAIN text = 1 .. n
  OBVIOUS
<1> HIDE DEF n
<1> DEFINE P == {k \in Nat : k <= n =>
                   Len(r[k]) = k /\ \A i \in 1 .. k : r[k][i] = KnownLine(text[i])}
<1>3. 0 \in P
  BY <1>1
<1>4. ASSUME NEW k \in Nat, k \in P PROVE k + 1 \in P
  <2> SUFFICES ASSUME k + 1 <= n
               PROVE  Len(r[k + 1]) = k + 1 /\ \A i \in 1 .. k + 1 : r[k + 1][i] = KnownLine(text[i])
    OBVIOUS
  <2>1. k <= n /\ k + 1 \in 1 .. n /\ (k + 1) - 1 = k /\ k \in 0 .. n
    BY <1>2
  <2>2. r[k + 1] = Append(r[k], KnownLine(text[k + 1]))
    BY <1>1, <2>1 DEF AddKnown, KnownLine
  <2>3. r[k] \in Seq(GoodLines) /\ Len(r[k]) = k /\ \A i \in 1 .. k : r[k][i] = KnownLine(text[i])
    BY <1>1, <1>4, <2>1
  <2> DEFINE q == r[k]
             line == KnownLine(text[k + 1])
  <2> HIDE DEF q, line
  <2>4. q \in Seq(GoodLines) /\ Len(q) = k
    BY <2>3 DEF q
  <2>5. Len(Append(q, line)) = k + 1 /\ Append(q, line)[k + 1] = line
        /\ \A i \in 1 .. k : Append(q, line)[i] = q[i]
    BY <2>4
  <2>6. \A i \in 1 .. k + 1 : i = k + 1 \/ i \in 1 .. k
    OBVIOUS
  <2> QED
    BY <2>2, <2>3, <2>5, <2>6 DEF q, line
<1>5. n \in P
  <2> HIDE DEF P
  <2>1. Nat \subseteq P
    BY <1>3, <1>4, InductionOver
  <2> QED
    BY <1>2, <2>1
<1>6. Known(text) \in Seq(GoodLines)
  BY KnownIsGood
<1> QED
  BY <1>1, <1>2, <1>5, <1>6 DEF n

LEMMA ReadOldFileFacts ==
  ASSUME NEW lines \in Seq(GoodLines)
  PROVE  LET s    == ReadOldFile(lines)
             text == IF lines = << >> THEN << >> ELSE Append(lines, Blank)
         IN  /\ s \in RewriteStates /\ text \in Seq(GoodLines)
             /\ \A o \in Options : Fresh(s, o)
             /\ DOMAIN s.lines = DOMAIN text
             /\ \A i \in DOMAIN text : s.lines[i] = KnownLine(text[i])
             /\ s.signed <=> \E i \in DOMAIN text : text[i] = Signature
<1> DEFINE s == ReadOldFile(lines)
           text == IF lines = << >> THEN << >> ELSE Append(lines, Blank)
<1>1. text \in Seq(GoodLines)
  BY PlainLinesAreGood
<1>2. s = [lines |-> Known(text), at |-> [o \in Options |-> LineNumbers(o, text)], processed |-> {},
           signed |-> \E i \in DOMAIN text : text[i] = Signature]
  BY DEF ReadOldFile
<1>3. s \in RewriteStates
  BY ReadOldFileIsTyped
<1> HIDE DEF text, s
<1>4. /\ s.lines = Known(text) /\ s.at = [o \in Options |-> LineNumbers(o, text)]
      /\ s.signed <=> \E i \in DOMAIN text : text[i] = Signature
  BY <1>2
<1>5. /\ DOMAIN s.lines = DOMAIN text
      /\ \A i \in DOMAIN text : s.lines[i] = KnownLine(text[i])
  BY <1>1, <1>4, KnownIs
<1>6. \A o \in Options : LineNumbers(o, s.lines) = LineNumbers(o, text)
  <2>1. \A i \in DOMAIN text : (s.lines[i].kind = "option" \/ text[i].kind = "option") => s.lines[i] = text[i]
    BY <1>5, PlainKinds DEF KnownLine
  <2> QED
    BY <1>5, <2>1 DEF LineNumbers
<1>7. \A o \in Options : Fresh(s, o)
  BY <1>3, <1>4, <1>6 DEF Fresh, Numbered
<1> QED
  BY <1>1, <1>3, <1>4, <1>5, <1>7 DEF s, text

\* What the rewriters of all parameters do to the rest.
Keeps(s, r) ==
  /\ r \in RewriteStates /\ DOMAIN s.lines \subseteq DOMAIN r.lines
  /\ \A i \in DOMAIN s.lines :
       r.lines[i] = s.lines[i] \/ (s.lines[i].kind = "option" /\ r.lines[i].kind = "option")
  /\ \A i \in DOMAIN r.lines \ DOMAIN s.lines : r.lines[i].kind = "option" \/ r.lines[i] = Signature
  /\ \/ NewSignatures(s, r) = {} /\ r.signed = s.signed
     \/ ~s.signed /\ r.signed /\ \E i : NewSignatures(s, r) = {i}

LEMMA KeepsNothing ==
  ASSUME NEW s \in RewriteStates
  PROVE  Keeps(s, s)
  BY DEF Keeps, NewSignatures

LEMMA KeepsMore ==
  ASSUME NEW s \in RewriteStates, NEW r, NEW t, NEW o \in Options, Keeps(s, r), Alters(r, t, o)
  PROVE  Keeps(s, t)
<1>1. t \in RewriteStates /\ DOMAIN s.lines \subseteq DOMAIN r.lines /\ DOMAIN r.lines \subseteq DOMAIN t.lines
  BY DEF Keeps, Alters
<1>2. ASSUME NEW i \in DOMAIN r.lines
      PROVE  t.lines[i] = r.lines[i] \/ (r.lines[i].kind = "option" /\ t.lines[i].kind = "option")
  BY DEF Alters, LineNumbers
<1>3. ASSUME NEW i \in DOMAIN r.lines PROVE t.lines[i] = Signature <=> r.lines[i] = Signature
  BY <1>2, PlainKinds
<1>4. NewSignatures(s, t) = NewSignatures(s, r) \cup NewSignatures(r, t)
  BY <1>1, <1>3 DEF NewSignatures
<1>5. \A i \in DOMAIN s.lines :
        t.lines[i] = s.lines[i] \/ (s.lines[i].kind = "option" /\ t.lines[i].kind = "option")
  <2> TAKE i \in DOMAIN s.lines
  <2>1. t.lines[i] = r.lines[i] \/ (r.lines[i].kind = "option" /\ t.lines[i].kind = "option")
    BY <1>1, <1>2
  <2>2. r.lines[i] = s.lines[i] \/ (s.lines[i].kind = "option" /\ r.lines[i].kind = "option")
    BY DEF Keeps
  <2> QED
    BY <2>1, <2>2
<1>6. \A i \in DOMAIN t.lines \ DOMAIN s.lines : t.lines[i].kind = "option" \/ t.lines[i] = Signature
  <2> TAKE i \in DOMAIN t.lines \ DOMAIN s.lines
  <2>1. CASE i \in DOMAIN r.lines
    <3>1. r.lines[i].kind = "option" \/ r.lines[i] = Signature
      BY <2>1 DEF Keeps
    <3>2. t.lines[i] = r.lines[i] \/ t.lines[i].kind = "option"
      BY <1>2, <2>1
    <3> QED
      BY <3>1, <3>2
  <2>2. CASE i \notin DOMAIN r.lines
    BY <2>2 DEF Alters, LineNumbers
  <2> QED
    BY <2>1, <2>2
<1>7. \/ NewSignatures(s, t) = {} /\ t.signed = s.signed
      \/ ~s.signed /\ t.signed /\ \E i : NewSignatures(s, t) = {i}
  <2>1. \/ NewSignatures(s, r) = {} /\ r.signed = s.signed
        \/ ~s.signed /\ r.signed /\ \E i : NewSignatures(s, r) = {i}
    BY DEF Keeps
  <2>2. \/ NewSignatures(r, t) = {} /\ t.signed = r.signed
        \/ ~r.signed /\ t.signed /\ \E i : NewSignatures(r, t) = {i}
    BY DEF Alters
  <2> QED
    BY <1>4, <2>1, <2>2
<1> QED
  BY <1>1, <1>5, <1>6, <1>7 DEF Keeps

LEMMA StandsStill ==
  ASSUME NEW lines, NEW others, NEW used, NEW o, NEW v, Stands(lines, used, o, v),
         \A i \in used : others[i] = lines[i]
  PROVE  Stands(others, used, o, v)
<1>1. CASE Listed(lines, used, o, TextsOf(o, v), Len(TextsOf(o, v)))
  <2> DEFINE n == Len(TextsOf(o, v))
             texts == TextsOf(o, v)
  <2> HIDE DEF n, texts
  <2>1. PICK pos \in [1 .. n -> used] :
          /\ \A j \in 1 .. n : lines[pos[j]] = OptionLine(o, texts[j])
          /\ \A i, j \in 1 .. n : i < j => pos[i] < pos[j]
          /\ \A u \in used : \E j \in 1 .. n : pos[j] = u
    BY <1>1 DEF Listed, n, texts
  <2>2. \A j \in 1 .. n : others[pos[j]] = OptionLine(o, texts[j])
    BY <2>1
  <2>3. Listed(others, used, o, texts, n)
    BY <2>1, <2>2 DEF Listed
  <2> QED
    BY <2>3 DEF Stands, n, texts
<1> QED
  BY <1>1 DEF Stands

\* The fold over the parameters: every parameter is rewritten once, in whatever order.
Finished(q, v) == \A o \in Options : o \in q.processed /\ Stands(q.lines, UsedOf(q, o), o, v)

LEMMA OrderRewritten ==
  ASSUME NEW s, \A o \in Options : Fresh(s, o), NEW v \in Values, NEW order \in Orders
  PROVE  LET q == FoldLeft(LAMBDA t, o : RewriteOption(t, o, v), s, order)
         IN  Numbered(q) /\ Keeps(s, q) /\ Finished(q, v)
<1> DEFINE fold == FoldLeft(LAMBDA t, o : RewriteOption(t, o, v), s, order)
           n == Len(order)
<1>1. order \in Seq(Options) /\ ToSet(order) = Options /\ IsInjective(order)
  BY ConfigAssumption
<1>2. s \in RewriteStates
  <2>1. "port" \in Options
    BY DEF Options
  <2> QED
    BY <2>1 DEF Fresh, Numbered
<1>3. PICK r : /\ r \in [0 .. n -> RewriteStates] /\ r[0] = s
               /\ \A k \in 1 .. n : r[k] = RewriteOption(r[k - 1], order[k], v)
               /\ fold = r[n]
  BY <1>1, <1>2, OptionRuns, Zenon
<1>4. /\ n \in Nat /\ DOMAIN order = 1 .. n /\ \A k \in 1 .. n : order[k] \in Options
      /\ \A o \in Options : \E k \in 1 .. n : order[k] = o
      /\ \A j, k \in 1 .. n : order[j] = order[k] => j = k
  BY <1>1 DEF ToSet, IsInjective
<1> HIDE DEF fold, n
<1> DEFINE P == {k \in Nat : k <= n =>
                   /\ Numbered(r[k]) /\ Keeps(s, r[k])
                   /\ \A j \in 1 .. k : /\ order[j] \in r[k].processed
                                        /\ Stands(r[k].lines, UsedOf(r[k], order[j]), order[j], v)
                   /\ \A o \in Options : (\A j \in 1 .. k : order[j] # o) => Fresh(r[k], o)}
<1>5. 0 \in P
  <2>1. Keeps(s, s) /\ Numbered(s)
    <3>1. "port" \in Options
      BY DEF Options
    <3> QED
      BY <1>2, <3>1, KeepsNothing DEF Fresh
  <2> QED
    BY <1>3, <2>1
<1>6. ASSUME NEW k \in Nat, k \in P PROVE k + 1 \in P
  <2> DEFINE q == r[k]
             t == r[k + 1]
             o == order[k + 1]
  <2> SUFFICES ASSUME k + 1 <= n
               PROVE  /\ Numbered(t) /\ Keeps(s, t)
                      /\ \A j \in 1 .. k + 1 : /\ order[j] \in t.processed
                                               /\ Stands(t.lines, UsedOf(t, order[j]), order[j], v)
                      /\ \A p \in Options : (\A j \in 1 .. k + 1 : order[j] # p) => Fresh(t, p)
    OBVIOUS
  <2>1. k <= n /\ k + 1 \in 1 .. n /\ (k + 1) - 1 = k /\ k \in 0 .. n
    BY <1>4
  <2>2. /\ Numbered(q) /\ Keeps(s, q)
        /\ \A j \in 1 .. k : order[j] \in q.processed /\ Stands(q.lines, UsedOf(q, order[j]), order[j], v)
        /\ \A p \in Options : (\A j \in 1 .. k : order[j] # p) => Fresh(q, p)
    BY <1>6, <2>1
  <2>3. o \in Options /\ t = RewriteOption(q, o, v)
    BY <1>3, <1>4, <2>1
  <2>4. \A j \in 1 .. k : order[j] # o /\ order[j] \in Options
    <3> TAKE j \in 1 .. k
    <3>1. j \in 1 .. n /\ j # k + 1
      BY <1>4, <2>1
    <3> QED
      BY <1>4, <2>1, <3>1
  <2> HIDE DEF q, t
  <2>5. Rewrote(q, t, o, v)
    BY <2>2, <2>3, <2>4, OptionRewritten
  <2>6. Numbered(t) /\ Alters(q, t, o) /\ o \in t.processed /\ Stands(t.lines, UsedOf(t, o), o, v)
    BY <2>5 DEF Rewrote
  <2>7. Keeps(s, t)
    BY <1>2, <2>2, <2>3, <2>6, KeepsMore
  <2>8. ASSUME NEW p \in Options, p # o
        PROVE  /\ LineNumbers(p, t.lines) = LineNumbers(p, q.lines) /\ t.at[p] = q.at[p]
               /\ \A i \in LineNumbers(p, q.lines) : t.lines[i] = q.lines[i]
               /\ p \in t.processed <=> p \in q.processed
    BY <2>3, <2>6, <2>8, AltersNoOther
  <2>9. ASSUME NEW j \in 1 .. k
        PROVE  order[j] \in t.processed /\ Stands(t.lines, UsedOf(t, order[j]), order[j], v)
    <3>1. order[j] \in Options /\ order[j] # o
      BY <2>4
    <3>2. UsedOf(t, order[j]) = UsedOf(q, order[j])
      BY <2>8, <3>1 DEF UsedOf
    <3>3. \A i \in UsedOf(q, order[j]) : t.lines[i] = q.lines[i]
      BY <2>8, <3>1 DEF UsedOf
    <3>4. Stands(t.lines, UsedOf(q, order[j]), order[j], v)
      BY <2>2, <3>3, StandsStill
    <3> QED
      BY <2>2, <2>8, <3>1, <3>2, <3>4
  <2>10. \A j \in 1 .. k + 1 : j \in 1 .. k \/ j = k + 1
    OBVIOUS
  <2>11. ASSUME NEW p \in Options, \A j \in 1 .. k + 1 : order[j] # p
         PROVE  Fresh(t, p)
    <3>1. p # o
      BY <2>11
    <3>2. Fresh(q, p)
      BY <2>2, <2>11
    <3> QED
      BY <2>6, <2>8, <3>1, <3>2 DEF Fresh
  <2> QED
    BY <2>6, <2>7, <2>9, <2>10, <2>11
<1>7. n \in P
  <2> HIDE DEF P
  <2>1. Nat \subseteq P
    BY <1>5, <1>6, InductionOver
  <2> QED
    BY <1>4, <2>1
<1>8. Numbered(fold) /\ Keeps(s, fold)
  BY <1>3, <1>4, <1>7
<1>9. Finished(fold, v)
  <2> SUFFICES ASSUME NEW o \in Options
               PROVE  o \in fold.processed /\ Stands(fold.lines, UsedOf(fold, o), o, v)
    BY DEF Finished
  <2>1. PICK j \in 1 .. n : order[j] = o
    BY <1>4
  <2> QED
    BY <1>3, <1>4, <1>7, <2>1
<1> QED
  BY <1>8, <1>9 DEF fold

\* content has the lines that position h tells, in their order and with all that are not empty.
Thins(h, lines, content, n) ==
  /\ h \in [1 .. Len(content) -> 1 .. n]
  /\ \A i, j \in 1 .. Len(content) : i < j => h[i] < h[j]
  /\ \A i \in 1 .. Len(content) : content[i] = lines[h[i]]
  /\ \A j \in 1 .. n : lines[j] # Blank => \E i \in 1 .. Len(content) : h[i] = j
NoTwoBlanks(lines) ==
  \A i \in DOMAIN lines : i > 1 => ~(lines[i] = Blank /\ lines[i - 1] = Blank)

LEMMA ThinsMore ==
  ASSUME NEW lines \in Seq(GoodLines), NEW content \in Seq(GoodLines), NEW n \in Nat, n + 1 <= Len(lines),
         NEW h, Thins(h, lines, content, n), NoTwoBlanks(content),
         IF n = 0 THEN content = << >> ELSE Len(content) > 0 /\ content[Len(content)] = lines[n]
  PROVE  LET more == AddContent(lines, content, n + 1)
         IN  /\ \E g : Thins(g, lines, more, n + 1)
             /\ NoTwoBlanks(more) /\ Len(more) > 0 /\ more[Len(more)] = lines[n + 1]
<1> DEFINE more == AddContent(lines, content, n + 1)
           m == Len(content)
<1>1. m \in Nat /\ DOMAIN content = 1 .. m /\ n + 1 \in 1 .. Len(lines) /\ Len(lines) \in Nat
      /\ lines[n + 1] \in GoodLines
  BY ElementsOf
<1>2. /\ h \in [1 .. m -> 1 .. n] /\ \A i, j \in 1 .. m : i < j => h[i] < h[j]
      /\ \A i \in 1 .. m : content[i] = lines[h[i]]
      /\ \A j \in 1 .. n : lines[j] # Blank => \E i \in 1 .. m : h[i] = j
  BY DEF Thins
<1>3. \A j \in 1 .. n + 1 : j \in 1 .. n \/ j = n + 1
  OBVIOUS
<1>4. CASE lines[n + 1] = Blank /\ n > 0 /\ lines[n] = Blank
  <2>1. more = content
    BY <1>4 DEF AddContent
  <2>2. \A j \in 1 .. n + 1 : lines[j] # Blank => \E i \in 1 .. m : h[i] = j
    BY <1>2, <1>3, <1>4
  <2>3. h \in [1 .. m -> 1 .. n + 1]
    BY <1>2
  <2>4. Thins(h, lines, content, n + 1)
    BY <1>2, <2>2, <2>3 DEF Thins
  <2> QED
    BY <1>4, <2>1, <2>4
<1>5. CASE ~(lines[n + 1] = Blank /\ n > 0 /\ lines[n] = Blank)
  <2>1. more = Append(content, lines[n + 1])
    BY <1>1, <1>5 DEF AddContent
  <2> HIDE DEF more
  <2>2. /\ more \in Seq(GoodLines) /\ Len(more) = m + 1 /\ DOMAIN more = 1 .. m + 1
        /\ more[m + 1] = lines[n + 1] /\ \A i \in 1 .. m : more[i] = content[i]
    BY <1>1, <2>1
  <2> HIDE DEF m
  <2> DEFINE g == [i \in 1 .. m + 1 |-> IF i = m + 1 THEN n + 1 ELSE h[i]]
  <2>3. g[m + 1] = n + 1 /\ (\A i \in 1 .. m : g[i] = h[i] /\ h[i] \in 1 .. n)
        /\ \A i \in 1 .. m + 1 : i \in 1 .. m \/ i = m + 1
    BY <1>1, <1>2
  <2>4. g \in [1 .. m + 1 -> 1 .. n + 1]
    <3>1. \A i \in 1 .. m + 1 : g[i] \in 1 .. n + 1
      <4>1. n + 1 \in 1 .. n + 1 /\ 1 .. n \subseteq 1 .. n + 1
        OBVIOUS
      <4> HIDE DEF g
      <4> QED
        BY <2>3, <4>1
    <3> QED
      BY <3>1
  <2> HIDE DEF g
  <2>5. \A i, j \in 1 .. m + 1 : i < j => g[i] < g[j]
    <3> SUFFICES ASSUME NEW i \in 1 .. m + 1, NEW j \in 1 .. m + 1, i < j PROVE g[i] < g[j]
      OBVIOUS
    <3>1. i \in 1 .. m
      BY <1>1
    <3> QED
      BY <1>2, <2>3, <3>1
  <2>6. \A i \in 1 .. m + 1 : more[i] = lines[g[i]]
    BY <1>2, <2>2, <2>3
  <2>7. \A j \in 1 .. n + 1 : lines[j] # Blank => \E i \in 1 .. m + 1 : g[i] = j
    <3> SUFFICES ASSUME NEW j \in 1 .. n + 1, lines[j] # Blank PROVE \E i \in 1 .. m + 1 : g[i] = j
      OBVIOUS
    <3>1. CASE j = n + 1
      BY <1>1, <2>3, <3>1
    <3>2. CASE j \in 1 .. n
      <4>1. PICK i \in 1 .. m : h[i] = j
        BY <1>2, <3>2
      <4> QED
        BY <1>1, <2>3, <4>1
    <3> QED
      BY <1>3, <3>1, <3>2
  <2>8. Thins(g, lines, more, n + 1)
    BY <2>2, <2>4, <2>5, <2>6, <2>7 DEF Thins
  <2>9. NoTwoBlanks(more)
    <3> SUFFICES ASSUME NEW i \in 1 .. m + 1, i > 1, more[i] = Blank, more[i - 1] = Blank PROVE FALSE
      BY <2>2 DEF NoTwoBlanks
    <3>1. CASE i \in 1 .. m
      <4>1. content[i] = Blank /\ content[i - 1] = Blank
        <5>1. i - 1 \in 1 .. m
          BY <1>1, <3>1
        <5> QED
          BY <2>2, <3>1, <5>1
      <4> QED
        BY <1>1, <3>1, <4>1 DEF NoTwoBlanks
    <3>2. CASE i = m + 1
      <4>1. m \in 1 .. m /\ i - 1 = m
        BY <1>1, <3>2
      <4>2. lines[n + 1] = Blank /\ content[m] = Blank
        BY <2>2, <3>2, <4>1
      <4>3. n # 0
        BY <1>1, <4>1 DEF m
      <4> QED
        BY <1>5, <4>2, <4>3 DEF m
    <3> QED
      BY <2>3, <3>1, <3>2
  <2>10. Len(more) > 0 /\ more[Len(more)] = lines[n + 1]
    BY <1>1, <2>2
  <2> QED
    BY <2>8, <2>9, <2>10 DEF more
<1> QED
  BY <1>4, <1>5

LEMMA ContentFacts ==
  ASSUME NEW lines \in Seq(GoodLines)
  PROVE  /\ \E h : Thins(h, lines, GetContent(lines), Len(lines))
         /\ NoTwoBlanks(GetContent(lines)) /\ GetContent(lines) \in Seq(GoodLines)
<1> DEFINE n == Len(lines)
<1>1. PICK r : /\ r \in [0 .. n -> Seq(GoodLines)] /\ r[0] = << >>
               /\ \A k \in 1 .. n : r[k] = AddContent(lines, r[k - 1], k)
               /\ GetContent(lines) = r[n]
  BY ContentRuns, Zenon
<1>2. n \in Nat
  OBVIOUS
<1> HIDE DEF n
<1> DEFINE P == {k \in Nat : k <= n =>
                   /\ \E h : Thins(h, lines, r[k], k)
                   /\ NoTwoBlanks(r[k])
                   /\ IF k = 0 THEN r[k] = << >> ELSE Len(r[k]) > 0 /\ r[k][Len(r[k])] = lines[k]}
<1>3. 0 \in P
  <2> DEFINE h == [i \in 1 .. 0 |-> 0]
  <2>1. 1 .. 0 = {} /\ Len(<< >>) = 0
    OBVIOUS
  <2>2. h \in [1 .. 0 -> 1 .. 0]
    BY <2>1
  <2> HIDE DEF h
  <2>3. Thins(h, lines, << >>, 0)
    BY <2>1, <2>2 DEF Thins
  <2>4. NoTwoBlanks(<< >>)
    BY DEF NoTwoBlanks
  <2> QED
    BY <1>1, <2>3, <2>4
<1>4. ASSUME NEW k \in Nat, k \in P PROVE k + 1 \in P
  <2> SUFFICES ASSUME k + 1 <= n
               PROVE  /\ \E h : Thins(h, lines, r[k + 1], k + 1)
                      /\ NoTwoBlanks(r[k + 1]) /\ Len(r[k + 1]) > 0 /\ r[k + 1][Len(r[k + 1])] = lines[k + 1]
    OBVIOUS
  <2>1. k <= n /\ k + 1 \in 1 .. n /\ (k + 1) - 1 = k /\ k \in 0 .. n
    BY <1>2
  <2>2. r[k] \in Seq(GoodLines) /\ r[k + 1] = AddContent(lines, r[k], k + 1)
    BY <1>1, <2>1
  <2>3. /\ \E h : Thins(h, lines, r[k], k)
        /\ NoTwoBlanks(r[k])
        /\ IF k = 0 THEN r[k] = << >> ELSE Len(r[k]) > 0 /\ r[k][Len(r[k])] = lines[k]
    BY <1>4, <2>1
  <2>4. PICK h : Thins(h, lines, r[k], k)
    BY <2>3
  <2> QED
    BY <2>2, <2>3, <2>4, ThinsMore DEF n
<1>5. n \in P
  <2> HIDE DEF P
  <2>1. Nat \subseteq P
    BY <1>3, <1>4, InductionOver
  <2> QED
    BY <1>2, <2>1
<1>6. GetContent(lines) \in Seq(GoodLines)
  BY GetContentIsGood
<1> QED
  BY <1>1, <1>2, <1>5, <1>6 DEF n

LEMMA StandsThinned ==
  ASSUME NEW lines \in Seq(GoodLines), NEW content \in Seq(GoodLines), NEW h,
         Thins(h, lines, content, Len(lines)), NEW o \in Options, NEW v,
         Stands(lines, LineNumbers(o, lines), o, v)
  PROVE  Stands(content, LineNumbers(o, content), o, v)
<1> DEFINE used == LineNumbers(o, lines)
           left == LineNumbers(o, content)
           m == Len(content)
           k == Len(lines)
<1>1. m \in Nat /\ DOMAIN content = 1 .. m /\ k \in Nat /\ DOMAIN lines = 1 .. k
  OBVIOUS
<1>2. /\ h \in [1 .. m -> 1 .. k] /\ \A i, j \in 1 .. m : i < j => h[i] < h[j]
      /\ \A i \in 1 .. m : content[i] = lines[h[i]]
      /\ \A j \in 1 .. k : lines[j] # Blank => \E i \in 1 .. m : h[i] = j
  BY DEF Thins
<1> HIDE DEF m, k
<1>3. left \subseteq 1 .. m /\ used \subseteq 1 .. k /\ \A i \in 1 .. m : i \in left <=> h[i] \in used
  BY <1>1, <1>2 DEF LineNumbers
<1>4. \A u \in used : \E i \in left : h[i] = u
  <2> TAKE u \in used
  <2>1. lines[u] # Blank /\ u \in 1 .. k
    BY <1>1, PlainKinds DEF LineNumbers
  <2> QED
    BY <1>2, <1>3, <2>1
<1>5. CASE used = {}
  <2>1. left = {}
    BY <1>3, <1>5
  <2>2. CASE MayMiss(o, v)
    BY <2>1, <2>2 DEF Stands
  <2>3. CASE MayStand(o, v) /\ Listed(lines, used, o, TextsOf(o, v), Len(TextsOf(o, v)))
    <3> DEFINE n == Len(TextsOf(o, v))
               texts == TextsOf(o, v)
    <3> HIDE DEF n, texts
    <3>1. PICK pos \in [1 .. n -> used] :
            /\ \A i, j \in 1 .. n : i < j => pos[i] < pos[j]
            /\ \A j \in 1 .. n : lines[pos[j]] = OptionLine(o, texts[j])
      BY <2>3 DEF Listed, n, texts
    <3>2. 1 .. n = {}
      BY <1>5, <3>1
    <3>3. pos \in [1 .. n -> left]
      BY <1>5, <2>1, <3>1
    <3>4. Listed(content, left, o, texts, n)
      BY <2>1, <3>2, <3>3 DEF Listed
    <3> QED
      BY <2>3, <3>4 DEF Stands, n, texts
  <2> QED
    BY <2>2, <2>3 DEF Stands
<1>6. CASE used # {}
  <2> DEFINE n == Len(TextsOf(o, v))
             texts == TextsOf(o, v)
  <2>1. MayStand(o, v) /\ Listed(lines, used, o, texts, n)
    BY <1>6 DEF Stands
  <2> HIDE DEF n, texts, used, left
  <2>2. PICK pos \in [1 .. n -> used] :
          /\ \A j \in 1 .. n : lines[pos[j]] = OptionLine(o, texts[j])
          /\ \A i, j \in 1 .. n : i < j => pos[i] < pos[j]
          /\ \A u \in used : \E j \in 1 .. n : pos[j] = u
    BY <2>1 DEF Listed
  <2> DEFINE new == [j \in 1 .. n |-> CHOOSE i \in left : h[i] = pos[j]]
  <2>3. \A j \in 1 .. n : new[j] \in left /\ h[new[j]] = pos[j] /\ new[j] \in 1 .. m
    <3> TAKE j \in 1 .. n
    <3>1. pos[j] \in used
      BY <2>2
    <3>2. \E i \in left : h[i] = pos[j]
      BY <1>4, <3>1
    <3> QED
      BY <1>3, <3>2
  <2>4. new \in [1 .. n -> left]
    BY <2>3
  <2> HIDE DEF new
  <2>5. \A j \in 1 .. n : content[new[j]] = OptionLine(o, texts[j])
    BY <1>2, <2>2, <2>3
  <2>6. \A a, b \in 1 .. m : h[a] < h[b] => a < b
    <3> SUFFICES ASSUME NEW a \in 1 .. m, NEW b \in 1 .. m, h[a] < h[b], ~(a < b) PROVE FALSE
      OBVIOUS
    <3>1. h[a] \in 1 .. k /\ h[b] \in 1 .. k
      BY <1>2
    <3>2. a = b \/ b < a
      BY <1>1
    <3>3. b < a => h[b] < h[a]
      BY <1>2
    <3>4. h[a] \in Int /\ h[b] \in Int
      BY <1>1, <3>1
    <3> QED
      BY <3>2, <3>3, <3>4
  <2>7. \A i, j \in 1 .. n : i < j => new[i] < new[j]
    BY <2>2, <2>3, <2>6
  <2>8. \A a, b \in 1 .. m : h[a] = h[b] => a = b
    <3> SUFFICES ASSUME NEW a \in 1 .. m, NEW b \in 1 .. m, h[a] = h[b], a # b PROVE FALSE
      OBVIOUS
    <3>1. h[a] \in 1 .. k /\ h[b] \in 1 .. k /\ (a < b \/ b < a)
      BY <1>1, <1>2
    <3> QED
      BY <1>1, <1>2, <3>1
  <2>9. \A u \in left : \E j \in 1 .. n : new[j] = u
    <3> TAKE u \in left
    <3>1. u \in 1 .. m /\ h[u] \in used
      BY <1>3
    <3>2. PICK j \in 1 .. n : pos[j] = h[u]
      BY <2>2, <3>1
    <3> QED
      BY <2>3, <2>8, <3>1, <3>2
  <2>10. Listed(content, left, o, texts, n)
    BY <2>4, <2>5, <2>7, <2>9 DEF Listed
  <2> QED
    BY <2>1, <2>10 DEF Stands, n, texts, left
<1> QED
  BY <1>5, <1>6

LEMMA OrphansRemoved ==
  ASSUME NEW q, Numbered(q), NEW v, Finished(q, v)
  PROVE  /\ RemoveOrphaned(q) \in Seq(GoodLines) /\ DOMAIN RemoveOrphaned(q) = DOMAIN q.lines
         /\ \A i \in DOMAIN q.lines :
              \/ RemoveOrphaned(q)[i] = q.lines[i]
              \/ RemoveOrphaned(q)[i] = Blank /\ q.lines[i].kind = "option"
         /\ \A o \in Options :
              Stands(RemoveOrphaned(q), LineNumbers(o, RemoveOrphaned(q)), o, v)
<1> DEFINE lines == RemoveOrphaned(q)
<1>1. lines \in Seq(GoodLines)
  BY RemoveOrphanedIsGood DEF Numbered
<1>2. /\ DOMAIN lines = DOMAIN q.lines
      /\ \A i \in DOMAIN q.lines :
           lines[i] = IF \E o \in q.processed : i \in q.at[o] THEN Blank ELSE q.lines[i]
  BY DEF RemoveOrphaned
<1>3. q.processed = Options /\ \A o \in Options : q.at[o] \subseteq LineNumbers(o, q.lines)
  BY DEF Finished, Numbered, RewriteStates
<1> HIDE DEF lines
<1>4. \A i \in DOMAIN q.lines : lines[i] = q.lines[i] \/ (lines[i] = Blank /\ q.lines[i].kind = "option")
  BY <1>2, <1>3 DEF LineNumbers
<1>5. ASSUME NEW o \in Options
      PROVE  Stands(lines, LineNumbers(o, lines), o, v)
  <2>1. \A i \in UsedOf(q, o) : lines[i] = q.lines[i]
    <3> TAKE i \in UsedOf(q, o)
    <3>1. i \in DOMAIN q.lines /\ i \notin q.at[o] /\ OptionOf(q.lines[i].name) = o
      BY DEF UsedOf, LineNumbers
    <3>2. \A p \in Options : i \notin q.at[p]
      BY <1>3, <3>1 DEF LineNumbers
    <3> QED
      BY <1>2, <1>3, <3>1, <3>2
  <2>2. LineNumbers(o, lines) = UsedOf(q, o)
    <3>1. \A i \in UsedOf(q, o) : i \in LineNumbers(o, lines)
      BY <1>2, <2>1 DEF UsedOf, LineNumbers
    <3>2. \A i \in LineNumbers(o, lines) : i \in UsedOf(q, o)
      <4> TAKE i \in LineNumbers(o, lines)
      <4>1. i \in DOMAIN q.lines /\ lines[i].kind = "option" /\ OptionOf(lines[i].name) = o
        BY <1>2 DEF LineNumbers
      <4>2. lines[i] # Blank
        BY <4>1, PlainKinds
      <4>3. lines[i] = q.lines[i] /\ i \notin q.at[o]
        BY <1>2, <1>3, <4>1, <4>2
      <4> QED
        BY <4>1, <4>3 DEF UsedOf, LineNumbers
    <3> QED
      BY <3>1, <3>2
  <2>3. Stands(q.lines, UsedOf(q, o), o, v)
    BY DEF Finished
  <2> QED
    BY <2>1, <2>2, <2>3, StandsStill
<1> QED
  BY <1>1, <1>2, <1>4, <1>5 DEF lines

\* What stands in the file for the operator, one line at a time.
Remark(line) == line.kind \in {"comment", "deprecated", "include"}
AddOther(names, line) ==
  IF line.kind \in {"comment", "deprecated", "include"} THEN Append(names, line.name) ELSE names

LEMMA GoodLinesNamed ==
  ASSUME NEW text \in Seq(GoodLines), NEW k \in 1 .. Len(text)
  PROVE  text[k] \in GoodLines /\ text[k].name \in LineNames
<1>1. k \in DOMAIN text
  OBVIOUS
<1>2. text[k] \in GoodLines
  BY <1>1, ElementsOf
<1> QED
  BY <1>2 DEF GoodLines, FileLines

LEMMA OthersRuns ==
  ASSUME NEW text \in Seq(GoodLines)
  PROVE  \E r : /\ r \in [0 .. Len(text) -> Seq(LineNames)] /\ r[0] = << >>
                /\ \A k \in 1 .. Len(text) : r[k] = AddOther(r[k - 1], text[k])
                /\ Others(text) = r[Len(text)]
<1> DEFINE n == Len(text)
           seq == text
           Op(w, k) == AddOther(w, text[k])
           step == [p \in Seq(LineNames) \X (1 .. n) |-> Op(p[1], p[2])]
           Eqn(f) == f = [s \in SUBSET (1 .. n) |->
                            IF s = {} THEN << >> ELSE AddOther(f[s \ {Max(s)}], seq[Max(s)])]
           it == CHOOSE f : Eqn(f)
<1>0. n \in Nat /\ << >> \in Seq(LineNames)
  OBVIOUS
<1>1. ASSUME NEW w \in Seq(LineNames), NEW k \in 1 .. n PROVE Op(w, k) \in Seq(LineNames)
  BY GoodLinesNamed DEF AddOther
<1> HIDE DEF n, Op
<1>2. step \in [Seq(LineNames) \X (1 .. n) -> Seq(LineNames)]
  BY <1>1
<1>3. PICK f : IsFold(f, Seq(LineNames), << >>, n, step)
  <2> HIDE DEF step
  <2> QED
    BY <1>0, <1>2, FoldExists, Zenon
<1>4. ASSUME NEW s \in SUBSET (1 .. n), s # {}
      PROVE  Max(s) \in 1 .. n
  <2>1. Max(s) \in s
    BY <1>0, <1>4, LastPosition
  <2> QED
    BY <2>1
<1>5. ASSUME NEW g, NEW s \in SUBSET (1 .. n), s # {}
      PROVE  AddOther(g[s \ {Max(s)}], seq[Max(s)]) = Op(g[s \ {Max(s)}], Max(s))
  BY DEF Op
<1>6. Eqn(f)
  <2>1. ASSUME NEW s \in SUBSET (1 .. n), s # {}
        PROVE  f[s] = Op(f[s \ {Max(s)}], Max(s))
    <3>1. f[s \ {Max(s)}] \in Seq(LineNames) /\ Max(s) \in 1 .. n
      BY <1>3, <1>4, <2>1 DEF IsFold
    <3> QED
      BY <1>3, <2>1, <3>1 DEF IsFold
  <2> HIDE DEF step, seq
  <2>2. \A s \in SUBSET (1 .. n) : f[s] = IF s = {} THEN << >> ELSE AddOther(f[s \ {Max(s)}], seq[Max(s)])
    BY <1>3, <1>5, <2>1 DEF IsFold
  <2>3. f \in [SUBSET (1 .. n) -> Seq(LineNames)]
    BY <1>3 DEF IsFold
  <2> QED
    BY <2>2, <2>3
<1>7. Eqn(it)
  <2> HIDE DEF Eqn
  <2> QED
    BY <1>6
<1>8. Others(text) = it[1 .. n]
  <2>1. DOMAIN seq = 1 .. n
    BY DEF n
  <2> HIDE DEF seq
  <2> QED
    BY <2>1 DEF Others, FoldLeft, MapThenFoldSet, AddOther, seq
<1> HIDE DEF it
<1> DEFINE r == [k \in 0 .. n |-> it[1 .. k]]
<1>9. IsRun(r, Seq(LineNames), << >>, n, step)
  <2>1. \A s \in SUBSET (1 .. n) :
          /\ s = {} => it[s] = << >>
          /\ s # {} /\ it[s \ {Max(s)}] \in Seq(LineNames) => it[s] = step[<<it[s \ {Max(s)}], Max(s)>>]
    BY <1>4, <1>5, <1>7
  <2> HIDE DEF step, Eqn
  <2> QED
    BY <1>0, <1>2, <2>1, FoldRuns
<1>10. /\ r \in [0 .. n -> Seq(LineNames)] /\ r[0] = << >> /\ r[n] = it[1 .. n]
       /\ \A k \in 1 .. n : r[k] = Op(r[k - 1], k)
  <2>1. r \in [0 .. n -> Seq(LineNames)] /\ r[0] = << >> /\ \A k \in 1 .. n : r[k] = step[<<r[k - 1], k>>]
    BY <1>9 DEF IsRun
  <2>2. r[n] = it[1 .. n]
    BY <1>0
  <2> HIDE DEF r
  <2>3. \A k \in 1 .. n : r[k - 1] \in Seq(LineNames)
    BY <1>0, <2>1
  <2> QED
    BY <2>1, <2>2, <2>3
<1> HIDE DEF r
<1> QED
  BY <1>8, <1>10 DEF n, Op

LEMMA OthersOfNone ==
  Others(<< >>) = << >>
<1>1. << >> \in Seq(GoodLines) /\ Len(<< >>) = 0
  OBVIOUS
<1> QED
  BY <1>1, OthersRuns

LEMMA OthersOfMore ==
  ASSUME NEW lines \in Seq(GoodLines), NEW line \in GoodLines
  PROVE  Others(Append(lines, line)) = AddOther(Others(lines), line)
<1> DEFINE n == Len(lines)
           more == Append(lines, line)
<1>1. /\ more \in Seq(GoodLines) /\ Len(more) = n + 1 /\ more[n + 1] = line
      /\ \A i \in 1 .. n : more[i] = lines[i]
  OBVIOUS
<1> HIDE DEF more
<1>2. PICK r : /\ r \in [0 .. Len(more) -> Seq(LineNames)] /\ r[0] = << >>
               /\ \A k \in 1 .. Len(more) : r[k] = AddOther(r[k - 1], more[k])
               /\ Others(more) = r[Len(more)]
  BY <1>1, OthersRuns, Zenon
<1>3. PICK q : /\ q \in [0 .. n -> Seq(LineNames)] /\ q[0] = << >>
               /\ \A k \in 1 .. n : q[k] = AddOther(q[k - 1], lines[k])
               /\ Others(lines) = q[n]
  BY OthersRuns, Zenon
<1>4. n \in Nat
  OBVIOUS
<1> HIDE DEF n
<1> DEFINE P == {k \in Nat : k <= n => r[k] = q[k]}
<1>5. 0 \in P
  BY <1>2, <1>3
<1>6. ASSUME NEW k \in Nat, k \in P PROVE k + 1 \in P
  <2> SUFFICES ASSUME k + 1 <= n PROVE r[k + 1] = q[k + 1]
    OBVIOUS
  <2>1. k <= n /\ k + 1 \in 1 .. n /\ k + 1 \in 1 .. n + 1 /\ (k + 1) - 1 = k
    BY <1>4
  <2>2. r[k] = q[k]
    BY <1>6, <2>1
  <2> QED
    BY <1>1, <1>2, <1>3, <2>1, <2>2
<1>7. n \in P
  <2> HIDE DEF P
  <2>1. Nat \subseteq P
    BY <1>5, <1>6, InductionOver
  <2> QED
    BY <1>4, <2>1
<1>8. n + 1 \in 1 .. n + 1 /\ (n + 1) - 1 = n
  BY <1>4
<1> QED
  BY <1>1, <1>2, <1>3, <1>4, <1>7, <1>8 DEF more

\* Lines that say the same to the operator.
LEMMA OthersOfSame ==
  ASSUME NEW lines \in Seq(GoodLines), NEW more \in Seq(GoodLines), Len(lines) <= Len(more),
         \A i \in 1 .. Len(lines) : Remark(lines[i]) \/ Remark(more[i]) =>
           Remark(lines[i]) /\ Remark(more[i]) /\ lines[i].name = more[i].name,
         \A i \in 1 .. Len(more) : i > Len(lines) => ~Remark(more[i])
  PROVE  Others(more) = Others(lines)
<1> DEFINE n == Len(lines)
           m == Len(more)
<1>1. n \in Nat /\ m \in Nat /\ n <= m
  OBVIOUS
<1>2. PICK r : /\ r \in [0 .. m -> Seq(LineNames)] /\ r[0] = << >>
               /\ \A k \in 1 .. m : r[k] = AddOther(r[k - 1], more[k])
               /\ Others(more) = r[m]
  BY OthersRuns, Zenon
<1>3. PICK q : /\ q \in [0 .. n -> Seq(LineNames)] /\ q[0] = << >>
               /\ \A k \in 1 .. n : q[k] = AddOther(q[k - 1], lines[k])
               /\ Others(lines) = q[n]
  BY OthersRuns, Zenon
<1>4. \A i \in 1 .. n : \A names : AddOther(names, more[i]) = AddOther(names, lines[i])
  BY DEF AddOther, Remark
<1>5. \A i \in 1 .. m : i > n => \A names : AddOther(names, more[i]) = names
  BY DEF AddOther, Remark
<1> HIDE DEF n, m
<1> DEFINE P == {k \in Nat : k <= m => r[k] = IF k <= n THEN q[k] ELSE q[n]}
<1>6. 0 \in P
  BY <1>1, <1>2, <1>3
<1>7. ASSUME NEW k \in Nat, k \in P PROVE k + 1 \in P
  <2> SUFFICES ASSUME k + 1 <= m PROVE r[k + 1] = IF k + 1 <= n THEN q[k + 1] ELSE q[n]
    OBVIOUS
  <2>1. k <= m /\ k + 1 \in 1 .. m /\ (k + 1) - 1 = k
    BY <1>1
  <2>2. r[k] = IF k <= n THEN q[k] ELSE q[n]
    BY <1>7, <2>1
  <2>3. r[k + 1] = AddOther(r[k], more[k + 1])
    BY <1>2, <2>1
  <2>4. CASE k + 1 <= n
    <3>1. k <= n /\ k + 1 \in 1 .. n
      BY <1>1, <2>4
    <3>2. q[k + 1] = AddOther(q[k], lines[k + 1])
      BY <1>3, <2>1, <3>1
    <3> QED
      BY <1>4, <2>2, <2>3, <2>4, <3>1, <3>2
  <2>5. CASE k + 1 > n
    <3>1. r[k + 1] = r[k]
      BY <1>5, <2>1, <2>3, <2>5
    <3>2. k <= n => k = n
      BY <1>1, <2>5
    <3> QED
      BY <1>1, <2>2, <2>5, <3>1, <3>2
  <2> QED
    BY <1>1, <2>4, <2>5
<1>8. m \in P
  <2> HIDE DEF P
  <2>1. Nat \subseteq P
    BY <1>6, <1>7, InductionOver
  <2> QED
    BY <1>1, <2>1
<1>9. m <= n => m = n
  BY <1>1
<1> QED
  BY <1>1, <1>2, <1>3, <1>8, <1>9

LEMMA OthersOfContent ==
  ASSUME NEW lines \in Seq(GoodLines)
  PROVE  Others(GetContent(lines)) = Others(lines)
<1> DEFINE n == Len(lines)
<1>1. PICK c : /\ c \in [0 .. n -> Seq(GoodLines)] /\ c[0] = << >>
               /\ \A k \in 1 .. n : c[k] = AddContent(lines, c[k - 1], k)
               /\ GetContent(lines) = c[n]
  BY ContentRuns, Zenon
<1>2. PICK q : /\ q \in [0 .. n -> Seq(LineNames)] /\ q[0] = << >>
               /\ \A k \in 1 .. n : q[k] = AddOther(q[k - 1], lines[k])
               /\ Others(lines) = q[n]
  BY OthersRuns, Zenon
<1>3. n \in Nat /\ \A k \in 1 .. n : lines[k] \in GoodLines
  BY GoodLinesNamed
<1> HIDE DEF n
<1> DEFINE P == {k \in Nat : k <= n => Others(c[k]) = q[k]}
<1>4. 0 \in P
  BY <1>1, <1>2, OthersOfNone
<1>5. ASSUME NEW k \in Nat, k \in P PROVE k + 1 \in P
  <2> SUFFICES ASSUME k + 1 <= n PROVE Others(c[k + 1]) = q[k + 1]
    OBVIOUS
  <2>1. k <= n /\ k + 1 \in 1 .. n /\ (k + 1) - 1 = k /\ k \in 0 .. n
    BY <1>3
  <2>2. Others(c[k]) = q[k] /\ c[k] \in Seq(GoodLines)
    BY <1>1, <1>5, <2>1
  <2>3. c[k + 1] = AddContent(lines, c[k], k + 1) /\ q[k + 1] = AddOther(q[k], lines[k + 1])
    BY <1>1, <1>2, <2>1
  <2>4. CASE lines[k + 1] = Blank /\ k > 0 /\ lines[k] = Blank
    <3>1. c[k + 1] = c[k]
      BY <2>3, <2>4 DEF AddContent
    <3>2. lines[k + 1].kind = "blank"
      BY <2>4, PlainKinds
    <3>3. q[k + 1] = q[k]
      BY <2>3, <3>2 DEF AddOther
    <3> QED
      BY <2>2, <3>1, <3>3
  <2>5. CASE ~(lines[k + 1] = Blank /\ k > 0 /\ lines[k] = Blank)
    <3>1. c[k + 1] = Append(c[k], lines[k + 1])
      BY <2>1, <2>3, <2>5 DEF AddContent
    <3> QED
      BY <1>3, <2>1, <2>2, <2>3, <3>1, OthersOfMore
  <2> QED
    BY <2>4, <2>5
<1>6. n \in P
  <2> HIDE DEF P
  <2>1. Nat \subseteq P
    BY <1>4, <1>5, InductionOver
  <2> QED
    BY <1>3, <2>1
<1> QED
  BY <1>1, <1>2, <1>3, <1>6

\* A file as a rewrite of v leaves it.
Written(lines, v) ==
  /\ lines \in Seq(GoodLines) /\ NoTwoBlanks(lines)
  /\ \A i \in DOMAIN lines : lines[i].kind # "deprecated"
  /\ \A o \in Options : Stands(lines, LineNumbers(o, lines), o, v)

SignedOnceMore(lines, content) ==
  Signatures(content) <= 1 \/ Signatures(content) <= Signatures(lines)

LEMMA SignaturesThinned ==
  ASSUME NEW lines \in Seq(GoodLines), NEW content \in Seq(GoodLines), NEW h,
         Thins(h, lines, content, Len(lines))
  PROVE  Signatures(content) <= Signatures(lines) /\ Signatures(content) \in Nat /\ Signatures(lines) \in Nat
<1> DEFINE S == {i \in DOMAIN content : content[i] = Signature}
           T == {i \in DOMAIN lines : lines[i] = Signature}
           m == Len(content)
           k == Len(lines)
<1>1. m \in Nat /\ DOMAIN content = 1 .. m /\ k \in Nat /\ DOMAIN lines = 1 .. k
  OBVIOUS
<1>2. IsFiniteSet(T) /\ IsFiniteSet(S)
  <2>1. IsFiniteSet(1 .. m) /\ IsFiniteSet(1 .. k)
    BY <1>1, FS_Interval
  <2> QED
    BY <1>1, <2>1, FS_Subset
<1>3. h \in [1 .. m -> 1 .. k] /\ (\A i, j \in 1 .. m : i < j => h[i] < h[j])
      /\ \A i \in 1 .. m : content[i] = lines[h[i]]
  BY DEF Thins
<1> DEFINE f == [i \in S |-> h[i]]
<1>4. f \in [S -> T]
  BY <1>1, <1>3
<1>5. \A i, j \in S : f[i] = f[j] => i = j
  <2> SUFFICES ASSUME NEW i \in S, NEW j \in S, h[i] = h[j], i # j PROVE FALSE
    OBVIOUS
  <2>1. i \in 1 .. m /\ j \in 1 .. m /\ h[i] \in 1 .. k
    BY <1>1, <1>3
  <2>2. i < j \/ j < i
    BY <2>1
  <2> QED
    BY <1>3, <2>1, <2>2
<1>6. f \in Injection(S, T)
  <2>1. DOMAIN f = S
    BY DEF f
  <2> HIDE DEF f, S, T
  <2> QED
    BY <1>4, <1>5, <2>1 DEF Injection, IsInjective
<1> HIDE DEF f, S, T
<1>7. Cardinality(S) <= Cardinality(T) /\ Cardinality(S) \in Nat /\ Cardinality(T) \in Nat
  BY <1>2, <1>6, FS_Injection, FS_CardinalityType
<1> QED
  BY <1>7 DEF Signatures, S, T

\* CONFIG REWRITE as a whole.
LEMMA RewrittenFacts ==
  ASSUME NEW lines \in Seq(GoodLines), NEW v \in Values, NEW order \in Orders
  PROVE  LET content == Rewritten(lines, v, order)
         IN  Written(content, v) /\ Others(content) = Others(lines) /\ SignedOnceMore(lines, content)
<1> DEFINE text == IF lines = << >> THEN << >> ELSE Append(lines, Blank)
           s == ReadOldFile(lines)
           q == FoldLeft(LAMBDA t, o : RewriteOption(t, o, v), s, order)
           kept == RemoveOrphaned(q)
           content == Rewritten(lines, v, order)
<1>1. /\ s \in RewriteStates /\ text \in Seq(GoodLines)
      /\ \A o \in Options : Fresh(s, o)
      /\ DOMAIN s.lines = DOMAIN text
      /\ \A i \in DOMAIN text : s.lines[i] = KnownLine(text[i])
      /\ s.signed <=> \E i \in DOMAIN text : text[i] = Signature
  BY ReadOldFileFacts
<1>2. Numbered(q) /\ Keeps(s, q) /\ Finished(q, v)
  <2> HIDE DEF s
  <2> QED
    BY <1>1, OrderRewritten
<1>3. content = GetContent(kept)
  BY DEF Rewritten
<1>4. DOMAIN text = 1 .. Len(text) /\ DOMAIN lines = 1 .. Len(lines) /\ Len(lines) \in Nat /\ Len(text) \in Nat
      /\ Len(lines) <= Len(text) /\ (\A i \in 1 .. Len(lines) : text[i] = lines[i])
      /\ \A i \in 1 .. Len(text) : i > Len(lines) => text[i] = Blank
  <2>1. CASE lines = << >>
    BY <2>1
  <2>2. CASE lines # << >>
    <3>1. text = Append(lines, Blank)
      BY <2>2
    <3> HIDE DEF text
    <3>2. /\ Len(text) = Len(lines) + 1 /\ text[Len(lines) + 1] = Blank
          /\ \A i \in 1 .. Len(lines) : text[i] = lines[i]
      BY <3>1
    <3>3. \A i \in 1 .. Len(lines) + 1 : i > Len(lines) => i = Len(lines) + 1
      OBVIOUS
    <3> QED
      BY <1>1, <3>2, <3>3
  <2> QED
    BY <2>1, <2>2
<1> HIDE DEF text, s, q, content
<1>5. /\ kept \in Seq(GoodLines) /\ DOMAIN kept = DOMAIN q.lines
      /\ \A i \in DOMAIN q.lines :
           kept[i] = q.lines[i] \/ (kept[i] = Blank /\ q.lines[i].kind = "option")
      /\ \A o \in Options : Stands(kept, LineNumbers(o, kept), o, v)
  BY <1>2, OrphansRemoved
<1> HIDE DEF kept
<1>6. /\ DOMAIN s.lines \subseteq DOMAIN q.lines
      /\ \A i \in DOMAIN s.lines :
           q.lines[i] = s.lines[i] \/ (s.lines[i].kind = "option" /\ q.lines[i].kind = "option")
      /\ \A i \in DOMAIN q.lines \ DOMAIN s.lines : q.lines[i].kind = "option" \/ q.lines[i] = Signature
      /\ \/ NewSignatures(s, q) = {}
         \/ ~s.signed /\ \E i : NewSignatures(s, q) = {i}
  BY <1>2 DEF Keeps
<1>7. DOMAIN kept = 1 .. Len(kept) /\ Len(kept) \in Nat /\ Len(text) <= Len(kept)
  <2>1. DOMAIN kept = 1 .. Len(kept) /\ Len(kept) \in Nat
    BY <1>5
  <2>2. 1 .. Len(text) \subseteq 1 .. Len(kept)
    BY <1>1, <1>4, <1>5, <1>6, <2>1
  <2> QED
    BY <1>4, <2>1, <2>2
\* What becomes of each line.
<1>8. ASSUME NEW i \in DOMAIN text
      PROVE  \/ kept[i] = KnownLine(text[i])
             \/ text[i].kind = "option" /\ (kept[i].kind = "option" \/ kept[i] = Blank)
  <2>1. i \in DOMAIN s.lines /\ i \in DOMAIN q.lines /\ s.lines[i] = KnownLine(text[i])
    BY <1>1, <1>6
  <2>2. s.lines[i].kind = "option" => text[i].kind = "option"
    BY <2>1, PlainKinds DEF KnownLine
  <2> QED
    BY <1>5, <1>6, <2>1, <2>2
<1>9. ASSUME NEW i \in DOMAIN kept, i \notin DOMAIN text
      PROVE  kept[i].kind = "option" \/ kept[i] = Blank \/ (kept[i] = Signature /\ i \in NewSignatures(s, q))
  <2>1. q.lines[i].kind = "option" \/ (q.lines[i] = Signature /\ i \in NewSignatures(s, q))
    BY <1>1, <1>5, <1>6, <1>9 DEF NewSignatures
  <2> QED
    BY <1>5, <1>9, <2>1
<1>10. PICK h : Thins(h, kept, content, Len(kept))
  BY <1>3, <1>5, ContentFacts
<1>11. content \in Seq(GoodLines) /\ NoTwoBlanks(content)
  BY <1>3, <1>5, ContentFacts
<1>12. \A i \in DOMAIN content : content[i].kind # "deprecated"
  <2>1. \A i \in DOMAIN kept : kept[i].kind # "deprecated"
    <3> TAKE i \in DOMAIN kept
    <3>1. CASE i \in DOMAIN text
      <4>1. KnownLine(text[i]).kind # "deprecated"
        BY PlainKinds DEF KnownLine
      <4> QED
        BY <1>8, <3>1, <4>1, PlainKinds
    <3>2. CASE i \notin DOMAIN text
      BY <1>9, <3>2, PlainKinds
    <3> QED
      BY <3>1, <3>2
  <2>2. \A i \in DOMAIN content : h[i] \in DOMAIN kept /\ content[i] = kept[h[i]]
    <3>1. DOMAIN content = 1 .. Len(content)
      BY <1>11
    <3> QED
      BY <1>7, <1>10, <3>1 DEF Thins
  <2> QED
    BY <2>1, <2>2
<1>13. \A o \in Options : Stands(content, LineNumbers(o, content), o, v)
  <2> TAKE o \in Options
  <2>1. Stands(kept, LineNumbers(o, kept), o, v)
    BY <1>5
  <2> QED
    BY <1>5, <1>10, <1>11, <2>1, StandsThinned
<1>14. Written(content, v)
  BY <1>11, <1>12, <1>13 DEF Written
<1>15. Others(content) = Others(lines)
  <2>1. Others(content) = Others(kept)
    BY <1>3, <1>5, OthersOfContent
  <2>2. Len(lines) <= Len(kept)
    BY <1>4, <1>7
  <2>3. \A i \in 1 .. Len(lines) : Remark(lines[i]) \/ Remark(kept[i]) =>
          Remark(lines[i]) /\ Remark(kept[i]) /\ lines[i].name = kept[i].name
    <3> TAKE i \in 1 .. Len(lines)
    <3>1. i \in DOMAIN text /\ text[i] = lines[i]
      BY <1>4
    <3>2. CASE kept[i] = KnownLine(text[i])
      BY <3>1, <3>2, PlainKinds DEF KnownLine, Remark
    <3>3. CASE text[i].kind = "option" /\ (kept[i].kind = "option" \/ kept[i] = Blank)
      BY <3>1, <3>3, PlainKinds DEF Remark
    <3> QED
      BY <1>8, <3>1, <3>2, <3>3
  <2>4. \A i \in 1 .. Len(kept) : i > Len(lines) => ~Remark(kept[i])
    <3> SUFFICES ASSUME NEW i \in 1 .. Len(kept), i > Len(lines) PROVE ~Remark(kept[i])
      OBVIOUS
    <3>1. CASE i \in DOMAIN text
      <4>1. text[i] = Blank
        BY <1>4, <3>1
      <4>2. KnownLine(text[i]) = Blank
        BY <4>1, PlainKinds DEF KnownLine
      <4> QED
        BY <1>8, <3>1, <4>1, <4>2, PlainKinds DEF Remark
    <3>2. CASE i \notin DOMAIN text
      BY <1>7, <1>9, <3>2, PlainKinds DEF Remark
    <3> QED
      BY <3>1, <3>2
  <2> QED
    BY <1>5, <2>1, <2>2, <2>3, <2>4, OthersOfSame
<1>16. SignedOnceMore(lines, content)
  <2> DEFINE S == {i \in DOMAIN kept : kept[i] = Signature}
             T == {i \in DOMAIN lines : lines[i] = Signature}
  <2>1. Signatures(content) <= Signatures(kept) /\ Signatures(content) \in Nat /\ Signatures(kept) \in Nat
    BY <1>5, <1>10, <1>11, SignaturesThinned
  <2>2. \A i \in DOMAIN text : kept[i] = Signature <=> text[i] = Signature
    <3> TAKE i \in DOMAIN text
    <3>1. CASE kept[i] = KnownLine(text[i])
      BY <3>1, PlainKinds DEF KnownLine
    <3>2. CASE text[i].kind = "option" /\ (kept[i].kind = "option" \/ kept[i] = Blank)
      BY <3>2, PlainKinds
    <3> QED
      BY <1>8, <3>1, <3>2
  <2>3. T = {i \in DOMAIN text : text[i] = Signature}
    <3>1. \A i \in DOMAIN text : text[i] = Signature => i \in DOMAIN lines /\ lines[i] = Signature
      <4> SUFFICES ASSUME NEW i \in DOMAIN text, text[i] = Signature
                   PROVE  i \in DOMAIN lines /\ lines[i] = Signature
        OBVIOUS
      <4>1. ~(i > Len(lines))
        BY <1>4, PlainKinds
      <4>2. i \in 1 .. Len(lines)
        BY <1>4, <4>1
      <4> QED
        BY <1>4, <4>2
    <3>2. \A i \in DOMAIN lines : i \in DOMAIN text /\ text[i] = lines[i]
      BY <1>4
    <3> QED
      BY <3>1, <3>2
  <2>4. S \subseteq T \cup NewSignatures(s, q)
    BY <1>9, <2>2, <2>3, PlainKinds
  <2>5. T \subseteq S
    BY <1>4, <1>7, <2>2, <2>3
  <2>6. IsFiniteSet(T)
    <3>1. IsFiniteSet(1 .. Len(lines))
      BY <1>4, FS_Interval
    <3> QED
      BY <1>4, <3>1, FS_Subset
  <2>7. CASE NewSignatures(s, q) = {}
    <3>1. Signatures(kept) = Signatures(lines)
      BY <2>4, <2>5, <2>7 DEF Signatures
    <3> QED
      BY <2>1, <3>1 DEF SignedOnceMore
  <2>8. CASE ~s.signed /\ \E i : NewSignatures(s, q) = {i}
    <3>1. T = {}
      BY <1>1, <2>3, <2>8
    <3>2. PICK i : NewSignatures(s, q) = {i}
      BY <2>8
    <3>3. S \subseteq {i}
      BY <2>4, <3>1, <3>2
    <3>4. IsFiniteSet({i}) /\ Cardinality({i}) = 1
      BY FS_Singleton
    <3>5. Cardinality(S) <= 1
      <4> HIDE DEF S
      <4> QED
        BY <3>3, <3>4, FS_Subset
    <3> QED
      BY <2>1, <3>5 DEF SignedOnceMore, Signatures
  <2> QED
    BY <1>6, <2>7, <2>8
<1> QED
  BY <1>14, <1>15, <1>16 DEF content

-----------------------------------------------------------------------------
(* What the start makes of a file that a rewrite left.                     *)

\* The lines that set o, and the run of the load.
Sets(lines, o) == Lines(lines, "option", o)
Touches(line, o) ==
  \/ line.kind = "option" /\ OptionOf(line.name) = o
  \/ line.kind = "include" /\ Sets(Included, o) # {}
LoadRun(r, lines) ==
  /\ r \in [0 .. Len(lines) -> LoadStates] /\ r[0] = FirstLoad
  /\ \A k \in 1 .. Len(lines) : r[k] = LoadAny(r[k - 1], lines[k])
  /\ Load(lines) = r[Len(lines)]

LEMMA SetsAre ==
  ASSUME NEW lines, NEW o
  PROVE  Sets(lines, o) = LineNumbers(o, lines)
  BY DEF Sets, Lines, LineNumbers

LEMMA LoadSaveFacts ==
  ASSUME NEW l \in LoadStates, NEW text
  PROVE  LET q == LoadSave(l, text)
         IN  /\ q.values = [l.values EXCEPT !.save =
                              IF l.reading /\ l.reset /\ text # << >> THEN l.values.save \o text ELSE text]
             /\ q.reset = (l.reset \/ l.reading) /\ q.reading = l.reading
<1>1. l.values \in [Options -> Seq(Int)] /\ "save" \in Options
  BY DEF LoadStates, Values, Options
<1>2. l = [ok |-> l.ok, values |-> l.values, reset |-> l.reset, reading |-> l.reading]
  BY DEF LoadStates
<1> QED
  BY <1>1, <1>2 DEF LoadSave

\* A line leaves what it does not set.
LEMMA LineLeaves ==
  ASSUME NEW l \in LoadStates, NEW line \in FileLines, NEW o \in Options,
         ~(line.kind = "option" /\ OptionOf(line.name) = o)
  PROVE  LET q == LoadLine(l, line)
         IN  /\ q.values[o] = l.values[o] /\ q.reading = l.reading
             /\ o = "save" => q.reset = l.reset
<1>1. CASE line.kind # "option" \/ ~l.ok
  BY <1>1 DEF LoadLine
<1>2. CASE line.kind = "option" /\ l.ok
  <2> DEFINE p == OptionOf(line.name)
             r == Set(p, line.text, l.values)
  <2>1. p \in Options /\ p # o /\ line.text \in Seq(Int)
    BY <1>2, NamesOptions DEF FileLines
  <2>2. l.values \in Values
    BY DEF LoadStates
  <2> HIDE DEF p
  <2>3. \A x \in Options : x # p => r.values[x] = l.values[x]
    BY <2>1, <2>2, SetFacts
  <2>4. LoadLine(l, line) = IF r.res = 0 THEN [l EXCEPT !.ok = FALSE]
                            ELSE IF p = "save" THEN LoadSave(l, line.text)
                            ELSE [l EXCEPT !.values = r.values]
    BY <1>2 DEF LoadLine, p
  <2> HIDE DEF r
  <2>5. CASE r.res = 0
    BY <2>4, <2>5 DEF LoadStates
  <2>6. CASE r.res # 0 /\ p = "save"
    <3>1. l.values \in [Options -> Seq(Int)]
      BY <2>2 DEF Values
    <3>2. o # "save"
      BY <2>1, <2>6
    <3>3. LoadLine(l, line) = LoadSave(l, line.text)
      BY <2>4, <2>6
    <3>4. \A x : [l.values EXCEPT !.save = x][o] = l.values[o]
      BY <3>1, <3>2
    <3>5. /\ \E x : LoadSave(l, line.text).values = [l.values EXCEPT !.save = x]
          /\ LoadSave(l, line.text).reading = l.reading
      <4> DEFINE q == LoadSave(l, line.text)
                 x == IF l.reading /\ l.reset /\ line.text # << >>
                        THEN l.values.save \o line.text ELSE line.text
      <4>1. q.values = [l.values EXCEPT !.save = x] /\ q.reading = l.reading
        BY LoadSaveFacts
      <4> HIDE DEF q, x
      <4>2. \E y : q.values = [l.values EXCEPT !.save = y]
        BY <4>1
      <4> QED
        BY <4>1, <4>2 DEF q
    <3> QED
      BY <3>2, <3>3, <3>4, <3>5
  <2>7. CASE r.res # 0 /\ p # "save"
    BY <2>1, <2>3, <2>4, <2>7 DEF LoadStates
  <2> QED
    BY <2>5, <2>6, <2>7
<1> QED
  BY <1>1, <1>2

\* A line that is loaded sets its parameter.
LEMMA LineSets ==
  ASSUME NEW l \in LoadStates, l.ok, NEW line \in FileLines, LineLoads(line), line.kind = "option"
  PROVE  LET q == LoadLine(l, line)
             o == OptionOf(line.name)
         IN  /\ o # "save" => q.values[o] = line.text /\ q.reading = l.reading
             /\ o = "save" => q = LoadSave(l, line.text)
<1> DEFINE o == OptionOf(line.name)
           r == Set(o, line.text, l.values)
<1>1. o \in Options /\ line.text \in Seq(Int) /\ Fits(o, line.text) /\ l.values \in Values
  BY NamesOptions DEF FileLines, LineLoads, LoadStates
<1> HIDE DEF o
<1>2. r.res # 0 /\ r.values[o] = line.text
  BY <1>1, SetFacts
<1>3. LoadLine(l, line) = IF o = "save" THEN LoadSave(l, line.text) ELSE [l EXCEPT !.values = r.values]
  BY <1>2 DEF LoadLine, o
<1> HIDE DEF r
<1> QED
  BY <1>2, <1>3 DEF o, LoadStates

\* An INCLUDE that does not set o; after one the server no longer reads.
LEMMA PlainLeaves ==
  ASSUME NEW l \in LoadStates, NEW lines \in Seq(FileLines), NEW o \in Options
  PROVE  LET q == LoadPlain(l, lines)
         IN  /\ ~q.reading
             /\ Sets(lines, o) = {} => q.values[o] = l.values[o] /\ (o = "save" => q.reset = l.reset)
<1> DEFINE n == Len(lines)
           first == [l EXCEPT !.reading = TRUE]
           fold == FoldLeft(LoadLine, first, lines)
<1>1. first \in LoadStates /\ first.values = l.values /\ first.reset = l.reset
  BY DEF LoadStates
<1> HIDE DEF first
<1>2. PICK r : /\ r \in [0 .. n -> LoadStates] /\ r[0] = first
               /\ \A k \in 1 .. n : r[k] = LoadLine(r[k - 1], lines[k])
               /\ fold = r[n]
  BY <1>1, PlainRuns, Zenon
<1>3. n \in Nat /\ DOMAIN lines = 1 .. n /\ \A k \in 1 .. n : lines[k] \in FileLines
  BY ElementsOf
<1>4. LoadPlain(l, lines) = [fold EXCEPT !.reading = FALSE]
  BY DEF LoadPlain, first
<1> HIDE DEF n, fold
<1>5. fold \in LoadStates
  BY <1>2, <1>3
<1>6. /\ ~LoadPlain(l, lines).reading /\ LoadPlain(l, lines).values = fold.values
      /\ LoadPlain(l, lines).reset = fold.reset
  BY <1>4, <1>5 DEF LoadStates
<1>7. ASSUME Sets(lines, o) = {}
      PROVE  fold.values[o] = l.values[o] /\ (o = "save" => fold.reset = l.reset)
  <2> DEFINE P == {k \in Nat : k <= n =>
                     r[k].values[o] = l.values[o] /\ (o = "save" => r[k].reset = l.reset)}
  <2>1. 0 \in P
    BY <1>1, <1>2
  <2>2. ASSUME NEW k \in Nat, k \in P PROVE k + 1 \in P
    <3> SUFFICES ASSUME k + 1 <= n
                 PROVE  r[k + 1].values[o] = l.values[o] /\ (o = "save" => r[k + 1].reset = l.reset)
      OBVIOUS
    <3>1. k <= n /\ k + 1 \in 1 .. n /\ (k + 1) - 1 = k /\ k \in 0 .. n
      BY <1>3
    <3>2. r[k] \in LoadStates /\ r[k + 1] = LoadLine(r[k], lines[k + 1]) /\ lines[k + 1] \in FileLines
      BY <1>2, <1>3, <3>1
    <3>3. ~(lines[k + 1].kind = "option" /\ OptionOf(lines[k + 1].name) = o)
      BY <1>3, <1>7, <3>1 DEF Sets, Lines
    <3>4. /\ r[k + 1].values[o] = r[k].values[o]
          /\ o = "save" => r[k + 1].reset = r[k].reset
      BY <3>2, <3>3, LineLeaves
    <3> QED
      BY <2>2, <3>1, <3>4
  <2>3. n \in P
    <3> HIDE DEF P
    <3>1. Nat \subseteq P
      BY <2>1, <2>2, InductionOver
    <3> QED
      BY <1>3, <3>1
  <2> QED
    BY <1>2, <1>3, <2>3
<1> QED
  BY <1>6, <1>7

LEMMA AnyLeaves ==
  ASSUME NEW l \in LoadStates, NEW line \in FileLines, NEW o \in Options, ~Touches(line, o)
  PROVE  LET q == LoadAny(l, line)
         IN  /\ q.values[o] = l.values[o]
             /\ o = "save" => q.reset = l.reset
             /\ line.kind = "include" => ~q.reading
             /\ line.kind # "include" => q.reading = l.reading
<1>1. CASE line.kind = "include"
  <2>1. Included \in Seq(FileLines) /\ Sets(Included, o) = {}
    BY <1>1, FilesAssumption DEF Touches
  <2>2. LoadAny(l, line) = LoadPlain(l, Included)
    BY <1>1 DEF LoadAny
  <2> QED
    BY <1>1, <2>1, <2>2, PlainLeaves
<1>2. CASE line.kind # "include"
  <2>1. LoadAny(l, line) = LoadLine(l, line)
    BY <1>2 DEF LoadAny
  <2> QED
    BY <1>2, <2>1, LineLeaves DEF Touches
<1> QED
  BY <1>1, <1>2

LEMMA LoadRunExists ==
  ASSUME NEW lines \in Seq(GoodLines)
  PROVE  /\ \E r : LoadRun(r, lines)
         /\ \A r : LoadRun(r, lines) => \A k \in 0 .. Len(lines) : r[k].ok
         /\ Len(lines) \in Nat /\ DOMAIN lines = 1 .. Len(lines)
         /\ \A k \in 1 .. Len(lines) : lines[k] \in FileLines /\ GoodLine(lines[k])
<1>1. lines \in Seq(FileLines) /\ Len(lines) \in Nat /\ DOMAIN lines = 1 .. Len(lines)
      /\ \A k \in 1 .. Len(lines) : lines[k] \in GoodLines
  <2>1. \A k \in DOMAIN lines : lines[k] \in GoodLines
    BY ElementsOf
  <2> QED
    BY <2>1 DEF GoodLines
<1>2. \A k \in 1 .. Len(lines) : lines[k] \in FileLines /\ GoodLine(lines[k])
  BY <1>1 DEF GoodLines
<1>3. \E r : LoadRun(r, lines)
  <2>1. PICK r : /\ r \in [0 .. Len(lines) -> LoadStates] /\ r[0] = FirstLoad
                 /\ \A k \in 1 .. Len(lines) : r[k] = LoadAny(r[k - 1], lines[k])
                 /\ Load(lines) = r[Len(lines)]
    BY <1>1, LoadRuns, Zenon
  <2>2. LoadRun(r, lines)
    BY <2>1 DEF LoadRun
  <2> QED
    BY <2>2
<1>4. ASSUME NEW r, LoadRun(r, lines) PROVE \A k \in 0 .. Len(lines) : r[k].ok
  <2> DEFINE n == Len(lines)
             P == {k \in Nat : k <= n => r[k].ok}
  <2>1. 0 \in P
    BY <1>4 DEF LoadRun, FirstLoad
  <2>2. ASSUME NEW k \in Nat, k \in P PROVE k + 1 \in P
    <3> SUFFICES ASSUME k + 1 <= n PROVE r[k + 1].ok
      OBVIOUS
    <3>1. k <= n /\ k + 1 \in 1 .. n /\ (k + 1) - 1 = k /\ k \in 0 .. n
      BY <1>1
    <3>2. r[k] \in LoadStates /\ r[k + 1] = LoadAny(r[k], lines[k + 1]) /\ r[k].ok
      BY <1>4, <2>2, <3>1 DEF LoadRun
    <3> QED
      BY <1>2, <3>1, <3>2, LoadAnyFacts
  <2>3. \A k \in 0 .. n : k \in P
    <3> HIDE DEF P
    <3>1. Nat \subseteq P
      BY <2>1, <2>2, InductionOver
    <3> QED
      BY <1>1, <3>1
  <2> QED
    BY <1>1, <2>3
<1> QED
  BY <1>1, <1>2, <1>3, <1>4

\* Between lines that touch o nothing happens to it.
LEMMA RunBetween ==
  ASSUME NEW lines \in Seq(GoodLines), NEW r, LoadRun(r, lines), NEW o \in Options,
         NEW i \in 0 .. Len(lines), NEW j \in 0 .. Len(lines), i <= j,
         \A k \in 1 .. Len(lines) : i < k /\ k <= j => ~Touches(lines[k], o)
  PROVE  /\ r[j].values[o] = r[i].values[o]
         /\ o = "save" => r[j].reset = r[i].reset
         /\ (\A k \in 1 .. Len(lines) : i < k /\ k <= j => lines[k].kind # "include") =>
              r[j].reading = r[i].reading
         /\ r[j].reading => r[i].reading
<1> DEFINE n == Len(lines)
           Same(k) == /\ r[k].values[o] = r[i].values[o]
                      /\ o = "save" => r[k].reset = r[i].reset
                      /\ (\A x \in 1 .. n : i < x /\ x <= k => lines[x].kind # "include") =>
                           r[k].reading = r[i].reading
                      /\ r[k].reading => r[i].reading
           P == {d \in Nat : i + d <= j => Same(i + d)}
<1>1. n \in Nat /\ \A k \in 1 .. n : lines[k] \in FileLines
  BY LoadRunExists
<1>2. r \in [0 .. n -> LoadStates] /\ \A k \in 1 .. n : r[k] = LoadAny(r[k - 1], lines[k])
  BY DEF LoadRun
<1>3. 0 \in P
  <2>1. i + 0 = i /\ i \in Int
    BY <1>1
  <2> QED
    BY <2>1
<1>4. ASSUME NEW d \in Nat, d \in P PROVE d + 1 \in P
  <2> SUFFICES ASSUME i + (d + 1) <= j PROVE Same(i + (d + 1))
    OBVIOUS
  <2> DEFINE k == i + d
             t == i + (d + 1)
  <2>1. /\ k <= j /\ t \in 1 .. n /\ t - 1 = k /\ k \in 0 .. n /\ i < t /\ t <= j /\ k < t
        /\ \A x \in 1 .. n : x <= k => x <= t
    BY <1>1
  <2>2. Same(k)
    BY <1>4, <2>1
  <2>3. r[k] \in LoadStates /\ r[t] = LoadAny(r[k], lines[t]) /\ lines[t] \in FileLines /\ ~Touches(lines[t], o)
    BY <1>1, <1>2, <2>1
  <2> HIDE DEF k, t
  <2>4. /\ r[t].values[o] = r[k].values[o]
        /\ o = "save" => r[t].reset = r[k].reset
        /\ lines[t].kind = "include" => ~r[t].reading
        /\ lines[t].kind # "include" => r[t].reading = r[k].reading
    BY <2>3, AnyLeaves
  <2>5. Same(t)
    BY <2>1, <2>2, <2>4
  <2> QED
    BY <2>5 DEF t
<1>5. j - i \in P
  <2> HIDE DEF P
  <2>1. Nat \subseteq P
    BY <1>3, <1>4, InductionOver
  <2>2. j - i \in Nat
    BY <1>1
  <2> QED
    BY <2>1, <2>2
<1>6. i + (j - i) = j /\ j <= j
  BY <1>1
<1>7. Same(j)
  <2> HIDE DEF Same
  <2> QED
    BY <1>5, <1>6
<1> QED
  BY <1>7

\* After the last line of o nothing sets it, or an INCLUDE overrides it.
LEMMA NothingAfter ==
  ASSUME NEW lines \in Seq(GoodLines), NEW o \in Options, ~Overridden(lines, o), NEW p \in 0 .. Len(lines),
         \A k \in LineNumbers(o, lines) : k <= p
  PROVE  \A k \in 1 .. Len(lines) : p < k /\ k <= Len(lines) => ~Touches(lines[k], o)
<1>1. DOMAIN lines = 1 .. Len(lines) /\ Len(lines) \in Nat
  OBVIOUS
<1> SUFFICES ASSUME NEW k \in 1 .. Len(lines), p < k, Touches(lines[k], o) PROVE FALSE
  OBVIOUS
<1>2. CASE lines[k].kind = "option" /\ OptionOf(lines[k].name) = o
  <2>1. k \in LineNumbers(o, lines)
    BY <1>1, <1>2 DEF LineNumbers
  <2> QED
    BY <1>1, <2>1
<1>3. CASE lines[k].kind = "include" /\ Sets(Included, o) # {}
  <2>1. k \in Lines(lines, "include", o)
    BY <1>1, <1>3 DEF Lines
  <2>2. \A x \in Lines(lines, "option", o) : x < k
    <3> TAKE x \in Lines(lines, "option", o)
    <3>1. x \in LineNumbers(o, lines)
      BY SetsAre DEF Sets
    <3>2. x <= p /\ x \in Int
      BY <1>1, <3>1 DEF LineNumbers
    <3> QED
      BY <1>1, <3>2
  <2> QED
    BY <1>3, <2>1, <2>2 DEF Overridden, Sets
<1> QED
  BY <1>2, <1>3 DEF Touches

\* The step of the run that loads a line of o.
LEMMA LineOfRun ==
  ASSUME NEW lines \in Seq(GoodLines), NEW r, LoadRun(r, lines), NEW o \in Options,
         NEW text, NEW p \in LineNumbers(o, lines), lines[p] = OptionLine(o, text)
  PROVE  /\ p \in 1 .. Len(lines) /\ p - 1 \in 0 .. Len(lines) /\ p \in 0 .. Len(lines)
         /\ r[p - 1] \in LoadStates /\ r[p] \in LoadStates
         /\ o # "save" => r[p].values[o] = text
         /\ o = "save" => r[p] = LoadSave(r[p - 1], text)
<1>1. /\ Len(lines) \in Nat /\ DOMAIN lines = 1 .. Len(lines)
      /\ \A k \in 0 .. Len(lines) : r[k].ok
      /\ \A k \in 1 .. Len(lines) : lines[k] \in FileLines /\ GoodLine(lines[k])
  BY LoadRunExists
<1>2. p \in 1 .. Len(lines)
  BY <1>1 DEF LineNumbers
<1>3. p - 1 \in 0 .. Len(lines) /\ p \in 0 .. Len(lines)
  BY <1>1, <1>2
<1>4. r[p - 1] \in LoadStates /\ r[p] \in LoadStates /\ r[p] = LoadAny(r[p - 1], lines[p])
  BY <1>2, <1>3 DEF LoadRun
<1>5. lines[p].kind = "option" /\ OptionOf(lines[p].name) = o /\ lines[p].text = text
  BY OptionLineOf
<1>6. r[p] = LoadLine(r[p - 1], lines[p])
  BY <1>4, <1>5 DEF LoadAny
<1>7. lines[p] \in FileLines /\ LineLoads(lines[p]) /\ r[p - 1].ok
  BY <1>1, <1>2, <1>3 DEF GoodLine
<1>8. LET q == LoadLine(r[p - 1], lines[p])
          x == OptionOf(lines[p].name)
      IN  /\ x # "save" => q.values[x] = lines[p].text /\ q.reading = r[p - 1].reading
          /\ x = "save" => q = LoadSave(r[p - 1], lines[p].text)
  BY <1>4, <1>5, <1>7, LineSets
<1> QED
  BY <1>2, <1>3, <1>4, <1>5, <1>6, <1>8

LEMMA LoadedIsWritten ==
  ASSUME NEW lines, NEW v \in Values, Written(lines, v), NEW o \in Options, o # "save",
         ~Overridden(lines, o)
  PROVE  Load(lines).values[o] = Shown(o, v[o])
<1> DEFINE n == Len(lines)
           used == LineNumbers(o, lines)
<1>1. lines \in Seq(GoodLines) /\ Stands(lines, used, o, v)
  BY DEF Written
<1>2. n \in Nat /\ DOMAIN lines = 1 .. n /\ used \subseteq 1 .. n
  BY <1>1 DEF LineNumbers
<1>3. PICK r : LoadRun(r, lines)
  BY <1>1, LoadRunExists
<1>4. r[0] = FirstLoad /\ Load(lines) = r[n]
  BY <1>3 DEF LoadRun
<1>5. CASE MayMiss(o, v) /\ used = {}
  <2>1. 0 \in 0 .. n /\ n \in 0 .. n /\ 0 <= n /\ \A k \in used : k <= 0
    BY <1>2, <1>5
  <2>2. \A k \in 1 .. n : 0 < k /\ k <= n => ~Touches(lines[k], o)
    BY <1>1, <2>1, NothingAfter
  <2>3. r[n].values[o] = r[0].values[o]
    BY <1>1, <1>3, <2>1, <2>2, RunBetween
  <2>4. Shown(o, v[o]) = Default[o]
    BY <1>5 DEF MayMiss, Shown
  <2> QED
    BY <1>4, <2>3, <2>4 DEF FirstLoad
<1>6. CASE Listed(lines, used, o, TextsOf(o, v), Len(TextsOf(o, v)))
  <2> DEFINE text == Shown(o, v[o])
             texts == TextsOf(o, v)
             m == Len(texts)
  <2>1. texts = <<text>>
    BY TextsFit
  <2>2. m = 1 /\ texts[1] = text
    <3> HIDE DEF text, texts
    <3> QED
      BY <2>1
  <2> HIDE DEF text, texts, m
  <2>3. PICK pos \in [1 .. m -> used] :
          /\ \A j \in 1 .. m : lines[pos[j]] = OptionLine(o, texts[j])
          /\ \A u \in used : \E j \in 1 .. m : pos[j] = u
    BY <1>6 DEF Listed, texts, m
  <2> DEFINE p == pos[1]
  <2>4. p \in used /\ lines[p] = OptionLine(o, text) /\ \A u \in used : u = p
    <3>1. 1 \in 1 .. m /\ \A j \in 1 .. m : j = 1
      BY <2>2
    <3> QED
      BY <2>2, <2>3, <3>1
  <2> HIDE DEF p
  <2>5. p \in 0 .. n /\ r[p].values[o] = text
    BY <1>1, <1>3, <2>4, LineOfRun
  <2>6. \A k \in used : k <= p
    BY <1>2, <2>4, <2>5
  <2>7. \A k \in 1 .. n : p < k /\ k <= n => ~Touches(lines[k], o)
    BY <1>1, <2>5, <2>6, NothingAfter
  <2>8. n \in 0 .. n /\ p <= n
    BY <1>2, <2>5
  <2>9. r[n].values[o] = r[p].values[o]
    BY <1>1, <1>3, <2>5, <2>7, <2>8, RunBetween
  <2> QED
    BY <1>4, <2>5, <2>9 DEF text
<1> QED
  BY <1>1, <1>5, <1>6 DEF Stands

\* Until the first save point the server that reads has not reset them.
LEMMA NotReset ==
  ASSUME NEW lines \in Seq(GoodLines), NEW r, LoadRun(r, lines), NEW p \in 0 .. Len(lines),
         \A k \in LineNumbers("save", lines) : p < k
  PROVE  r[p].reading => ~r[p].reset
<1> DEFINE n == Len(lines)
           P == {d \in Nat : d <= p => (r[d].reading => ~r[d].reset)}
<1>1. n \in Nat /\ DOMAIN lines = 1 .. n /\ "save" \in Options /\ \A k \in 1 .. n : lines[k] \in FileLines
  BY LoadRunExists DEF Options
<1>2. 0 \in P
  BY DEF LoadRun, FirstLoad
<1>3. ASSUME NEW k \in Nat, k \in P PROVE k + 1 \in P
  <2> SUFFICES ASSUME k + 1 <= p, r[k + 1].reading PROVE ~r[k + 1].reset
    OBVIOUS
  <2>1. k <= p /\ k + 1 \in 1 .. n /\ (k + 1) - 1 = k /\ k \in 0 .. n
    BY <1>1
  <2>2. r[k] \in LoadStates /\ r[k + 1] = LoadAny(r[k], lines[k + 1]) /\ lines[k + 1] \in FileLines
    BY <1>1, <2>1 DEF LoadRun
  <2>3. ~(lines[k + 1].kind = "option" /\ OptionOf(lines[k + 1].name) = "save")
    <3> SUFFICES ASSUME lines[k + 1].kind = "option", OptionOf(lines[k + 1].name) = "save" PROVE FALSE
      OBVIOUS
    <3>1. k + 1 \in LineNumbers("save", lines)
      BY <1>1, <2>1 DEF LineNumbers
    <3>2. p < k + 1
      BY <3>1
    <3> QED
      BY <1>1, <2>1, <3>2
  <2>4. lines[k + 1].kind # "include"
    <3> SUFFICES ASSUME lines[k + 1].kind = "include" PROVE FALSE
      OBVIOUS
    <3>1. Included \in Seq(FileLines) /\ r[k + 1] = LoadPlain(r[k], Included)
      BY <2>2, FilesAssumption DEF LoadAny
    <3>2. ~r[k + 1].reading
      BY <1>1, <2>2, <3>1, PlainLeaves
    <3> QED
      BY <3>2
  <2>5. r[k + 1] = LoadLine(r[k], lines[k + 1])
    BY <2>2, <2>4 DEF LoadAny
  <2>6. r[k + 1].reading = r[k].reading /\ r[k + 1].reset = r[k].reset
    <3>1. PICK o \in Options : o = "save"
      BY <1>1
    <3> DEFINE l == r[k]
               line == lines[k + 1]
    <3>2. l \in LoadStates /\ line \in FileLines /\ ~(line.kind = "option" /\ OptionOf(line.name) = o)
      BY <2>2, <2>3, <3>1
    <3> HIDE DEF l, line
    <3>3. LoadLine(l, line).reading = l.reading /\ LoadLine(l, line).reset = l.reset
      BY <3>1, <3>2, LineLeaves
    <3> QED
      BY <2>5, <3>3 DEF l, line
  <2> QED
    BY <1>3, <2>1, <2>6
<1>4. p \in P
  <2> HIDE DEF P
  <2>1. Nat \subseteq P
    BY <1>2, <1>3, InductionOver
  <2> QED
    BY <1>1, <2>1
<1> QED
  BY <1>1, <1>4

LEMMA SaveIsLoaded ==
  ASSUME NEW lines, NEW v \in Values, Written(lines, v), ~Overridden(lines, "save"),
         Len(v["save"]) > 1 => ~SavePointAfterInclude(lines)
  PROVE  Load(lines).values["save"] = v["save"]
<1> DEFINE n == Len(lines)
           used == LineNumbers("save", lines)
           texts == TextsOf("save", v)
           m == Len(texts)
           points == v["save"]
<1>0. "save" \in Options
  BY DEF Options
<1>1. lines \in Seq(GoodLines) /\ Stands(lines, used, "save", v)
  BY <1>0 DEF Written
<1>2. n \in Nat /\ DOMAIN lines = 1 .. n /\ used \subseteq 1 .. n
  BY <1>1 DEF LineNumbers
<1>3. PICK r : LoadRun(r, lines)
  BY <1>1, LoadRunExists
<1>4. r[0] = FirstLoad /\ Load(lines) = r[n] /\ r \in [0 .. n -> LoadStates]
  BY <1>3 DEF LoadRun
<1>5. Listed(lines, used, "save", texts, m)
  BY <1>1 DEF Stands, MayMiss
<1>6. points \in Seq(Int)
  BY <1>0 DEF Values
<1>7. /\ m \in Nat /\ m > 0
      /\ points = << >> => texts = << << >> >>
      /\ points # << >> => m = Len(points) /\ \A j \in 1 .. m : texts[j] = <<points[j]>>
  BY <1>0, TextsFit
<1> HIDE DEF n, used, texts, m, points
<1>8. PICK pos \in [1 .. m -> used] :
        /\ \A j \in 1 .. m : lines[pos[j]] = OptionLine("save", texts[j])
        /\ \A i, j \in 1 .. m : i < j => pos[i] < pos[j]
        /\ \A u \in used : \E j \in 1 .. m : pos[j] = u
  BY <1>5 DEF Listed
<1>9. \A j \in 1 .. m : /\ pos[j] \in 1 .. n /\ pos[j] - 1 \in 0 .. n /\ pos[j] \in 0 .. n
                        /\ r[pos[j] - 1] \in LoadStates /\ r[pos[j]] \in LoadStates
                        /\ r[pos[j]] = LoadSave(r[pos[j] - 1], texts[j])
  <2> TAKE j \in 1 .. m
  <2>1. pos[j] \in LineNumbers("save", lines) /\ lines[pos[j]] = OptionLine("save", texts[j])
    BY <1>8 DEF used
  <2> QED
    BY <1>0, <1>1, <1>3, <2>1, LineOfRun DEF n
<1>10. \A l \in LoadStates : l.values \in [Options -> Seq(Int)] /\ l.reading \in BOOLEAN /\ l.reset \in BOOLEAN
  BY DEF LoadStates, Values
<1>11. \A j \in 1 .. m :
         /\ r[pos[j]].values["save"] =
              IF r[pos[j] - 1].reading /\ r[pos[j] - 1].reset /\ texts[j] # << >>
                THEN r[pos[j] - 1].values["save"] \o texts[j] ELSE texts[j]
         /\ r[pos[j]].reset = (r[pos[j] - 1].reset \/ r[pos[j] - 1].reading)
         /\ r[pos[j]].reading = r[pos[j] - 1].reading
  <2> TAKE j \in 1 .. m
  <2> DEFINE l == r[pos[j] - 1]
             q == r[pos[j]]
             x == IF l.reading /\ l.reset /\ texts[j] # << >> THEN l.values.save \o texts[j] ELSE texts[j]
  <2>1. l \in LoadStates /\ q = LoadSave(l, texts[j])
    BY <1>9
  <2> HIDE DEF l, q
  <2>2. q.values = [l.values EXCEPT !.save = x] /\ q.reset = (l.reset \/ l.reading) /\ q.reading = l.reading
    BY <2>1, LoadSaveFacts
  <2>3. l.values \in [Options -> Seq(Int)]
    BY <1>10, <2>1
  <2> HIDE DEF x
  <2>4. q.values["save"] = x
    BY <1>0, <2>2, <2>3
  <2> QED
    BY <2>2, <2>4 DEF x, l, q
\* After the last line nothing changes.
<1>12. r[n].values["save"] = r[pos[m]].values["save"]
  <2>1. m \in 1 .. m
    BY <1>7
  <2>2. \A u \in used : u <= pos[m]
    <3> TAKE u \in used
    <3>1. PICK j \in 1 .. m : pos[j] = u
      BY <1>8
    <3>2. j = m \/ j < m
      BY <1>7
    <3>3. pos[j] \in Int /\ pos[m] \in Int
      BY <1>2, <1>9, <2>1
    <3>4. j < m => pos[j] < pos[m]
      BY <1>8, <2>1
    <3> QED
      BY <3>1, <3>2, <3>3, <3>4
  <2>3. \A k \in 1 .. n : pos[m] < k /\ k <= n => ~Touches(lines[k], "save")
    BY <1>0, <1>1, <1>9, <2>1, <2>2, NothingAfter DEF n, used
  <2>4. pos[m] \in 0 .. n /\ n \in 0 .. n /\ pos[m] <= n
    BY <1>2, <1>9, <2>1
  <2> QED
    BY <1>0, <1>1, <1>3, <2>3, <2>4, RunBetween DEF n
\* The first line resets the defaults.
<1>13. r[pos[1]].values["save"] = texts[1]
  <2>1. 1 \in 1 .. m
    BY <1>7
  <2>2. \A k \in LineNumbers("save", lines) : pos[1] - 1 < k
    <3> TAKE k \in LineNumbers("save", lines)
    <3>1. PICK j \in 1 .. m : pos[j] = k
      BY <1>8 DEF used
    <3>2. j = 1 \/ 1 < j
      BY <1>7
    <3>3. pos[j] \in Int /\ pos[1] \in Int
      BY <1>2, <1>9, <2>1
    <3>4. 1 < j => pos[1] < pos[j]
      BY <1>8, <2>1
    <3> QED
      BY <3>1, <3>2, <3>3, <3>4
  <2>3. r[pos[1] - 1].reading => ~r[pos[1] - 1].reset
    <3>1. pos[1] - 1 \in 0 .. Len(lines)
      BY <1>9, <2>1 DEF n
    <3> DEFINE p == pos[1] - 1
    <3> HIDE DEF p
    <3>2. r[p].reading => ~r[p].reset
      BY <1>1, <1>3, <2>2, <3>1, NotReset DEF p
    <3> QED
      BY <3>2 DEF p
  <2> QED
    BY <1>11, <2>1, <2>3
<1>14. CASE m = 1
  <2>1. points = texts[1]
    <3>1. CASE points = << >>
      <4>1. texts = << << >> >>
        BY <1>7, <3>1
      <4> QED
        BY <3>1, <4>1
    <3>2. CASE points # << >>
      <4>1. Len(points) = 1 /\ texts[1] = <<points[1]>>
        BY <1>7, <1>14, <3>2
      <4> QED
        BY <1>6, <4>1
    <3> QED
      BY <3>1, <3>2
  <2> QED
    BY <1>4, <1>12, <1>13, <1>14, <2>1 DEF points
<1>15. CASE m > 1
  <2>1. points # << >> /\ m = Len(points) /\ \A j \in 1 .. m : texts[j] = <<points[j]>>
    <3>1. ~(m = 1) /\ Len(<< << >> >>) = 1
      BY <1>7, <1>15
    <3> QED
      BY <1>7, <3>1 DEF m
  <2>2. ~SavePointAfterInclude(lines)
    BY <1>15, <2>1 DEF points
  <2>3. \A i \in 1 .. n : lines[i].kind = "include" => \A u \in used : ~(u > i)
    <3> SUFFICES ASSUME NEW i \in 1 .. n, lines[i].kind = "include", NEW u \in used, u > i PROVE FALSE
      OBVIOUS
    <3>1. i \in Lines(lines, "include", "save")
      BY <1>2 DEF Lines
    <3>2. u \in Lines(lines, "option", "save")
      BY SetsAre DEF Sets, used
    <3> QED
      BY <2>2, <3>1, <3>2 DEF SavePointAfterInclude
  <2> DEFINE Sofar(j) == /\ r[pos[j]].values["save"] = SubSeq(points, 1, j)
                         /\ r[pos[j]].reading /\ r[pos[j]].reset
             P == {d \in Nat : d + 1 <= m => Sofar(d + 1)}
\* No INCLUDE stands before a save point.
  <2>4. ASSUME NEW i \in 0 .. n, NEW j \in 1 .. m, i < pos[j],
               \A k \in used : i < k => pos[j] <= k
        PROVE  /\ r[pos[j] - 1].values["save"] = r[i].values["save"]
               /\ r[pos[j] - 1].reset = r[i].reset /\ r[pos[j] - 1].reading = r[i].reading
    <3> DEFINE p == pos[j] - 1
    <3>1. p \in 0 .. n /\ i <= p /\ pos[j] \in used /\ pos[j] \in 1 .. n
      BY <1>2, <1>8, <1>9, <2>4
    <3>2. \A k \in 1 .. n : i < k /\ k <= p => k \notin used /\ lines[k].kind # "include"
      <4> SUFFICES ASSUME NEW k \in 1 .. n, i < k, k <= p PROVE k \notin used /\ lines[k].kind # "include"
        OBVIOUS
      <4>1. ~(pos[j] <= k) /\ pos[j] > k
        BY <1>2, <3>1
      <4> QED
        BY <2>3, <2>4, <3>1, <4>1
    <3>3. \A k \in 1 .. n : i < k /\ k <= p => ~Touches(lines[k], "save")
      <4> TAKE k \in 1 .. n
      <4>1. lines[k].kind = "option" /\ OptionOf(lines[k].name) = "save" => k \in used
        BY <1>2 DEF LineNumbers, used
      <4> QED
        BY <3>2, <4>1 DEF Touches
    <3> HIDE DEF p
    <3>4. /\ r[p].values["save"] = r[i].values["save"] /\ r[p].reset = r[i].reset
          /\ (\A k \in 1 .. n : i < k /\ k <= p => lines[k].kind # "include") => r[p].reading = r[i].reading
      BY <1>0, <1>1, <1>3, <3>1, <3>3, RunBetween DEF n
    <3> QED
      BY <3>2, <3>4 DEF p
  <2>5. 0 \in P
    <3>1. 1 \in 1 .. m /\ 0 \in 0 .. n /\ 0 < pos[1]
      BY <1>2, <1>7, <1>9
    <3>2. \A k \in used : 0 < k => pos[1] <= k
      <4> TAKE k \in used
      <4>1. PICK j \in 1 .. m : pos[j] = k
        BY <1>8
      <4>2. (j = 1 \/ 1 < j) /\ pos[j] \in Int /\ pos[1] \in Int
        BY <1>2, <1>7, <1>9, <3>1
      <4>3. 1 < j => pos[1] < pos[j]
        BY <1>8, <3>1
      <4> QED
        BY <4>1, <4>2, <4>3
    <3>3. r[pos[1] - 1].reading
      BY <1>4, <2>4, <3>1, <3>2 DEF FirstLoad
    <3>4. r[pos[1]].reading /\ r[pos[1]].reset
      BY <1>11, <3>1, <3>3
    <3>5. SubSeq(points, 1, 1) = <<points[1]>>
      <4>1. Len(points) >= 1 /\ Len(points) \in Nat
        BY <1>6, <1>7, <1>15, <2>1
      <4> DEFINE first == SubSeq(points, 1, 1)
      <4>2. Len(first) = 1 /\ first \in Seq(Int) /\ first[1] = points[1]
        BY <1>6, <4>1
      <4> HIDE DEF first
      <4>3. first = <<first[1]>>
        BY <4>2
      <4> QED
        BY <4>2, <4>3 DEF first
    <3> QED
      BY <1>13, <2>1, <3>1, <3>4, <3>5
  <2>6. ASSUME NEW d \in Nat, d \in P PROVE d + 1 \in P
    <3> SUFFICES ASSUME (d + 1) + 1 <= m PROVE Sofar((d + 1) + 1)
      OBVIOUS
    <3> DEFINE j == d + 1
               t == (d + 1) + 1
    <3>1. /\ j \in 1 .. m /\ t \in 1 .. m /\ j < t /\ j <= m /\ t = j + 1 /\ j \in Nat /\ t <= Len(points)
          /\ \A i \in 1 .. m : i <= j \/ t <= i
      BY <1>7, <2>1
    <3>2. Sofar(j)
      BY <2>6, <3>1
    <3> HIDE DEF j, t, P
    <3>3. pos[j] < pos[t] /\ pos[j] \in 0 .. n /\ pos[t] \in 1 .. n
      BY <1>8, <1>9, <3>1
    <3>4. \A k \in used : pos[j] < k => pos[t] <= k
      <4> SUFFICES ASSUME NEW k \in used, pos[j] < k PROVE pos[t] <= k
        OBVIOUS
      <4>1. PICK i \in 1 .. m : pos[i] = k
        BY <1>8
      <4>2. pos[i] \in Int /\ pos[j] \in Int /\ pos[t] \in Int
        BY <1>2, <1>9, <3>1
      <4>3. ~(i <= j)
        <5>1. i < j => pos[i] < pos[j]
          BY <1>8, <3>1
        <5>2. i <= j => i < j \/ i = j
          BY <3>1
        <5> QED
          BY <4>1, <4>2, <5>1, <5>2
      <4>4. t <= i
        BY <3>1, <4>3
      <4>5. t = i \/ t < i
        BY <1>7, <3>1, <4>4
      <4>6. t < i => pos[t] < pos[i]
        BY <1>8, <3>1
      <4> QED
        BY <4>1, <4>2, <4>5, <4>6
    <3>5. /\ r[pos[t] - 1].values["save"] = SubSeq(points, 1, j)
          /\ r[pos[t] - 1].reading /\ r[pos[t] - 1].reset
      BY <2>4, <3>1, <3>2, <3>3, <3>4
    <3>6. texts[t] = <<points[t]>> /\ texts[t] # << >>
      <4>1. \A x : <<x>> # << >>
        OBVIOUS
      <4> QED
        BY <2>1, <3>1, <4>1
    <3>7. r[pos[t]].reading /\ r[pos[t]].reset /\ r[pos[t]].values["save"] = SubSeq(points, 1, j) \o <<points[t]>>
      BY <1>11, <3>1, <3>5, <3>6
    <3>8. SubSeq(points, 1, j) \o <<points[t]>> = SubSeq(points, 1, t)
      BY <1>6, <3>1
    <3> QED
      BY <3>7, <3>8 DEF t
  <2>7. Sofar(m)
    <3>1. m - 1 \in Nat /\ (m - 1) + 1 = m
      BY <1>7
    <3>2. Nat \subseteq P
      <4> HIDE DEF P
      <4> QED
        BY <2>5, <2>6, InductionOver
    <3>3. m - 1 \in P
      BY <3>1, <3>2
    <3> HIDE DEF Sofar
    <3> QED
      BY <3>1, <3>3
  <2>8. SubSeq(points, 1, m) = points
    BY <1>6, <2>1
  <2> QED
    BY <1>4, <1>12, <2>7, <2>8 DEF points
<1>16. m = 1 \/ m > 1
  BY <1>7
<1> QED
  BY <1>14, <1>15, <1>16

-----------------------------------------------------------------------------
(* What a rewrite saved is in every file a restart may find.               *)

SavedInv ==
  /\ rewrite.pc # "idle" => Written(rewrite.content, rewrite.of)
  /\ rewrite.pc = "syncdir" => file.lines = rewrite.content
  /\ saved # Nothing => \A f \in {file, disk} : Written(f.lines, saved[1])
  /\ OthersStay

LEMMA NoRewriteFacts ==
  NoRewrite.pc = "idle"
  BY DEF NoRewrite

LEMMA RewriteSaves ==
  ASSUME ConfigInv, SavedInv, NEW order \in Orders, Rewrite(order)
  PROVE  SavedInv'
<1> DEFINE content == Rewritten(file.lines, values, order)
<1>1. file.lines \in Seq(GoodLines) /\ values \in Values
  BY DEF ConfigInv, FileInv, SetInv, SetTypes
<1>2. Written(content, values) /\ Others(content) = Others(file.lines) /\ SignedOnceMore(file.lines, content)
  BY <1>1, RewrittenFacts
<1> HIDE DEF content
<1>3. /\ rewrite'.pc = "write" /\ rewrite'.content = content /\ rewrite'.of = values
      /\ UNCHANGED <<file, disk, saved>>
  BY DEF Rewrite, NoRewrite, content
<1>4. OthersStay'
  BY <1>2, <1>3 DEF OthersStay, SignedOnceMore
<1> QED
  BY <1>2, <1>3, <1>4 DEF SavedInv

LEMMA RewriteStepSaves ==
  ASSUME ConfigInv, SavedInv, RewriteStep
  PROVE  SavedInv'
<1>1. rewrite \in [pc : {"idle", "write", "rename", "syncdir"}, content : Seq(GoodLines),
                   of : Values, synced : BOOLEAN]
  BY DEF ConfigInv, FileInv
<1>2. CASE RewriteFails
  BY <1>2, NoRewriteFacts DEF RewriteFails, SavedInv, OthersStay
<1>3. CASE Sync
  <2>1. /\ rewrite.pc = "write" /\ rewrite'.pc = "rename" /\ rewrite'.content = rewrite.content
        /\ rewrite'.of = rewrite.of /\ UNCHANGED <<file, disk, saved>>
    BY <1>1, <1>3 DEF Sync
  <2> QED
    BY <2>1 DEF SavedInv, OthersStay
<1>4. CASE Rename
  <2>1. /\ rewrite.pc = "rename" /\ rewrite'.pc = "syncdir" /\ rewrite'.content = rewrite.content
        /\ rewrite'.of = rewrite.of /\ file'.lines = rewrite.content /\ saved' = Nothing
    BY <1>1, <1>4 DEF Rename
  <2> QED
    BY <2>1 DEF SavedInv, OthersStay
<1>5. CASE SyncDir
  <2>1. /\ rewrite.pc = "syncdir" /\ rewrite' = NoRewrite /\ disk' = file /\ file' = file
        /\ saved' = <<rewrite.of>>
    BY <1>5 DEF SyncDir
  <2>2. saved'[1] = rewrite.of
    BY <2>1
  <2>3. Written(file.lines, rewrite.of)
    BY <2>1 DEF SavedInv
  <2>4. \A f \in {file', disk'} : Written(f.lines, saved'[1])
    BY <2>1, <2>2, <2>3
  <2> QED
    BY <2>1, <2>4, NoRewriteFacts DEF SavedInv, OthersStay
<1> QED
  BY <1>2, <1>3, <1>4, <1>5 DEF RewriteStep

LEMMA CrashSaves ==
  ASSUME ConfigInv, SavedInv, ServerCrash \/ MachineCrash
  PROVE  SavedInv'
<1>1. rewrite' = NoRewrite /\ saved' = saved
  BY DEF ServerCrash, MachineCrash, Down
<1>2. {file', disk'} \subseteq {file, disk}
  <2>1. CASE ServerCrash
    BY <2>1 DEF ServerCrash
  <2>2. CASE MachineCrash
    <3>1. PICK survivor \in {file, disk} :
            /\ file' = IF survivor.synced THEN survivor ELSE Whole(Garbage)
            /\ disk' = file'
      BY <2>2 DEF MachineCrash
    <3>2. survivor.synced
      BY DEF ConfigInv, FileInv
    <3> QED
      BY <3>1, <3>2
  <2> QED
    BY <2>1, <2>2
<1> QED
  BY <1>1, <1>2, NoRewriteFacts DEF SavedInv, OthersStay

LEMMA SavedSteps ==
  ASSUME ConfigInv, SavedInv, [Next]_vars
  PROVE  SavedInv'
<1>1. CASE \E request \in Requests : ConfigSet(request)
  BY <1>1 DEF ConfigSet, fileVars, SavedInv, OthersStay
<1>2. CASE SetStep
  <2>1. UNCHANGED fileVars
    BY <1>2 DEF SetStep, SetOne, AllSet, ApplyOne, AllApplied, RestoreValues, Reapply, AllReapplied
  <2> QED
    BY <2>1 DEF fileVars, SavedInv, OthersStay
<1>3. CASE \E order \in Orders : Rewrite(order)
  BY <1>3, RewriteSaves
<1>4. CASE RewriteStep
  BY <1>4, RewriteStepSaves
<1>5. CASE \E lines \in Files : Edit(lines)
  <2>1. rewrite.pc = "idle" /\ rewrite' = rewrite /\ saved' = Nothing
    BY <1>5 DEF Edit
  <2> QED
    BY <2>1 DEF SavedInv, OthersStay
<1>6. CASE ServerCrash \/ MachineCrash
  BY <1>6, CrashSaves
<1>7. CASE Start
  BY <1>7 DEF Start, fileVars, SavedInv, OthersStay
<1>8. CASE UNCHANGED vars
  BY <1>8 DEF vars, fileVars, SavedInv, OthersStay
<1> QED
  BY <1>1, <1>2, <1>3, <1>4, <1>5, <1>6, <1>7, <1>8 DEF Next

LEMMA SavedHolds ==
  Spec => [](ConfigInv /\ SavedInv)
<1>1. Init => ConfigInv /\ SavedInv
  <2> SUFFICES ASSUME Init PROVE SavedInv
    BY InitHolds
  <2>1. rewrite = NoRewrite /\ saved = Nothing
    BY DEF Init
  <2> QED
    BY <2>1, NoRewriteFacts DEF SavedInv, OthersStay
<1>2. ConfigInv /\ SavedInv /\ [Next]_vars => ConfigInv' /\ SavedInv'
  BY NextKeeps, SavedSteps
<1> QED
  BY <1>1, <1>2, PTL DEF Spec

(***************************************************************************)
(* Whatever was in the file, wherever a rewrite or the machine stopped and *)
(* whatever the parameters were: the file is whole, and after a rewrite    *)
(* that succeeded the server starts from it with the values of then, as    *)
(* far as no INCLUDE stands in the way (config.c:1679-1747).               *)
(***************************************************************************)
THEOREM FileSurvivesCorrect ==
  Spec => []FileSurvives
<1>1. ConfigInv /\ SavedInv => FileSurvives
  <2> SUFFICES ASSUME ConfigInv, SavedInv PROVE FileIsWhole /\ SavedIsLoaded
    BY DEF FileSurvives
  <2>1. FileIsWhole
    BY FileStarts DEF FileIsWhole
  <2>2. ASSUME saved # Nothing, NEW f \in {file, disk}, NEW o \in Options
        PROVE  \/ Load(f.lines).values[o] = Shown(o, saved[1][o])
               \/ Overridden(f.lines, o)
               \/ o = "save" /\ Len(saved[1][o]) > 1 /\ SavePointAfterInclude(f.lines)
    <3> DEFINE lines == f.lines
               v == saved[1]
    <3>1. v \in Values
      <4>1. saved \in Seq(Values) /\ saved # << >>
        BY <2>2 DEF ConfigInv, FileInv, Nothing
      <4> QED
        BY <4>1
    <3>2. Written(lines, v)
      BY <2>2 DEF SavedInv
    <3> HIDE DEF lines, v
    <3>3. CASE o # "save"
      BY <3>1, <3>2, <3>3, LoadedIsWritten DEF lines, v
    <3>4. CASE o = "save"
      <4>1. Shown(o, v[o]) = v["save"]
        BY <3>4 DEF Shown
      <4>2. ASSUME ~Overridden(lines, "save"), ~(Len(v["save"]) > 1 /\ SavePointAfterInclude(lines))
            PROVE  Load(lines).values["save"] = v["save"]
        BY <3>1, <3>2, <4>2, SaveIsLoaded
      <4> QED
        BY <3>4, <4>1, <4>2 DEF lines, v
    <3> QED
      BY <3>3, <3>4
  <2>3. SavedIsLoaded
    BY <2>2, FileStarts DEF SavedIsLoaded
  <2> QED
    BY <2>1, <2>3
<1> QED
  BY <1>1, SavedHolds, PTL

-----------------------------------------------------------------------------
(* A rewrite of a file that a rewrite of the same values left.             *)

\* A line that says already what is to be written.
LEMMA SameLine ==
  ASSUME NEW s, Numbered(s), NEW o \in Options, NEW text \in Seq(Int), Fits(o, text),
         NEW force \in BOOLEAN, NEW k \in s.at[o], \A a \in s.at[o] : k <= a,
         s.lines[k] = OptionLine(o, text)
  PROVE  LET r == RewriteLine(s, o, text, force)
         IN  /\ Numbered(r) /\ r.lines = s.lines /\ r.at[o] = s.at[o] \ {k}
             /\ \A p \in Options \ {o} : r.at[p] = s.at[p]
<1> DEFINE r == RewriteLine(s, o, text, force)
<1>1. /\ s \in RewriteStates /\ s.lines \in Seq(GoodLines) /\ s.at \in [Options -> SUBSET Nat]
      /\ \A q \in Options : s.at[q] \subseteq LineNumbers(q, s.lines)
  BY DEF Numbered, RewriteStates
<1>2. r \in RewriteStates /\ \E i : Writes(s, r, o, text, i)
  BY LineIsWritten
<1> HIDE DEF r
<1>3. PICK i : Writes(s, r, o, text, i)
  BY <1>2
<1>4. i \in DOMAIN s.lines /\ i \in s.at[o] /\ \A a \in s.at[o] : i <= a
  BY <1>3 DEF Writes
<1>5. i = k
  <2>1. i <= k /\ k <= i /\ i \in Nat /\ k \in Nat
    BY <1>1, <1>4
  <2> QED
    BY <2>1
<1>6. /\ DOMAIN r.lines = DOMAIN s.lines /\ r.at = [s.at EXCEPT ![o] = @ \ {k}]
      /\ \A j \in DOMAIN s.lines : r.lines[j] = s.lines[j]
  BY <1>3, <1>4, <1>5 DEF Writes
<1>7. r.lines \in Seq(GoodLines)
  BY <1>2 DEF RewriteStates
<1>8. r.lines = s.lines
  BY <1>1, <1>6, <1>7
<1>9. \A q \in Options : r.at[q] \subseteq LineNumbers(q, r.lines)
  BY <1>1, <1>6, <1>8
<1>10. r.at[o] = s.at[o] \ {k} /\ \A p \in Options \ {o} : r.at[p] = s.at[p]
  BY <1>1, <1>6
<1> QED
  BY <1>2, <1>8, <1>9, <1>10 DEF Numbered, r

\* A parameter that stands, or is missing, as its rewriter leaves it.
Settled(s, r, o) ==
  /\ Numbered(r) /\ r.lines = s.lines /\ r.at[o] = {}
  /\ \A p \in Options \ {o} : r.at[p] = s.at[p]

LEMMA OneLineSettles ==
  ASSUME NEW s, NEW o \in Options, NEW v \in Values, Fresh(s, o),
         Listed(s.lines, LineNumbers(o, s.lines), o, <<Shown(o, v[o])>>, 1), NEW force \in BOOLEAN
  PROVE  Settled(s, RewriteLine(s, o, Shown(o, v[o]), force), o)
<1> DEFINE text == Shown(o, v[o])
           r == RewriteLine(s, o, text, force)
<1>1. text \in Seq(Int) /\ Fits(o, text)
  BY ShownFits
<1> HIDE DEF text
<1>2. PICK pos \in [1 .. 1 -> LineNumbers(o, s.lines)] :
        /\ \A j \in 1 .. 1 : s.lines[pos[j]] = OptionLine(o, <<text>>[j])
        /\ \A u \in LineNumbers(o, s.lines) : \E j \in 1 .. 1 : pos[j] = u
  BY DEF Listed, text
<1> DEFINE k == pos[1]
<1>3. 1 \in 1 .. 1 /\ (\A j \in 1 .. 1 : j = 1) /\ <<text>>[1] = text
  OBVIOUS
<1>4. k \in LineNumbers(o, s.lines) /\ s.lines[k] = OptionLine(o, text)
      /\ \A u \in LineNumbers(o, s.lines) : u = k
  BY <1>2, <1>3
<1> HIDE DEF k
<1>5. Numbered(s) /\ s.at[o] = {k} /\ s.at \in [Options -> SUBSET Nat] /\ k \in Nat
  <2>1. Numbered(s) /\ s.at[o] = LineNumbers(o, s.lines) /\ s.at \in [Options -> SUBSET Nat]
    BY DEF Fresh, Numbered, RewriteStates
  <2> QED
    BY <1>4, <2>1
<1>6. /\ Numbered(r) /\ r.lines = s.lines /\ r.at[o] = s.at[o] \ {k}
      /\ \A p \in Options \ {o} : r.at[p] = s.at[p]
  <2>1. k \in s.at[o] /\ \A a \in s.at[o] : k <= a
    BY <1>5
  <2>2. Numbered(s) /\ s.lines[k] = OptionLine(o, text)
    BY <1>4, <1>5
  <2> QED
    BY <1>1, <2>1, <2>2, SameLine
<1> HIDE DEF r
<1>7. r.at[o] = {}
  BY <1>5, <1>6
<1> QED
  BY <1>6, <1>7 DEF Settled, r, text

LEMMA NoLineSettles ==
  ASSUME NEW s, NEW o \in Options, Fresh(s, o), LineNumbers(o, s.lines) = {}
  PROVE  s.at[o] = {} /\ Settled(s, MarkAsProcessed(s, o), o)
<1> DEFINE r == MarkAsProcessed(s, o)
<1>1. s \in RewriteStates /\ Numbered(s) /\ s.at[o] = {} /\ s.at \in [Options -> SUBSET Nat]
  BY DEF Fresh, Numbered, RewriteStates
<1>2. Alters(s, r, o) /\ r.lines = s.lines /\ r.at = s.at
  BY <1>1, MarkAlters
<1>3. r \in RewriteStates
  BY <1>2 DEF Alters
<1> HIDE DEF r
<1>5. Numbered(r)
  BY <1>1, <1>2, <1>3 DEF Numbered
<1> QED
  BY <1>1, <1>2, <1>5 DEF Settled, r

LEMMA SaveSettles ==
  ASSUME NEW s, NEW o \in Options, o = "save", NEW v \in Values, Fresh(s, o), v[o] # << >>,
         Listed(s.lines, LineNumbers(o, s.lines), o, TextsOf(o, v), Len(TextsOf(o, v)))
  PROVE  Settled(s, RewriteSave(s, o, v), o)
<1> DEFINE texts == TextsOf(o, v)
           points == v[o]
           n == Len(points)
           used == LineNumbers(o, s.lines)
           fold == FoldLeft(LAMBDA r, point : RewriteLine(r, "save", <<point>>, TRUE), s, points)
<1>1. points \in Seq(Int) /\ Legal(points)
  BY DEF Values, Fits
<1>2. Numbered(s) /\ s \in RewriteStates /\ s.at[o] = used /\ s.at \in [Options -> SUBSET Nat]
  BY DEF Fresh, Numbered, RewriteStates
<1>3. RewriteSave(s, o, v) = fold
  BY DEF RewriteSave
<1>4. /\ Len(texts) = n
      /\ \A j \in 1 .. n : texts[j] = <<points[j]>> /\ texts[j] \in Seq(Int) /\ Fits(o, texts[j])
  BY TextsFit
<1>5. PICK r : /\ r \in [0 .. n -> RewriteStates] /\ r[0] = s
               /\ \A k \in 1 .. n : r[k] = RewriteLine(r[k - 1], "save", <<points[k]>>, TRUE)
               /\ fold = r[n]
  BY <1>1, <1>2, SavePointRuns, Zenon
<1>6. n \in Nat
  BY <1>1
<1> HIDE DEF fold, n, points, texts, used
<1>7. PICK pos \in [1 .. n -> used] :
        /\ \A j \in 1 .. n : s.lines[pos[j]] = OptionLine(o, texts[j])
        /\ \A i, j \in 1 .. n : i < j => pos[i] < pos[j]
        /\ \A u \in used : \E j \in 1 .. n : pos[j] = u
  BY <1>4 DEF Listed, texts, used
<1>8. used \subseteq Nat
  BY <1>2
<1> DEFINE Left(k) == {pos[j] : j \in k + 1 .. n}
           P == {k \in Nat : k <= n =>
                   /\ Numbered(r[k]) /\ r[k].lines = s.lines /\ r[k].at[o] = Left(k)
                   /\ \A p \in Options \ {o} : r[k].at[p] = s.at[p]}
<1>9. 0 \in P
  <2>1. Left(0) = used
    BY <1>6, <1>7
  <2> HIDE DEF Left
  <2> QED
    BY <1>2, <1>5, <2>1
<1>10. ASSUME NEW k \in Nat, k \in P PROVE k + 1 \in P
  <2> DEFINE q == r[k]
             t == r[k + 1]
             first == pos[k + 1]
  <2> SUFFICES ASSUME k + 1 <= n
               PROVE  /\ Numbered(t) /\ t.lines = s.lines /\ t.at[o] = Left(k + 1)
                      /\ \A p \in Options \ {o} : t.at[p] = s.at[p]
    OBVIOUS
  <2>1. k <= n /\ k + 1 \in 1 .. n /\ (k + 1) - 1 = k /\ k + 1 \in k + 1 .. n
    BY <1>6
  <2>2. /\ Numbered(q) /\ q.lines = s.lines /\ q.at[o] = Left(k)
        /\ \A p \in Options \ {o} : q.at[p] = s.at[p]
    BY <1>10, <2>1
  <2>3. t = RewriteLine(q, o, texts[k + 1], TRUE)
    BY <1>4, <1>5, <2>1
  <2>4. texts[k + 1] \in Seq(Int) /\ Fits(o, texts[k + 1])
    BY <1>4, <2>1
  <2>5. first \in Left(k) /\ \A a \in Left(k) : first <= a
    <3>1. \A j \in k + 1 .. n : j \in 1 .. n /\ (j = k + 1 \/ k + 1 < j)
      BY <1>6
    <3>2. \A j \in 1 .. n : pos[j] \in Nat
      BY <1>7, <1>8
    <3> QED
      BY <1>7, <2>1, <3>1, <3>2
  <2>6. s.lines[first] = OptionLine(o, texts[k + 1])
    BY <1>7, <2>1
  <2>7. Left(k) \ {first} = Left(k + 1)
    <3>1. \A j \in k + 1 .. n : j \in 1 .. n /\ (j = k + 1 \/ (k + 1 < j /\ j \in (k + 1) + 1 .. n))
      BY <1>6
    <3>2. \A j \in (k + 1) + 1 .. n : j \in k + 1 .. n /\ k + 1 < j /\ j \in 1 .. n
      BY <1>6
    <3>3. \A j \in 1 .. n : pos[j] \in Nat
      BY <1>7, <1>8
    <3>4. \A j \in (k + 1) + 1 .. n : pos[j] # first
      <4> TAKE j \in (k + 1) + 1 .. n
      <4>1. pos[k + 1] < pos[j] /\ pos[j] \in Nat /\ pos[k + 1] \in Nat
        BY <1>7, <2>1, <3>2, <3>3
      <4> QED
        BY <4>1
    <3> QED
      BY <3>1, <3>2, <3>4
  <2> HIDE DEF q, t, first, Left
  <2>8. /\ Numbered(t) /\ t.lines = q.lines /\ t.at[o] = q.at[o] \ {first}
        /\ \A p \in Options \ {o} : t.at[p] = q.at[p]
    <3>1. Numbered(q) /\ first \in q.at[o] /\ \A a \in q.at[o] : first <= a
      BY <2>2, <2>5
    <3>2. q.lines[first] = OptionLine(o, texts[k + 1])
      BY <2>2, <2>6
    <3> DEFINE text == texts[k + 1]
               w == RewriteLine(q, o, text, TRUE)
    <3>3. text \in Seq(Int) /\ Fits(o, text) /\ q.lines[first] = OptionLine(o, text)
      BY <2>4, <3>2
    <3> HIDE DEF text
    <3>4. \A force \in BOOLEAN :
            LET again == RewriteLine(q, o, text, force)
            IN  /\ Numbered(again) /\ again.lines = q.lines /\ again.at[o] = q.at[o] \ {first}
                /\ \A p \in Options \ {o} : again.at[p] = q.at[p]
      BY <3>1, <3>3, SameLine
    <3>5. TRUE \in BOOLEAN /\ w = RewriteLine(q, o, text, TRUE)
      OBVIOUS
    <3> HIDE DEF w
    <3>6. /\ Numbered(w) /\ w.lines = q.lines /\ w.at[o] = q.at[o] \ {first}
          /\ \A p \in Options \ {o} : w.at[p] = q.at[p]
      BY <3>4, <3>5, Zenon
    <3> HIDE DEF w
    <3> QED
      BY <2>3, <3>5, <3>6 DEF text
  <2> QED
    BY <2>2, <2>7, <2>8
<1>11. n \in P
  <2> HIDE DEF P
  <2>1. Nat \subseteq P
    BY <1>9, <1>10, InductionOver
  <2> QED
    BY <1>6, <2>1
<1>12. Left(n) = {}
  BY <1>6
<1> HIDE DEF Left
<1>13. Settled(s, r[n], o)
  <2>1. /\ Numbered(r[n]) /\ r[n].lines = s.lines /\ r[n].at[o] = Left(n)
        /\ \A p \in Options \ {o} : r[n].at[p] = s.at[p]
    BY <1>6, <1>11
  <2> QED
    BY <1>12, <2>1 DEF Settled
<1> QED
  BY <1>3, <1>5, <1>13

LEMMA OptionSettles ==
  ASSUME NEW s, NEW o \in Options, NEW v \in Values, Fresh(s, o),
         Stands(s.lines, LineNumbers(o, s.lines), o, v)
  PROVE  Settled(s, RewriteOption(s, o, v), o)
<1> DEFINE used == LineNumbers(o, s.lines)
           text == Shown(o, v[o])
<1>1. o \notin {"save", "percentiles"} => text = v[o]
  BY DEF Shown
<1>2. o \in Numeric => RewriteOption(s, o, v) = RewriteNumber(s, o, v) /\ o \notin {"save", "percentiles", "bind", "user"}
  BY OptionKinds DEF RewriteOption
<1>3. "user" \notin Numeric /\ "bind" \notin Numeric /\ "save" \notin Numeric /\ "percentiles" \notin Numeric
  BY DEF Numeric
<1>4. /\ o = "user" => RewriteOption(s, o, v) = RewriteString(s, o, v)
      /\ o = "bind" => RewriteOption(s, o, v) = RewriteBind(s, o, v)
      /\ o = "save" => RewriteOption(s, o, v) = RewriteSave(s, o, v)
      /\ o = "percentiles" => RewriteOption(s, o, v) = RewriteLine(s, o, text, TRUE)
  BY <1>3 DEF RewriteOption, RewritePercentiles
<1>5. o \notin {"save", "percentiles"} => RewriteNumber(s, o, v) = RewriteLine(s, o, text, v[o] # Default[o])
  BY <1>1 DEF RewriteNumber
<1>6. (v[o] # Default[o]) \in BOOLEAN
  OBVIOUS
<1>7. CASE MayMiss(o, v) /\ used = {}
  <2>1. s.at[o] = {} /\ Settled(s, MarkAsProcessed(s, o), o)
    BY <1>7, NoLineSettles
  <2>2. v[o] = Default[o] /\ o \notin {"save", "percentiles"}
    BY <1>7 DEF MayMiss
  <2>3. (v[o] # Default[o]) = FALSE
    BY <2>2
  <2>4. RewriteNumber(s, o, v) = MarkAsProcessed(s, o)
    BY <1>5, <2>1, <2>2, <2>3, LineIsNotWritten
  <2>5. RewriteOption(s, o, v) = MarkAsProcessed(s, o)
    <3>1. RewriteString(s, o, v) = MarkAsProcessed(s, o)
      BY <2>4 DEF RewriteString
    <3>2. RewriteBind(s, o, v) = MarkAsProcessed(s, o)
      BY <2>2 DEF RewriteBind
    <3> QED
      BY <1>2, <1>4, <2>2, <2>4, <3>1, <3>2, OptionKinds
  <2> QED
    BY <2>1, <2>5
<1>8. CASE MayStand(o, v) /\ Listed(s.lines, used, o, TextsOf(o, v), Len(TextsOf(o, v)))
  <2>1. CASE o = "save" /\ v[o] # << >>
    BY <1>4, <1>8, <2>1, SaveSettles
  <2>2. CASE ~(o = "save" /\ v[o] # << >>)
    <3>1. TextsOf(o, v) = <<text>> /\ Len(<<text>>) = 1
      BY <2>2 DEF TextsOf
    <3>2. Listed(s.lines, used, o, <<text>>, 1)
      BY <1>8, <3>1
    <3> HIDE DEF text, used
    <3>3. \A force \in BOOLEAN : Settled(s, RewriteLine(s, o, text, force), o)
      BY <3>2, OneLineSettles DEF text, used
    <3>4. ~(o = "user" /\ v[o] = << >>) /\ ~(o = "bind" /\ v[o] = Default[o])
      BY <1>8 DEF MayStand
    <3>5. o \notin {"save", "percentiles"} => Settled(s, RewriteNumber(s, o, v), o)
      BY <1>5, <1>6, <3>3
    <3>6. CASE o \in Numeric
      BY <1>2, <3>5, <3>6
    <3>7. CASE o = "user"
      BY <1>4, <3>4, <3>5, <3>7 DEF RewriteString
    <3>8. CASE o = "bind"
      <4>1. RewriteOption(s, o, v) = RewriteLine(s, o, text, TRUE)
        BY <1>1, <1>4, <3>4, <3>8 DEF RewriteBind
      <4> QED
        BY <3>3, <4>1
    <3>9. CASE o = "save"
      <4>1. text = << >>
        BY <2>2, <3>9 DEF text, Shown
      <4>2. RewriteOption(s, o, v) = RewriteLine(s, o, text, TRUE)
        BY <1>4, <2>2, <3>9, <4>1 DEF RewriteSave
      <4> QED
        BY <3>3, <4>2
    <3>10. CASE o = "percentiles"
      BY <1>4, <3>3, <3>10
    <3> QED
      BY <3>6, <3>7, <3>8, <3>9, <3>10, OptionKinds
  <2> QED
    BY <2>1, <2>2
<1> QED
  BY <1>7, <1>8 DEF Stands

\* All parameters, in whatever order: nothing changes, and no old line is left over.
AllSettled(s, q) == q \in RewriteStates /\ q.lines = s.lines /\ \A o \in Options : q.at[o] = {}

LEMMA OrderSettles ==
  ASSUME NEW s, \A o \in Options : Fresh(s, o), NEW v \in Values, NEW order \in Orders,
         \A o \in Options : Stands(s.lines, LineNumbers(o, s.lines), o, v)
  PROVE  LET q == FoldLeft(LAMBDA t, o : RewriteOption(t, o, v), s, order)
         IN  AllSettled(s, q)
<1> DEFINE fold == FoldLeft(LAMBDA t, o : RewriteOption(t, o, v), s, order)
           n == Len(order)
<1>1. order \in Seq(Options) /\ ToSet(order) = Options /\ IsInjective(order)
  BY ConfigAssumption
<1>2. Numbered(s) /\ s \in RewriteStates
  <2>1. "port" \in Options
    BY DEF Options
  <2> QED
    BY <2>1 DEF Fresh, Numbered
<1>3. PICK r : /\ r \in [0 .. n -> RewriteStates] /\ r[0] = s
               /\ \A k \in 1 .. n : r[k] = RewriteOption(r[k - 1], order[k], v)
               /\ fold = r[n]
  BY <1>1, <1>2, OptionRuns, Zenon
<1>4. /\ n \in Nat /\ DOMAIN order = 1 .. n /\ \A k \in 1 .. n : order[k] \in Options
      /\ \A o \in Options : \E k \in 1 .. n : order[k] = o
      /\ \A j, k \in 1 .. n : order[j] = order[k] => j = k
  BY <1>1 DEF ToSet, IsInjective
<1> HIDE DEF fold, n
<1> DEFINE P == {k \in Nat : k <= n =>
                   /\ Numbered(r[k]) /\ r[k].lines = s.lines
                   /\ \A j \in 1 .. k : r[k].at[order[j]] = {}
                   /\ \A o \in Options : (\A j \in 1 .. k : order[j] # o) => r[k].at[o] = s.at[o]}
<1>5. 0 \in P
  BY <1>2, <1>3
<1>6. ASSUME NEW k \in Nat, k \in P PROVE k + 1 \in P
  <2> DEFINE q == r[k]
             t == r[k + 1]
             o == order[k + 1]
  <2> SUFFICES ASSUME k + 1 <= n
               PROVE  /\ Numbered(t) /\ t.lines = s.lines
                      /\ \A j \in 1 .. k + 1 : t.at[order[j]] = {}
                      /\ \A p \in Options : (\A j \in 1 .. k + 1 : order[j] # p) => t.at[p] = s.at[p]
    OBVIOUS
  <2>1. k <= n /\ k + 1 \in 1 .. n /\ (k + 1) - 1 = k /\ k \in 0 .. n
    BY <1>4
  <2>2. /\ Numbered(q) /\ q.lines = s.lines
        /\ \A j \in 1 .. k : q.at[order[j]] = {}
        /\ \A p \in Options : (\A j \in 1 .. k : order[j] # p) => q.at[p] = s.at[p]
    BY <1>6, <2>1
  <2>3. o \in Options /\ t = RewriteOption(q, o, v)
    BY <1>3, <1>4, <2>1
  <2>4. \A j \in 1 .. k : order[j] # o /\ order[j] \in Options
    <3> TAKE j \in 1 .. k
    <3>1. j \in 1 .. n /\ j # k + 1
      BY <1>4, <2>1
    <3> QED
      BY <1>4, <2>1, <3>1
  <2> HIDE DEF q, t
  <2>5. Fresh(q, o)
    <3>1. q.at[o] = s.at[o] /\ s.at[o] = LineNumbers(o, s.lines)
      BY <2>2, <2>3, <2>4 DEF Fresh
    <3> QED
      BY <2>2, <3>1 DEF Fresh
  <2>6. Settled(q, t, o)
    BY <2>2, <2>3, <2>5, OptionSettles
  <2>7. /\ Numbered(t) /\ t.lines = s.lines /\ t.at[o] = {}
        /\ \A p \in Options \ {o} : t.at[p] = q.at[p]
    BY <2>2, <2>6 DEF Settled
  <2>8. \A j \in 1 .. k + 1 : j \in 1 .. k \/ j = k + 1
    OBVIOUS
  <2>9. \A j \in 1 .. k + 1 : t.at[order[j]] = {}
    <3> TAKE j \in 1 .. k + 1
    <3>1. CASE j \in 1 .. k
      BY <2>2, <2>4, <2>7, <3>1
    <3>2. CASE j = k + 1
      BY <2>7, <3>2
    <3> QED
      BY <2>8, <3>1, <3>2
  <2>10. ASSUME NEW p \in Options, \A j \in 1 .. k + 1 : order[j] # p
         PROVE  t.at[p] = s.at[p]
    <3>1. p # o
      BY <2>10
    <3>2. \A j \in 1 .. k : order[j] # p
      BY <2>10
    <3> QED
      BY <2>2, <2>7, <3>1, <3>2
  <2> QED
    BY <2>7, <2>9, <2>10
<1>7. n \in P
  <2> HIDE DEF P
  <2>1. Nat \subseteq P
    BY <1>5, <1>6, InductionOver
  <2> QED
    BY <1>4, <2>1
<1>8. fold.lines = s.lines /\ Numbered(fold) /\ \A o \in Options : fold.at[o] = {}
  <2>1. /\ Numbered(r[n]) /\ r[n].lines = s.lines /\ \A j \in 1 .. n : r[n].at[order[j]] = {}
    BY <1>4, <1>7
  <2> HIDE DEF P
  <2>2. \A o \in Options : r[n].at[o] = {}
    BY <1>4, <2>1
  <2> QED
    BY <1>3, <2>1, <2>2
<1> QED
  BY <1>8 DEF Numbered, AllSettled, fold

\* Lines without two empty ones in a row, and the empty line that reading adds.
LEMMA ContentSettles ==
  ASSUME NEW lines \in Seq(GoodLines), lines # << >>, NoTwoBlanks(lines)
  PROVE  GetContent(Append(lines, Blank)) = IF Last(lines) = Blank THEN lines ELSE Append(lines, Blank)
<1> DEFINE text == Append(lines, Blank)
           n == Len(lines)
<1>1. n \in Nat /\ n > 0 /\ DOMAIN lines = 1 .. n
  OBVIOUS
<1>2. /\ text \in Seq(GoodLines) /\ Len(text) = n + 1 /\ text[n + 1] = Blank
      /\ \A i \in 1 .. n : text[i] = lines[i]
  BY PlainLinesAreGood
<1> HIDE DEF text
<1>3. PICK r : /\ r \in [0 .. Len(text) -> Seq(GoodLines)] /\ r[0] = << >>
               /\ \A k \in 1 .. Len(text) : r[k] = AddContent(text, r[k - 1], k)
               /\ GetContent(text) = r[Len(text)]
  BY <1>2, ContentRuns, Zenon
<1> HIDE DEF n
<1> DEFINE P == {k \in Nat : k <= n => r[k] = SubSeq(lines, 1, k)}
<1>4. 0 \in P
  <2>1. SubSeq(lines, 1, 0) = << >>
    OBVIOUS
  <2> QED
    BY <1>3, <2>1
<1>5. ASSUME NEW k \in Nat, k \in P PROVE k + 1 \in P
  <2> SUFFICES ASSUME k + 1 <= n PROVE r[k + 1] = SubSeq(lines, 1, k + 1)
    OBVIOUS
  <2>1. k <= n /\ k + 1 \in 1 .. n /\ (k + 1) - 1 = k /\ k + 1 \in 1 .. n + 1
    BY <1>1
  <2>2. r[k + 1] = AddContent(text, r[k], k + 1) /\ r[k] = SubSeq(lines, 1, k)
    BY <1>2, <1>3, <1>5, <2>1
  <2>3. ~(text[k + 1] = Blank /\ k > 0 /\ text[k] = Blank)
    <3> SUFFICES ASSUME k > 0 PROVE ~(text[k + 1] = Blank /\ text[k] = Blank)
      OBVIOUS
    <3>1. k \in 1 .. n /\ text[k] = lines[k] /\ text[k + 1] = lines[k + 1]
      BY <1>1, <1>2, <2>1
    <3>2. k + 1 \in DOMAIN lines /\ k + 1 > 1
      BY <1>1, <2>1
    <3> QED
      BY <2>1, <3>1, <3>2 DEF NoTwoBlanks
  <2>4. AddContent(text, r[k], k + 1) = Append(r[k], text[k + 1])
    BY <2>1, <2>3 DEF AddContent
  <2>5. Append(SubSeq(lines, 1, k), lines[k + 1]) = SubSeq(lines, 1, k + 1)
    BY <1>1, <2>1 DEF n
  <2> QED
    BY <1>2, <2>1, <2>2, <2>4, <2>5
<1>6. r[n] = lines
  <2>1. n \in P
    <3> HIDE DEF P
    <3>1. Nat \subseteq P
      BY <1>4, <1>5, InductionOver
    <3> QED
      BY <1>1, <3>1
  <2>2. SubSeq(lines, 1, n) = lines
    BY DEF n
  <2> QED
    BY <1>1, <2>1, <2>2
<1>7. r[n + 1] = AddContent(text, lines, n + 1)
  <2>1. n + 1 \in 1 .. n + 1 /\ (n + 1) - 1 = n
    BY <1>1
  <2> QED
    BY <1>2, <1>3, <1>6, <2>1
<1>8. text[n] = Last(lines)
  <2>1. n \in 1 .. n
    BY <1>1
  <2> QED
    BY <1>2, <2>1 DEF Last, n
<1>9. AddContent(text, lines, n + 1) = IF Last(lines) = Blank THEN lines ELSE Append(lines, Blank)
  <2>1. n + 1 > 0 /\ (n + 1) - 1 = n /\ n > 0
    BY <1>1
  <2> QED
    BY <1>2, <1>8, <2>1 DEF AddContent
<1> QED
  BY <1>2, <1>3, <1>7, <1>9 DEF text

\* A second rewrite of the same values.
LEMMA RewrittenSettles ==
  ASSUME NEW lines, NEW v \in Values, Written(lines, v), NEW order \in Orders
  PROVE  Rewritten(lines, v, order) = IF Last(lines) = Blank THEN lines ELSE Append(lines, Blank)
<1> DEFINE text == IF lines = << >> THEN << >> ELSE Append(lines, Blank)
           s == ReadOldFile(lines)
           q == FoldLeft(LAMBDA t, o : RewriteOption(t, o, v), s, order)
           kept == RemoveOrphaned(q)
<1>1. /\ lines \in Seq(GoodLines) /\ NoTwoBlanks(lines) /\ (\A i \in DOMAIN lines : lines[i].kind # "deprecated")
      /\ \A o \in Options : Stands(lines, LineNumbers(o, lines), o, v)
  BY DEF Written
<1>2. lines # << >>
  <2>1. "percentiles" \in Options /\ ~MayMiss("percentiles", v)
    BY DEF Options, MayMiss
  <2>2. Listed(lines, LineNumbers("percentiles", lines), "percentiles", TextsOf("percentiles", v),
               Len(TextsOf("percentiles", v)))
    BY <1>1, <2>1 DEF Stands
  <2>3. Len(TextsOf("percentiles", v)) = 1
    <3>1. TextsOf("percentiles", v) = <<Shown("percentiles", v["percentiles"])>>
      BY DEF TextsOf
    <3> DEFINE text1 == Shown("percentiles", v["percentiles"])
    <3> HIDE DEF text1
    <3>2. Len(<<text1>>) = 1
      OBVIOUS
    <3> QED
      BY <3>1, <3>2 DEF text1
  <2>4. PICK pos : pos \in [1 .. 1 -> LineNumbers("percentiles", lines)]
    BY <2>2, <2>3 DEF Listed
  <2>5. pos[1] \in DOMAIN lines
    <3>1. 1 \in 1 .. 1
      OBVIOUS
    <3>2. pos[1] \in LineNumbers("percentiles", lines)
      BY <2>4, <3>1
    <3> QED
      BY <3>2 DEF LineNumbers
  <2> QED
    BY <2>5
<1>3. /\ s \in RewriteStates /\ text \in Seq(GoodLines)
      /\ \A o \in Options : Fresh(s, o)
      /\ DOMAIN s.lines = DOMAIN text
      /\ \A i \in DOMAIN text : s.lines[i] = KnownLine(text[i])
  BY <1>1, ReadOldFileFacts
<1>4. text = Append(lines, Blank)
  BY <1>2
<1> HIDE DEF text, s
<1>5. /\ DOMAIN lines = 1 .. Len(lines) /\ Len(lines) \in Nat /\ DOMAIN text = 1 .. Len(lines) + 1
      /\ text[Len(lines) + 1] = Blank /\ \A i \in 1 .. Len(lines) : text[i] = lines[i]
  BY <1>1, <1>4
<1>6. \A i \in 1 .. Len(lines) + 1 : i \in 1 .. Len(lines) \/ i = Len(lines) + 1
  BY <1>5
<1>7. s.lines = text
  <2>1. \A i \in DOMAIN text : text[i].kind # "deprecated"
    <3>1. text[Len(lines) + 1].kind # "deprecated"
      BY <1>5, PlainKinds
    <3>2. \A i \in 1 .. Len(lines) : text[i].kind # "deprecated"
      BY <1>1, <1>5
    <3> QED
      BY <1>5, <1>6, <3>1, <3>2
  <2>2. \A i \in DOMAIN text : s.lines[i] = text[i]
    BY <1>3, <2>1 DEF KnownLine
  <2>3. s.lines \in Seq(GoodLines)
    BY <1>3 DEF RewriteStates
  <2> QED
    BY <1>3, <2>2, <2>3
<1>8. \A o \in Options : Stands(text, LineNumbers(o, text), o, v)
  <2> TAKE o \in Options
  <2>1. LineNumbers(o, text) = LineNumbers(o, lines)
    <3>1. text[Len(lines) + 1].kind # "option"
      BY <1>5, PlainKinds
    <3>2. 1 .. Len(lines) \subseteq 1 .. Len(lines) + 1
      BY <1>5
    <3> QED
      BY <1>5, <1>6, <3>1, <3>2 DEF LineNumbers
  <2>2. \A i \in LineNumbers(o, lines) : text[i] = lines[i]
    BY <1>5 DEF LineNumbers
  <2> QED
    BY <1>1, <2>1, <2>2, StandsStill
<1>9. q \in RewriteStates /\ q.lines = text /\ \A o \in Options : q.at[o] = {}
  <2>1. /\ \A o \in Options : Fresh(s, o)
        /\ \A o \in Options : Stands(s.lines, LineNumbers(o, s.lines), o, v)
    BY <1>3, <1>7, <1>8
  <2>2. AllSettled(s, q)
    BY <2>1, OrderSettles
  <2> HIDE DEF q
  <2> QED
    BY <1>7, <2>2 DEF AllSettled
<1> HIDE DEF q
<1>10. kept = text
  <2>1. q.processed \subseteq Options
    BY <1>9 DEF RewriteStates
  <2>2. kept = [i \in DOMAIN text |-> text[i]]
    BY <1>9, <2>1 DEF RemoveOrphaned
  <2> HIDE DEF kept
  <2> QED
    BY <1>3, <2>2
<1>11. Rewritten(lines, v, order) = GetContent(kept)
  BY DEF Rewritten, kept, q, s
<1> QED
  BY <1>1, <1>2, <1>4, <1>10, <1>11, ContentSettles

(***************************************************************************)
(* Whatever the file and the parameters, a rewrite keeps every comment,    *)
(* INCLUDE and unknown line in its order and signs the file only once, and *)
(* a second rewrite of the values that were saved, in any order of the     *)
(* parameters, leaves the file as it is but for one empty line at its end  *)
(* (config.c:1119-1267, 1599-1652).                                        *)
(***************************************************************************)
THEOREM RewritesKeepCorrect ==
  Spec => []RewritesKeep
<1>1. ConfigInv /\ SavedInv => RewritesKeep
  <2> SUFFICES ASSUME ConfigInv, SavedInv PROVE OthersStay /\ RewriteSettles
    BY DEF RewritesKeep
  <2>1. ASSUME saved # Nothing, NEW order \in Orders
        PROVE  Rewritten(file.lines, saved[1], order) =
                 IF Last(file.lines) = Blank THEN file.lines ELSE Append(file.lines, Blank)
    <3>1. saved[1] \in Values
      <4>1. saved \in Seq(Values) /\ saved # << >>
        BY <2>1 DEF ConfigInv, FileInv, Nothing
      <4> QED
        BY <4>1
    <3>2. Written(file.lines, saved[1])
      BY <2>1 DEF SavedInv
    <3> QED
      BY <3>1, <3>2, RewrittenSettles
  <2>2. RewriteSettles
    BY <2>1 DEF RewriteSettles
  <2> QED
    BY <2>2 DEF SavedInv
<1> QED
  BY <1>1, SavedHolds, PTL

=============================================================================
