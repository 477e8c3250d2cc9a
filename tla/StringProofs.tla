----------------------------- MODULE StringProofs -----------------------------
(***************************************************************************)
(* String values, from the bytes of a dump to the objects of the keyspace. *)
(*                                                                         *)
(* The first part is about bytes: a length, an integer, a string and a     *)
(* double are read back as what they were written from, whatever follows   *)
(* them, and no part of them is read as anything.  Numbers are split in    *)
(* bytes by division, which the provers know through one lemma only        *)
(* (DivUnique); a stream is a sequence of bytes and chunks.                *)
(*                                                                         *)
(* The second part is about objects: for any keys, texts, transactions and *)
(* bounds, the reference counts are the references, shared integers stay   *)
(* out of the keys that need access data, the replica follows, and the     *)
(* values are those of a map (StringMap).  A reload is where the two meet. *)
(* Its invariant is StoreInv; the commands are followed one by one to what *)
(* they do to the values (Does), lists of commands through the folds that  *)
(* release or replay them.  Inductions are sets of naturals closed under   *)
(* the successor (InductionOver), and folds are shown to exist.            *)
(***************************************************************************)
EXTENDS StringStore, ServerFunctions, FiniteSetTheorems, WellFoundedInduction, TLAPS

-----------------------------------------------------------------------------
(* Induction and folds.                                                    *)

LEMMA LeastOf ==
  ASSUME NEW T, T \subseteq Nat, T # {}
  PROVE  \E n \in T : \A m \in T : ~(m < n)
<1> DEFINE R == OpToRel(<, Nat)
<1>1. IsWellFoundedOn(R, Nat)
  BY NatLessThanWellFounded, Zenon
<1>2. \E n \in T : \A m \in T : ~(<<m, n>> \in R)
  BY <1>1, WFMin
<1> QED
  BY <1>2 DEF OpToRel

LEMMA InductionOver ==
  ASSUME NEW P, 0 \in P, \A n \in Nat : n \in P => n + 1 \in P
  PROVE  Nat \subseteq P
<1> SUFFICES ASSUME Nat \ P # {} PROVE FALSE
  OBVIOUS
<1>1. PICK n \in Nat \ P : \A m \in Nat \ P : ~(m < n)
  <2> Nat \ P \subseteq Nat
    OBVIOUS
  <2> QED
    BY LeastOf
<1>2. n # 0 /\ n - 1 \in Nat /\ n - 1 \in P /\ n = (n - 1) + 1
  BY <1>1
<1> QED
  BY <1>1, <1>2


\* A set of positions of a sequence has a last one.
LEMMA LastPosition ==
  ASSUME NEW n \in Nat, NEW s \in SUBSET (1 .. n), s # {}
  PROVE  Max(s) \in s /\ \A x \in s : x <= Max(s)
<1> DEFINE T == {n - x : x \in s}
<1>1. T \subseteq Nat /\ T # {}
  <2>1. \A x \in s : x \in 1 .. n /\ n - x \in Nat
    OBVIOUS
  <2>2. PICK x \in s : TRUE
    OBVIOUS
  <2> QED
    BY <2>1, <2>2
<1>2. PICK k \in T : \A m \in T : ~(m < k)
  BY <1>1, LeastOf
<1>3. PICK x \in s : k = n - x
  OBVIOUS
<1>4. \A y \in s : y <= x
  <2> TAKE y \in s
  <2>1. n - y \in T /\ ~(n - y < n - x)
    BY <1>2, <1>3
  <2> QED
    BY <2>1
<1>5. \E z \in s : \A y \in s : z >= y
  BY <1>4
<1> QED
  BY <1>5 DEF Max

(***************************************************************************)
(* A fold over the n positions of a sequence, as the community modules     *)
(* define it, is a recursive function on sets of positions: it exists.     *)
(***************************************************************************)
IsFold(it, X, base, n, step) ==
  /\ it \in [SUBSET (1 .. n) -> X]
  /\ \A s \in SUBSET (1 .. n) :
       it[s] = IF s = {} THEN base ELSE step[<<it[s \ {Max(s)}], Max(s)>>]

LEMMA FoldExists ==
  ASSUME NEW X, NEW base \in X, NEW n \in Nat, NEW step \in [X \X (1 .. n) -> X]
  PROVE  \E it : IsFold(it, X, base, n, step)
<1> DEFINE D == SUBSET (1 .. n)
           Body(g, s) == IF s = {} THEN base ELSE step[<<g[s \ {Max(s)}], Max(s)>>]
           P == {k \in Nat : \E g \in [D -> X] :
                   \A s \in D : s \subseteq 1 .. k => g[s] = Body(g, s)}
<1>1. ASSUME NEW g \in [D -> X], NEW s \in D
      PROVE  Body(g, s) \in X
  BY LastPosition
<1>2. 0 \in P
  <2> DEFINE g == [s \in D |-> base]
  <2>1. g \in [D -> X]
    OBVIOUS
  <2>2. ASSUME NEW s \in D, s \subseteq 1 .. 0
        PROVE  g[s] = Body(g, s)
    <3>1. s = {}
      BY <2>2
    <3> QED
      BY <3>1
  <2> HIDE DEF Body, g
  <2> QED
    BY <2>1, <2>2
<1>3. ASSUME NEW k \in Nat, k \in P
      PROVE  k + 1 \in P
  <2>1. PICK g \in [D -> X] : \A s \in D : s \subseteq 1 .. k => g[s] = Body(g, s)
    BY <1>3
  <2> DEFINE h == [s \in D |-> Body(g, s)]
  <2>2. h \in [D -> X]
    BY <1>1
  <2>3. ASSUME NEW s \in D, s \subseteq 1 .. k + 1
        PROVE  h[s] = Body(h, s)
    <3>1. CASE s = {}
      BY <3>1
    <3>2. CASE s # {}
      <4> DEFINE r == s \ {Max(s)}
      <4>1. r \in D /\ r \subseteq 1 .. k
        <5>1. Max(s) \in s /\ \A x \in s : x <= Max(s)
          BY <3>2, LastPosition
        <5> HIDE DEF D
        <5>2. ASSUME NEW x \in r PROVE x \in 1 .. k
          <6>1. x \in 1 .. k + 1 /\ Max(s) \in 1 .. k + 1 /\ x <= Max(s) /\ x # Max(s)
            BY <2>3, <5>1
          <6> QED
            BY <6>1
        <5> QED
          BY <5>2 DEF D
      <4>2. h[r] = Body(g, r) /\ g[r] = Body(g, r)
        BY <2>1, <4>1
      <4>3. h[s] = step[<<g[r], Max(s)>>] /\ Body(h, s) = step[<<h[r], Max(s)>>]
        BY <3>2
      <4> QED
        BY <4>2, <4>3
    <3> QED
      BY <3>1, <3>2
  <2> HIDE DEF Body, h, D
  <2>4. \E g_1 \in [D -> X] : \A s \in D : s \subseteq 1 .. k + 1 => g_1[s] = Body(g_1, s)
    BY <2>2, <2>3
  <2> QED
    BY <2>4
<1>4. n \in P
  <2> HIDE DEF P
  <2>1. Nat \subseteq P
    BY <1>2, <1>3, InductionOver
  <2> QED
    BY <2>1
<1>5. PICK g \in [D -> X] : \A s \in D : s \subseteq 1 .. n => g[s] = Body(g, s)
  BY <1>4
<1> QED
  BY <1>5 DEF IsFold

LEMMA FirstPositions ==
  ASSUME NEW n \in Nat, NEW k \in 1 .. n
  PROVE  /\ 1 .. k # {} /\ Max(1 .. k) = k /\ (1 .. k) \ {k} = 1 .. k - 1
         /\ 1 .. k \in SUBSET (1 .. n) /\ 1 .. k - 1 \in SUBSET (1 .. n)
<1>1. 1 .. k \in SUBSET (1 .. n) /\ k \in 1 .. k
  OBVIOUS
<1>2. Max(1 .. k) \in 1 .. k /\ \A x \in 1 .. k : x <= Max(1 .. k)
  BY <1>1, LastPosition
<1> QED
  BY <1>1, <1>2

\* The intermediate values of a fold.
IsRun(r, X, base, n, step) ==
  /\ r \in [0 .. n -> X] /\ r[0] = base
  /\ \A k \in 1 .. n : r[k] = step[<<r[k - 1], k>>]

LEMMA FoldRuns ==
  ASSUME NEW X, NEW base \in X, NEW n \in Nat, NEW step \in [X \X (1 .. n) -> X], NEW it,
         \A s \in SUBSET (1 .. n) :
           /\ s = {} => it[s] = base
           /\ s # {} /\ it[s \ {Max(s)}] \in X => it[s] = step[<<it[s \ {Max(s)}], Max(s)>>]
  PROVE  IsRun([k \in 0 .. n |-> it[1 .. k]], X, base, n, step)
<1>1. it[1 .. 0] = base
  <2>1. 1 .. 0 = {} /\ {} \in SUBSET (1 .. n)
    OBVIOUS
  <2> QED
    BY <2>1
<1>2. ASSUME NEW k \in 1 .. n, it[1 .. k - 1] \in X
      PROVE  it[1 .. k] = step[<<it[1 .. k - 1], k>>] /\ it[1 .. k] \in X
  <2>1. it[1 .. k] = step[<<it[1 .. k - 1], k>>]
    BY <1>2, FirstPositions
  <2> QED
    BY <1>2, <2>1
<1>3. ASSUME NEW k \in 0 .. n PROVE it[1 .. k] \in X
  <2> DEFINE P == {m \in Nat : m <= n => it[1 .. m] \in X}
  <2>1. 0 \in P
    BY <1>1
  <2>2. ASSUME NEW m \in Nat, m \in P PROVE m + 1 \in P
    <3>1. CASE m + 1 <= n
      <4>1. m + 1 \in 1 .. n /\ (m + 1) - 1 = m /\ it[1 .. m] \in X
        BY <2>2, <3>1
      <4>2. it[1 .. m + 1] \in X
        BY <1>2, <4>1
      <4> QED
        BY <4>2
    <3>2. CASE ~(m + 1 <= n)
      BY <3>2
    <3> QED
      BY <3>1, <3>2
  <2>3. k \in P
    <3> HIDE DEF P
    <3>1. Nat \subseteq P
      BY <2>1, <2>2, InductionOver
    <3> QED
      BY <3>1
  <2> QED
    BY <2>3
<1> DEFINE r == [k \in 0 .. n |-> it[1 .. k]]
<1>4. r \in [0 .. n -> X] /\ r[0] = base
  BY <1>1, <1>3
<1>5. ASSUME NEW k \in 1 .. n PROVE r[k] = step[<<r[k - 1], k>>]
  <2>1. k - 1 \in 0 .. n /\ k \in 0 .. n
    OBVIOUS
  <2> QED
    BY <1>2, <1>3, <2>1
<1> QED
  BY <1>4, <1>5 DEF IsRun

-----------------------------------------------------------------------------
(* Numbers in bytes.                                                       *)

LEMMA MulMono ==
  ASSUME NEW a \in Int, NEW b \in Int, a < b, NEW c \in Nat \ {0}
  PROVE  c * a + c <= c * b
<1>1. PICK e \in Nat : b = a + 1 + e
  <2>1. b - a - 1 \in Nat /\ b = a + 1 + (b - a - 1)
    OBVIOUS
  <2> QED
    BY <2>1
<1>2. c * b = c * a + c + c * e /\ c * e \in Nat
  BY <1>1
<1> QED
  BY <1>2

\* Division, by names the provers can match.
Quo(v, b) == v \div b
Rem(v, b) == v % b

Parts(v, b, q, r) == /\ v \in Int /\ b \in Nat \ {0} /\ q \in Int /\ r \in 0 .. b - 1
                     /\ v = b * q + r

LEMMA DivFacts ==
  ASSUME NEW v \in Int, NEW b \in Nat \ {0}
  PROVE  Parts(v, b, Quo(v, b), Rem(v, b))
BY DEF Quo, Rem, Parts

LEMMA DivUnique ==
  ASSUME NEW v, NEW b, NEW q, NEW r, Parts(v, b, q, r)
  PROVE  Quo(v, b) = q /\ Rem(v, b) = r
<1>1. PICK n \in Nat \ {0}, x \in Int, y \in Int :
        n = b /\ x = q /\ y = r /\ y \in 0 .. n - 1 /\ v \in Int /\ v = n * x + y
  BY DEF Parts
<1>2. PICK d \in Int, e \in Int :
        d = Quo(v, n) /\ e = Rem(v, n) /\ e \in 0 .. n - 1 /\ v = n * d + e
  <2>1. PICK d, e : d = Quo(v, n) /\ e = Rem(v, n) /\ Parts(v, n, d, e)
    BY <1>1, DivFacts
  <2>2. d \in Int /\ e \in Int /\ e \in 0 .. n - 1 /\ v = n * d + e
    BY <2>1 DEF Parts
  <2> QED
    BY <2>1, <2>2
<1>3. n * x \in Int /\ n * d \in Int /\ n * x + y = n * d + e
  BY <1>1, <1>2
<1>4. ~(x < d)
  <2> SUFFICES ASSUME x < d PROVE FALSE
    OBVIOUS
  <2>1. n * x + n <= n * d
    BY MulMono
  <2> QED
    BY <1>1, <1>2, <1>3, <2>1
<1>5. ~(d < x)
  <2> SUFFICES ASSUME d < x PROVE FALSE
    OBVIOUS
  <2>1. n * d + n <= n * x
    BY MulMono
  <2> QED
    BY <1>1, <1>2, <1>3, <2>1
<1>6. d = x
  BY <1>4, <1>5
<1>7. e = y
  <2>1. n * x + y = n * x + e
    BY <1>3, <1>6
  <2> QED
    BY <1>3, <2>1
<1> QED
  BY <1>1, <1>2, <1>6, <1>7

LEMMA DivTwice ==
  ASSUME NEW v \in Int, NEW a \in Nat \ {0}, NEW b \in Nat \ {0}, NEW c, c = a * b
  PROVE  Quo(v, c) = Quo(Quo(v, a), b)
<1>1. PICK q \in Int, r \in Int : q = Quo(v, a) /\ r \in 0 .. a - 1 /\ v = a * q + r
  <2>1. PICK q, r : q = Quo(v, a) /\ Parts(v, a, q, r)
    BY DivFacts
  <2>2. q \in Int /\ r \in Int /\ r \in 0 .. a - 1 /\ v = a * q + r
    BY <2>1 DEF Parts
  <2> QED
    BY <2>1, <2>2
<1>2. PICK d \in Int, e \in Int : d = Quo(q, b) /\ e \in 0 .. b - 1 /\ q = b * d + e
  <2>1. PICK d, e : d = Quo(q, b) /\ Parts(q, b, d, e)
    BY <1>1, DivFacts
  <2>2. d \in Int /\ e \in Int /\ e \in 0 .. b - 1 /\ q = b * d + e
    BY <2>1 DEF Parts
  <2> QED
    BY <2>1, <2>2
<1>3. v = c * d + (a * e + r)
  <2>1. a * q = a * (b * d) + a * e
    BY <1>2
  <2>2. a * (b * d) = (a * b) * d
    OBVIOUS
  <2>3. v = (a * q) + r
    BY <1>1
  <2>4. a * (b * d) \in Int /\ a * e \in Int /\ r \in Int
    BY <1>1, <1>2
  <2> QED
    BY <2>1, <2>2, <2>3, <2>4
<1>4. c \in Nat \ {0} /\ a * e + r \in 0 .. c - 1
  <2>1. a * e + a <= a * b
    BY <1>2, MulMono
  <2>2. a * e \in Nat /\ a * b \in Nat
    BY <1>2
  <2> QED
    BY <1>1, <2>1, <2>2
<1>5. Parts(v, c, d, a * e + r)
  BY <1>2, <1>3, <1>4 DEF Parts
<1> QED
  BY <1>1, <1>2, <1>5, DivUnique

LEMMA ByteFacts == Byte \in Nat \ {0} /\ Byte = 4 * Rests /\ Rests \in Nat \ {0} /\ Byte >= 16
BY EncodingAssumption DEF Byte

LEMMA PowerFacts ==
  /\ Power[0] = 1 /\ \A k \in 0 .. 7 : Power[k] \in Nat \ {0}
  /\ \A k \in 0 .. 6 : Power[k + 1] = Power[k] * Byte
<1> DEFINE Eqn(f) == f = [k \in 0 .. 7 |-> IF k = 0 THEN 1 ELSE Byte * f[k - 1]]
           P == {n \in Nat : \E f \in [0 .. n -> Nat \ {0}] :
                   f[0] = 1 /\ \A k \in 1 .. n : f[k] = Byte * f[k - 1]}
<1>1. 0 \in P
  <2> DEFINE f == [k \in 0 .. 0 |-> 1]
  <2>1. f \in [0 .. 0 -> Nat \ {0}] /\ f[0] = 1 /\ \A k \in 1 .. 0 : f[k] = Byte * f[k - 1]
    OBVIOUS
  <2> HIDE DEF f
  <2> QED
    BY <2>1
<1>2. ASSUME NEW n \in Nat, n \in P PROVE n + 1 \in P
  <2>1. PICK f \in [0 .. n -> Nat \ {0}] : f[0] = 1 /\ \A k \in 1 .. n : f[k] = Byte * f[k - 1]
    BY <1>2
  <2>2. f[n] \in Nat \ {0} /\ Byte * f[n] \in Nat \ {0}
    BY ByteFacts
  <2> DEFINE g == [k \in 0 .. n + 1 |-> IF k = n + 1 THEN Byte * f[n] ELSE f[k]]
  <2>3. g \in [0 .. n + 1 -> Nat \ {0}]
    BY <2>2
  <2>4. g[0] = 1
    BY <2>1
  <2>5. ASSUME NEW k \in 1 .. n + 1 PROVE g[k] = Byte * g[k - 1]
    <3>1. CASE k = n + 1
      BY <3>1
    <3>2. CASE k # n + 1
      <4>1. k \in 1 .. n /\ k - 1 \in 0 .. n /\ k - 1 # n + 1
        BY <3>2
      <4> QED
        BY <2>1, <3>2, <4>1
    <3> QED
      BY <3>1, <3>2
  <2> HIDE DEF g
  <2>6. \E h \in [0 .. n + 1 -> Nat \ {0}] :
          h[0] = 1 /\ \A k \in 1 .. n + 1 : h[k] = Byte * h[k - 1]
    BY <2>3, <2>4, <2>5
  <2>7. n + 1 \in Nat
    OBVIOUS
  <2> QED
    BY <2>6, <2>7, Zenon
<1>3. 7 \in P
  <2> HIDE DEF P
  <2>1. Nat \subseteq P
    BY <1>1, <1>2, InductionOver
  <2> QED
    BY <2>1
<1>4. PICK f \in [0 .. 7 -> Nat \ {0}] : f[0] = 1 /\ \A k \in 1 .. 7 : f[k] = Byte * f[k - 1]
  BY <1>3
<1>5. Eqn(f)
  BY <1>4
<1>6. Power = CHOOSE g : Eqn(g)
  BY DEF Power
<1>7. Eqn(Power)
  <2> HIDE DEF Eqn
  <2> QED
    BY <1>5, <1>6
<1>8. Power[0] = 1 /\ \A k \in 1 .. 7 : Power[k] = Byte * Power[k - 1]
  BY <1>7
<1>9. ASSUME NEW n \in Nat, n <= 7 => Power[n] = f[n]
      PROVE  n + 1 <= 7 => Power[n + 1] = f[n + 1]
  BY <1>4, <1>8, <1>9
<1>10. \A n \in 0 .. 7 : Power[n] = f[n]
  <2> DEFINE Q == {n \in Nat : n <= 7 => Power[n] = f[n]}
  <2>1. 0 \in Q
    BY <1>4, <1>8
  <2>2. \A n \in Nat : n \in Q => n + 1 \in Q
    BY <1>9
  <2> HIDE DEF Q
  <2>3. Nat \subseteq Q
    BY <2>1, <2>2, InductionOver
  <2> QED
    BY <2>3 DEF Q
<1>11. \A k \in 0 .. 6 : k + 1 \in 1 .. 7 /\ (k + 1) - 1 = k
  OBVIOUS
<1>12. \A k \in 0 .. 7 : Power[k] \in Nat \ {0}
  BY <1>10
<1> QED
  BY <1>8, <1>11, <1>12, ByteFacts
-----------------------------------------------------------------------------
(* Bytes read together.                                                    *)

LEMMA BytesRuns ==
  ASSUME NEW base \in Int, NEW q \in Seq(Int)
  PROVE  \E r : /\ r \in [0 .. Len(q) -> Int] /\ r[0] = base
                /\ \A k \in 1 .. Len(q) : r[k] = r[k - 1] * Byte + q[k]
                /\ FoldLeft(LAMBDA v, b : v * Byte + b, base, q) = r[Len(q)]
<1> DEFINE n == Len(q)
           seq == q
           Op(w, k) == w * Byte + q[k]
           step == [p \in Int \X (1 .. n) |-> Op(p[1], p[2])]
           Eqn(f) == f = [s \in SUBSET (1 .. n) |->
                            IF s = {} THEN base ELSE f[s \ {Max(s)}] * Byte + seq[Max(s)]]
           it == CHOOSE f : Eqn(f)
<1>0. n \in Nat /\ base \in Int
  OBVIOUS
<1>1. ASSUME NEW w \in Int, NEW k \in 1 .. n PROVE Op(w, k) \in Int
  BY ByteFacts
<1> HIDE DEF n, Op
<1>2. step \in [Int \X (1 .. n) -> Int]
  BY <1>1
<1>3. PICK f : IsFold(f, Int, base, n, step)
  <2> HIDE DEF step
  <2> QED
    BY <1>0, <1>2, FoldExists, Zenon
<1>4. ASSUME NEW s \in SUBSET (1 .. n), s # {}
      PROVE  Max(s) \in 1 .. n
  <2>1. Max(s) \in s
    BY <1>0, <1>4, LastPosition
  <2> QED
    BY <2>1
<1>5. ASSUME NEW g, NEW s \in SUBSET (1 .. n), s # {}
      PROVE  g[s \ {Max(s)}] * Byte + seq[Max(s)] = Op(g[s \ {Max(s)}], Max(s))
  BY DEF Op
<1>6. Eqn(f)
  <2>1. ASSUME NEW s \in SUBSET (1 .. n), s # {}
        PROVE  f[s] = Op(f[s \ {Max(s)}], Max(s))
    <3>1. f[s \ {Max(s)}] \in Int /\ Max(s) \in 1 .. n
      BY <1>3, <1>4, <2>1 DEF IsFold
    <3> QED
      BY <1>3, <2>1, <3>1 DEF IsFold
  <2> HIDE DEF step, seq
  <2>2. \A s \in SUBSET (1 .. n) : f[s] = IF s = {} THEN base ELSE f[s \ {Max(s)}] * Byte + seq[Max(s)]
    BY <1>3, <1>5, <2>1 DEF IsFold
  <2>3. f \in [SUBSET (1 .. n) -> Int]
    BY <1>3 DEF IsFold
  <2> QED
    BY <2>2, <2>3
<1>7. Eqn(it)
  <2> HIDE DEF Eqn
  <2> QED
    BY <1>6
<1>8. FoldLeft(LAMBDA v, b : v * Byte + b, base, q) = it[1 .. n]
  <2>1. DOMAIN seq = 1 .. n
    BY DEF n
  <2> HIDE DEF seq
  <2> QED
    BY <2>1 DEF FoldLeft, MapThenFoldSet, seq
<1> HIDE DEF it
<1> DEFINE r == [k \in 0 .. n |-> it[1 .. k]]
<1>9. IsRun(r, Int, base, n, step)
  <2>1. \A s \in SUBSET (1 .. n) :
          /\ s = {} => it[s] = base
          /\ s # {} /\ it[s \ {Max(s)}] \in Int => it[s] = step[<<it[s \ {Max(s)}], Max(s)>>]
    BY <1>4, <1>5, <1>7
  <2> HIDE DEF step, Eqn
  <2> QED
    BY <1>0, <1>2, <2>1, FoldRuns
<1>10. /\ r \in [0 .. n -> Int] /\ r[0] = base /\ r[n] = it[1 .. n]
       /\ \A k \in 1 .. n : r[k] = Op(r[k - 1], k)
  <2>1. r \in [0 .. n -> Int] /\ r[0] = base /\ \A k \in 1 .. n : r[k] = step[<<r[k - 1], k>>]
    BY <1>9 DEF IsRun
  <2>2. r[n] = it[1 .. n]
    BY <1>0
  <2> HIDE DEF r
  <2>3. \A k \in 1 .. n : r[k - 1] \in Int
    BY <1>0, <2>1
  <2> QED
    BY <2>1, <2>2, <2>3
<1> HIDE DEF r
<1> QED
  BY <1>8, <1>10 DEF n, Op

\* What is read from the k bytes of v: v, or with c = 1 what a negative v is
\* modulo the k-th power.
ByteDigits(v, k, c) ==
  /\ v \in Int /\ k \in 1 .. 8 /\ c \in {0, 1} /\ (c = 1 => k <= 7)
  /\ Quo(v, Power[k - 1]) + c * Byte \in 0 .. Byte - 1

LEMMA FromBytes ==
  ASSUME NEW n, NEW m, NEW u, ByteDigits(n, m, u)
  PROVE  /\ BigEndian(n, m) \in Seq(0 .. Byte - 1) /\ Len(BigEndian(n, m)) = m
         /\ FromBigEndian(BigEndian(n, m)) = n + (IF u = 0 THEN 0 ELSE Power[m])
<1>0. PICK v \in Int, k \in 1 .. 8, c \in {0, 1} :
        /\ v = n /\ k = m /\ c = u /\ (c = 1 => k <= 7)
        /\ Quo(v, Power[k - 1]) + c * Byte \in 0 .. Byte - 1
  BY DEF ByteDigits
<1> DEFINE s == BigEndian(v, k)
<1>1. ASSUME NEW i \in 1 .. k PROVE k - i \in 0 .. 7 /\ Power[k - i] \in Nat \ {0}
  BY PowerFacts
<1>2. s \in Seq(0 .. Byte - 1) /\ Len(s) = k /\ \A i \in 1 .. k : s[i] = Rem(Quo(v, Power[k - i]), Byte)
  <2>1. \A i \in 1 .. k : Rem(Quo(v, Power[k - i]), Byte) \in 0 .. Byte - 1
    BY <1>1, ByteFacts, DivFacts DEF Parts
  <2> QED
    BY <2>1 DEF BigEndian, Quo, Rem
<1> HIDE DEF s
<1>3. s \in Seq(Int)
  <2>1. \A i \in 1 .. k : s[i] \in Int
    BY <1>2, ByteFacts
  <2> QED
    BY <1>2, <2>1
<1>4. PICK r : /\ r \in [0 .. k -> Int] /\ r[0] = 0
               /\ \A i \in 1 .. k : r[i] = r[i - 1] * Byte + s[i]
               /\ FromBigEndian(s) = r[k]
  <2>1. 0 \in Int /\ Len(s) = k
    BY <1>2
  <2>2. \E r : /\ r \in [0 .. Len(s) -> Int] /\ r[0] = 0
               /\ \A i \in 1 .. Len(s) : r[i] = r[i - 1] * Byte + s[i]
               /\ FoldLeft(LAMBDA w, b : w * Byte + b, 0, s) = r[Len(s)]
    BY <1>3, <2>1, BytesRuns
  <2> QED
    BY <2>1, <2>2 DEF FromBigEndian
<1> DEFINE P == {l \in Nat : l < k => r[l + 1] = Quo(v, Power[k - (l + 1)])
                                                  + (IF c = 0 THEN 0 ELSE Power[l + 1])}
<1>5. 0 \in P
  <2>1. r[1] = 0 * Byte + s[1]
    BY <1>4
  <2>2. s[1] = Rem(Quo(v, Power[k - 1]), Byte)
    BY <1>2
  <2>3. PICK x \in Int : x = Quo(v, Power[k - 1]) /\ x + c * Byte \in 0 .. Byte - 1
    <3>1. Power[k - 1] \in Nat \ {0}
      BY <1>1
    <3>2. Quo(v, Power[k - 1]) \in Int
      BY <3>1, DivFacts DEF Parts
    <3> QED
      BY <1>0, <3>2
  <2>4. Rem(x, Byte) = x + c * Byte
    <3>1. PICK y \in 0 .. Byte - 1, d \in Int : y = x + c * Byte /\ d = -c
      BY <2>3
    <3>2. Parts(x, Byte, d, y)
      BY <3>1, ByteFacts DEF Parts
    <3> QED
      BY <3>1, <3>2, ByteFacts, DivUnique
  <2>5. Power[1] = Byte
    BY PowerFacts, ByteFacts
  <2>6. r[1] = x + c * Byte
    BY <2>1, <2>2, <2>3, <2>4, ByteFacts
  <2> QED
    BY <2>3, <2>5, <2>6, ByteFacts
<1>6. ASSUME NEW l \in Nat, l \in P PROVE l + 1 \in P
  <2> SUFFICES ASSUME l + 1 < k
               PROVE  r[l + 2] = Quo(v, Power[k - (l + 2)]) + (IF c = 0 THEN 0 ELSE Power[l + 2])
    OBVIOUS
  <2>1. l + 2 \in 1 .. k /\ l + 1 \in 1 .. k /\ (l + 2) - 1 = l + 1
    OBVIOUS
  <2>2. PICK a \in Nat \ {0} : a = Power[k - (l + 2)] /\ Power[k - (l + 1)] = a * Byte
    <3>1. k - (l + 2) \in 0 .. 6 /\ (k - (l + 2)) + 1 = k - (l + 1)
      OBVIOUS
    <3> QED
      BY <1>1, <2>1, <3>1, PowerFacts
  <2>3. PICK x \in Int, y \in Int, z \in 0 .. Byte - 1 :
          x = Quo(v, a) /\ y = Quo(x, Byte) /\ z = Rem(x, Byte) /\ x = Byte * y + z
    <3>1. PICK x \in Int : x = Quo(v, a)
      <4>1. Quo(v, a) \in Int
        BY DivFacts DEF Parts
      <4> QED
        BY <4>1
    <3>2. Parts(x, Byte, Quo(x, Byte), Rem(x, Byte))
      BY ByteFacts, DivFacts
    <3> QED
      BY <3>1, <3>2 DEF Parts
  <2>4. Quo(v, Power[k - (l + 1)]) = y
    <3>1. \A b \in Nat \ {0} : b = a * Byte => Quo(v, b) = Quo(Quo(v, a), Byte)
      BY ByteFacts, DivTwice
    <3> QED
      BY <1>1, <2>1, <2>2, <2>3, <3>1
  <2>5. s[l + 2] = z
    BY <1>2, <2>1, <2>2, <2>3
  <2>6. PICK p \in Int : p = (IF c = 0 THEN 0 ELSE Power[l + 1])
    BY PowerFacts
  <2>7. r[l + 1] = y + p
    BY <1>6, <2>4, <2>6
  <2>8. r[l + 2] = (y + p) * Byte + z
    BY <1>4, <2>1, <2>5, <2>7
  <2>9. p * Byte = (IF c = 0 THEN 0 ELSE Power[l + 2])
    <3>1. CASE c = 0
      BY <2>6, <3>1, ByteFacts
    <3>2. CASE c = 1
      <4>1. l + 1 \in 0 .. 6 /\ (l + 1) + 1 = l + 2
        BY <1>0, <3>2
      <4> QED
        BY <2>6, <3>2, <4>1, PowerFacts
    <3> QED
      BY <3>1, <3>2
  <2>10. r[l + 2] = x + p * Byte
    <3>1. PICK b \in Int : b = Byte
      BY ByteFacts
    <3>2. (y + p) * b + z = (b * y + z) + p * b
      OBVIOUS
    <3> QED
      BY <2>3, <2>8, <3>1, <3>2
  <2> QED
    BY <2>2, <2>3, <2>9, <2>10
<1>7. k - 1 \in P
  <2> HIDE DEF P
  <2>1. Nat \subseteq P
    BY <1>5, <1>6, InductionOver
  <2> QED
    BY <2>1
<1>8. r[k] = Quo(v, 1) + (IF c = 0 THEN 0 ELSE Power[k])
  BY <1>7, PowerFacts
<1>9. Quo(v, 1) = v
  BY DEF Quo
<1>10. FromBigEndian(s) = v + (IF c = 0 THEN 0 ELSE Power[k])
  BY <1>4, <1>8, <1>9
<1> QED
  BY <1>0, <1>2, <1>10 DEF s
-----------------------------------------------------------------------------
(* Integers in their bytes and back.                                       *)

Within(v, a, lo, hi) == /\ v \in Int /\ a \in Nat \ {0} /\ lo \in Int /\ hi \in Int
                        /\ a * lo <= v /\ v < a * hi

LEMMA QuoBounds ==
  ASSUME NEW u, NEW x, NEW low, NEW high, Within(u, x, low, high)
  PROVE  Quo(u, x) \in low .. high - 1
<1>0. PICK v \in Int, a \in Nat \ {0}, lo \in Int, hi \in Int :
        v = u /\ a = x /\ lo = low /\ hi = high /\ a * lo <= v /\ v < a * hi
  BY DEF Within
<1>1. PICK q \in Int, r \in Int : q = Quo(v, a) /\ r \in 0 .. a - 1 /\ v = a * q + r
  <2>1. PICK q, r : q = Quo(v, a) /\ Parts(v, a, q, r)
    BY DivFacts
  <2>2. q \in Int /\ r \in Int /\ r \in 0 .. a - 1 /\ v = a * q + r
    BY <2>1 DEF Parts
  <2> QED
    BY <2>1, <2>2
<1>2. ~(q < lo)
  <2> SUFFICES ASSUME q < lo PROVE FALSE
    OBVIOUS
  <2>1. a * q + a <= a * lo
    BY MulMono
  <2> QED
    BY <1>0, <1>1, <2>1
<1>3. ~(hi <= q)
  <2> SUFFICES ASSUME hi <= q PROVE FALSE
    OBVIOUS
  <2>1. a * hi <= a * q
    <3>1. CASE hi = q
      BY <3>1
    <3>2. CASE hi < q
      <4>1. a * hi + a <= a * q
        BY <3>2, MulMono
      <4> QED
        BY <4>1
    <3> QED
      BY <3>1, <3>2
  <2> QED
    BY <1>0, <1>1, <2>1
<1> QED
  BY <1>0, <1>1, <1>2, <1>3

LEMMA LengthBytes ==
  ASSUME NEW n \in Nat, NEW k \in {4, 8}, k = 4 => n < Power[4], Quo(n, Power[4]) < Power[4]
  PROVE  /\ BigEndian(n, k) \in Seq(Nat) /\ Len(BigEndian(n, k)) = k
         /\ FromBigEndian(BigEndian(n, k)) = n
<1>1. PICK b \in Nat \ {0} : b = Byte
  BY ByteFacts
<1>2. /\ Power[1] = b /\ Power[2] = Power[1] * b /\ Power[3] = Power[2] * b /\ Power[4] = Power[3] * b
      /\ Power[5] = Power[4] * b /\ Power[6] = Power[5] * b /\ Power[7] = Power[6] * b
  <2>1. \A i \in 0 .. 6 : Power[i + 1] = Power[i] * b
    BY <1>1, PowerFacts
  <2>2. Power[0] * b = b
    BY <1>1, PowerFacts
  <2>3. Power[0 + 1] = Power[0] * b /\ Power[1 + 1] = Power[1] * b /\ Power[2 + 1] = Power[2] * b
    BY <2>1
  <2>4. Power[3 + 1] = Power[3] * b /\ Power[4 + 1] = Power[4] * b /\ Power[5 + 1] = Power[5] * b
    BY <2>1
  <2>5. Power[6 + 1] = Power[6] * b
    BY <2>1
  <2> QED
    BY <2>2, <2>3, <2>4, <2>5
<1>3. PICK c \in Nat \ {0}, d \in Nat \ {0}, e \in Nat \ {0} :
        c = Power[3] /\ d = Power[4] /\ e = Power[7]
  BY PowerFacts
<1>4. d = c * b /\ e = d * c
  <2>1. PICK x \in Nat \ {0}, y \in Nat \ {0}, z \in Nat \ {0} :
          x = Power[2] /\ y = Power[5] /\ z = Power[6]
    BY PowerFacts
  <2>2. x = b * b /\ c = x * b /\ d = c * b /\ y = d * b /\ z = y * b /\ e = z * b
    BY <1>2, <1>3, <2>1
  <2>3. e = ((d * b) * b) * b /\ c = (b * b) * b
    BY <2>2
  <2>4. ((d * b) * b) * b = d * ((b * b) * b)
    OBVIOUS
  <2> QED
    BY <2>2, <2>3, <2>4
<1>5. Quo(n, Power[k - 1]) \in 0 .. Byte - 1
  <2>1. CASE k = 4
    <3>1. Within(n, c, 0, b)
      BY <1>3, <1>4, <2>1 DEF Within
    <3>2. Quo(n, c) \in 0 .. b - 1
      BY <3>1, QuoBounds
    <3> QED
      BY <1>1, <1>3, <2>1, <3>2
  <2>2. CASE k = 8
    <3>1. Quo(n, d) \in Int /\ 0 <= Quo(n, d) /\ Quo(n, d) < d
      <4>1. PICK q \in Int, r \in Int : q = Quo(n, d) /\ r \in 0 .. d - 1 /\ n = d * q + r
        <5>1. PICK q, r : q = Quo(n, d) /\ Parts(n, d, q, r)
          BY DivFacts
        <5>2. q \in Int /\ r \in Int /\ r \in 0 .. d - 1 /\ n = d * q + r
          BY <5>1 DEF Parts
        <5> QED
          BY <5>1, <5>2
      <4>2. ~(q < 0)
        <5> SUFFICES ASSUME q < 0 PROVE FALSE
          OBVIOUS
        <5>1. d * q + d <= d * 0
          BY MulMono
        <5> QED
          BY <4>1, <5>1
      <4> QED
        BY <1>3, <4>1, <4>2
    <3>2. PICK m \in Int : m = Quo(n, d) /\ 0 <= m /\ m < c * b
      BY <1>4, <3>1
    <3>3. Within(m, c, 0, b)
      BY <3>2 DEF Within
    <3>4. Quo(m, c) \in 0 .. b - 1
      BY <3>3, QuoBounds
    <3>5. Quo(n, e) = Quo(Quo(n, d), c)
      BY <1>4, DivTwice
    <3> QED
      BY <1>1, <1>3, <2>2, <3>2, <3>4, <3>5
  <2> QED
    BY <2>1, <2>2
<1>6. /\ BigEndian(n, k) \in Seq(0 .. Byte - 1) /\ Len(BigEndian(n, k)) = k
      /\ FromBigEndian(BigEndian(n, k)) = n
  <2>1. PICK z \in {0, 1}, m \in Int, j \in 1 .. 8 : z = 0 /\ m = n /\ j = k
    OBVIOUS
  <2>2. ByteDigits(m, j, z)
    BY <1>1, <1>5, <2>1 DEF ByteDigits
  <2>3. /\ BigEndian(m, j) \in Seq(0 .. Byte - 1) /\ Len(BigEndian(m, j)) = j
        /\ FromBigEndian(BigEndian(m, j)) = m + (IF z = 0 THEN 0 ELSE Power[j])
    BY <2>1, <2>2, FromBytes
  <2> QED
    BY <2>1, <2>3
<1>7. \A i \in 1 .. k : BigEndian(n, k)[i] \in Nat
  <2> DEFINE be == BigEndian(n, k)
  <2> HIDE DEF be
  <2>1. be \in Seq(0 .. b - 1) /\ Len(be) = k
    BY <1>1, <1>6 DEF be
  <2>2. \A i \in 1 .. k : be[i] \in 0 .. b - 1
    BY <2>1
  <2> QED
    BY <2>2 DEF be
<1> QED
  BY <1>6, <1>7

LEMMA IntegerBytes ==
  ASSUME NEW v \in Int, NEW k \in {1, 2, 4}, Fits(v, k)
  PROVE  /\ LittleEndian(v, k) \in Seq(Nat) /\ Len(LittleEndian(v, k)) = k
         /\ Signed(FromLittleEndian(LittleEndian(v, k)), k) = v
<1>1. PICK b \in Nat \ {0}, p \in Nat \ {0}, h \in Nat \ {0} :
        /\ b = Byte /\ p = Power[k - 1] /\ b = 2 * h /\ h = 2 * Rests
        /\ Power[k] = p * b /\ Half(k) = p * h
  <2>1. PICK r \in Nat \ {0} : r = Rests
    BY ByteFacts
  <2>2. PICK p \in Nat \ {0} : p = Power[k - 1] /\ Power[k] = p * Byte
    <3>1. k - 1 \in 0 .. 6 /\ (k - 1) + 1 = k
      OBVIOUS
    <3> QED
      BY <3>1, PowerFacts
  <2>3. (2 * r) * p = p * (2 * r)
    OBVIOUS
  <2>4. Half(k) = p * (2 * r)
    BY <2>1, <2>2, <2>3 DEF Half
  <2>5. 4 * r \in Nat \ {0} /\ 2 * r \in Nat \ {0} /\ 4 * r = 2 * (2 * r) /\ Byte = 4 * r
    BY <2>1, ByteFacts
  <2> QED
    BY <2>1, <2>2, <2>4, <2>5
<1>2. -(p * h) <= v /\ v < p * h
  BY <1>1 DEF Fits
<1> DEFINE c == IF v < 0 THEN 1 ELSE 0
           be == BigEndian(v, k)
<1>3. Quo(v, p) + c * b \in 0 .. b - 1
  <2>1. CASE v >= 0
    <3>1. Within(v, p, 0, h)
      BY <1>2, <2>1 DEF Within
    <3>2. Quo(v, p) \in 0 .. h - 1
      BY <3>1, QuoBounds
    <3> QED
      BY <1>1, <2>1, <3>2
  <2>2. CASE v < 0
    <3>1. PICK l \in Int : l = -h
      OBVIOUS
    <3>2. p * l = -(p * h)
      BY <3>1
    <3>3. Within(v, p, l, 0)
      BY <1>2, <2>2, <3>2 DEF Within
    <3>4. Quo(v, p) \in l .. 0 - 1
      BY <3>3, QuoBounds
    <3> QED
      BY <1>1, <2>2, <3>1, <3>4
  <2> QED
    BY <2>1, <2>2
<1>4. /\ be \in Seq(0 .. Byte - 1) /\ Len(be) = k
      /\ FromBigEndian(be) = v + (IF c = 0 THEN 0 ELSE Power[k])
  <2>1. k \in 1 .. 8 /\ c \in {0, 1} /\ k <= 7
    OBVIOUS
  <2> HIDE DEF c
  <2>2. ByteDigits(v, k, c)
    BY <1>1, <1>3, <2>1 DEF ByteDigits
  <2> QED
    BY <2>2, FromBytes
<1>5. Signed(FromBigEndian(be), k) = v
  <2> HIDE DEF be
  <2>1. p * b = p * h + p * h /\ p * h \in Nat
    BY <1>1
  <2>2. CASE v >= 0
    BY <1>1, <1>2, <1>4, <2>2, SMTT(30) DEF Signed
  <2>3. CASE v < 0
    <3>1. FromBigEndian(be) = v + p * b
      BY <1>1, <1>4, <2>3
    <3> QED
      BY <1>1, <1>2, <2>1, <3>1 DEF Signed
  <2> QED
    BY <2>2, <2>3
<1> HIDE DEF be
<1>6. Reverse(Reverse(be)) = be /\ Reverse(be) \in Seq(Nat) /\ Len(Reverse(be)) = k
  <2>1. be \in Seq(Nat)
    <3>1. be \in Seq(0 .. b - 1) /\ Len(be) = k
      BY <1>1, <1>4
    <3>2. \A i \in 1 .. k : be[i] \in 0 .. b - 1
      BY <3>1
    <3>3. be = [i \in 1 .. k |-> be[i]]
      BY <3>1
    <3> QED
      BY <3>2, <3>3, SMTT(30)
  <2>2. be = [i \in 1 .. k |-> be[i]]
    BY <1>4
  <2> DEFINE rv == [i \in 1 .. k |-> be[k - i + 1]]
  <2>3. Reverse(be) = rv
    BY <1>4 DEF Reverse
  <2>4. rv \in Seq(Nat) /\ Len(rv) = k
    <3>1. \A i \in 1 .. k : be[k - i + 1] \in Nat
      BY <1>4, <2>1
    <3> QED
      BY <3>1
  <2>5. \A i \in 1 .. k : k - i + 1 \in 1 .. k /\ rv[k - i + 1] = be[i]
    <3> TAKE i \in 1 .. k
    <3>1. k - i + 1 \in 1 .. k /\ k - (k - i + 1) + 1 = i
      OBVIOUS
    <3> QED
      BY <3>1
  <2> HIDE DEF rv
  <2>6. Reverse(rv) = [i \in 1 .. k |-> be[i]]
    BY <2>4, <2>5 DEF Reverse
  <2> QED
    BY <2>2, <2>3, <2>4, <2>6
<1> QED
  BY <1>5, <1>6 DEF LittleEndian, FromLittleEndian, be
-----------------------------------------------------------------------------
(* Streams: what was written is read off their beginning.                  *)

LEMMA ConcatFacts ==
  ASSUME NEW S, NEW a \in Seq(S), NEW b \in Seq(S)
  PROVE  /\ a \o b \in Seq(S) /\ Len(a \o b) = Len(a) + Len(b)
         /\ \A i \in 1 .. Len(a) : (a \o b)[i] = a[i]
         /\ \A i \in 1 .. Len(b) : (a \o b)[Len(a) + i] = b[i]
         /\ SubSeq(a \o b, 1, Len(a)) = a /\ From(a \o b, Len(a) + 1) = b
<1>1. /\ a \o b \in Seq(S) /\ Len(a \o b) = Len(a) + Len(b)
      /\ \A i \in 1 .. Len(a) : (a \o b)[i] = a[i]
      /\ \A i \in 1 .. Len(b) : (a \o b)[Len(a) + i] = b[i]
  OBVIOUS
<1> DEFINE c == a \o b
<1> HIDE DEF c
<1>2. SubSeq(c, 1, Len(a)) = a
  <2>1. SubSeq(c, 1, Len(a)) \in Seq(S) /\ Len(SubSeq(c, 1, Len(a))) = Len(a)
    BY <1>1 DEF c
  <2>2. \A i \in 1 .. Len(a) : SubSeq(c, 1, Len(a))[i] = a[i]
    BY <1>1 DEF c
  <2> HIDE DEF c
  <2> QED
    BY <2>1, <2>2
<1>3. From(c, Len(a) + 1) = b
  <2> DEFINE f == From(c, Len(a) + 1)
  <2>1. f \in Seq(S) /\ Len(f) = Len(b)
    BY <1>1 DEF c, From
  <2>2. \A i \in 1 .. Len(b) : f[i] = b[i]
    BY <1>1 DEF c, From
  <2> HIDE DEF f
  <2>3. f = b
    BY <2>1, <2>2
  <2> QED
    BY <2>3 DEF f
<1> QED
  BY <1>1, <1>2, <1>3 DEF c

LEMMA PrefixFacts ==
  ASSUME NEW S, NEW s \in Seq(S), NEW p \in StrictPrefixes(s)
  PROVE  p \in Seq(S) /\ Len(p) < Len(s) /\ \A i \in 1 .. Len(p) : p[i] = s[i]
BY DEF StrictPrefixes

LEMMA SameSeq ==
  ASSUME NEW S, NEW a \in Seq(S), NEW b \in Seq(S), Len(a) = Len(b),
         \A i \in 1 .. Len(a) : a[i] = b[i]
  PROVE  a = b
OBVIOUS

\* A proper beginning of a and then b ends in a, or after a in b.
StartsIn(p, a, b) == p \in StrictPrefixes(a) \/ \E q \in StrictPrefixes(b) : p = a \o q

LEMMA ConcatPrefix ==
  ASSUME NEW S, NEW a \in Seq(S), NEW b \in Seq(S), NEW p \in StrictPrefixes(a \o b)
  PROVE  StartsIn(p, a, b)
<1> SUFFICES p \in StrictPrefixes(a) \/ \E q \in StrictPrefixes(b) : p = a \o q
  BY DEF StartsIn
<1> DEFINE c == a \o b
<1>1. /\ c \in Seq(S) /\ Len(c) = Len(a) + Len(b) /\ Len(a) \in Nat /\ Len(b) \in Nat
      /\ \A i \in 1 .. Len(a) : c[i] = a[i]
      /\ \A i \in 1 .. Len(b) : c[Len(a) + i] = b[i]
  BY ConcatFacts
<1> HIDE DEF c
<1>2. PICK n \in 0 .. Len(c) - 1 : p = SubSeq(c, 1, n)
  BY DEF StrictPrefixes, c
<1>3. n \in Nat /\ p \in Seq(S) /\ Len(p) = n /\ \A i \in 1 .. n : p[i] = c[i]
  BY <1>1, <1>2
<1>4. CASE n < Len(a)
  <2> DEFINE g == SubSeq(a, 1, n)
  <2>1. g \in Seq(S) /\ Len(g) = n /\ \A i \in 1 .. n : g[i] = a[i]
    BY <1>4
  <2> HIDE DEF g
  <2>2. p = g
    <3>1. \A i \in 1 .. n : p[i] = g[i]
      <4> TAKE i \in 1 .. n
      <4>1. i \in 1 .. Len(a)
        BY <1>1, <1>3, <1>4
      <4> QED
        BY <1>1, <1>3, <2>1, <4>1
    <3>2. p \in Seq(S) /\ g \in Seq(S) /\ Len(p) = Len(g) /\ \A i \in 1 .. Len(p) : p[i] = g[i]
      BY <1>3, <2>1, <3>1
    <3> QED
      BY <3>2, SameSeq
  <2>3. n \in 0 .. Len(a) - 1
    BY <1>4
  <2> QED
    BY <2>2, <2>3 DEF StrictPrefixes, g
<1>5. CASE n >= Len(a)
  <2> DEFINE m == n - Len(a)
             q == SubSeq(b, 1, m)
  <2>1. m \in 0 .. Len(b) - 1
    BY <1>1, <1>5
  <2>2. q \in Seq(S) /\ Len(q) = m /\ \A i \in 1 .. m : q[i] = b[i]
    BY <2>1
  <2>3. q \in StrictPrefixes(b)
    BY <2>1 DEF StrictPrefixes
  <2> HIDE DEF q
  <2>4. /\ a \o q \in Seq(S) /\ Len(a \o q) = n
        /\ \A i \in 1 .. Len(a) : (a \o q)[i] = a[i]
        /\ \A i \in 1 .. m : (a \o q)[Len(a) + i] = q[i]
    <3>1. Len(a) + m = n
      OBVIOUS
    <3> QED
      BY <2>2, <3>1, ConcatFacts
  <2>5. ASSUME NEW i \in 1 .. n PROVE p[i] = (a \o q)[i]
    <3>0. i <= Len(a) \/ i > Len(a)
      BY <1>1, <1>3
    <3>1. CASE i <= Len(a)
      BY <1>1, <1>3, <2>4, <3>1
    <3>2. CASE i > Len(a)
      <4>1. PICK j \in 1 .. m : i = Len(a) + j
        <5>1. i - Len(a) \in 1 .. m /\ i = Len(a) + (i - Len(a))
          BY <3>2
        <5> QED
          BY <5>1
      <4>2. j \in 1 .. Len(b)
        BY <2>1
      <4> QED
        BY <1>1, <1>3, <2>2, <2>4, <4>1, <4>2
    <3> QED
      BY <3>0, <3>1, <3>2
  <2>6. p = a \o q
    <3> DEFINE d == a \o q
    <3> HIDE DEF d
    <3>1. p = d
      BY <1>3, <2>4, <2>5 DEF d
    <3> QED
      BY <3>1 DEF d
  <2> QED
    BY <2>3, <2>6
<1> QED
  BY <1>3, <1>4, <1>5
-----------------------------------------------------------------------------
(* Lengths.                                                                *)

IsLength(val, rest) == [ok |-> TRUE, val |-> val, encoded |-> FALSE, rest |-> rest]

\* LoadLen, by the type and the rest of its first byte.
LenBy(s, type, low) ==
  LET Length(val, used) == IF Len(s) < used THEN Failed
                           ELSE [ok |-> TRUE, val |-> val, encoded |-> type = 3,
                                 rest |-> From(s, used + 1)]
      Wide(k) == Length(FromBigEndian(SubSeq(s, 2, k + 1)), k + 1)
  IN IF s = << >> THEN Failed
     ELSE CASE type \in {0, 3} -> Length(low, 1)
            [] type = 1 -> IF Len(s) < 2 THEN Failed ELSE Length(low * Byte + s[2], 2)
            [] type = 2 /\ low = 0 -> IF Len(s) < 5 THEN Failed ELSE Wide(4)
            [] type = 2 /\ low = 1 -> IF Len(s) < 9 THEN Failed ELSE Wide(8)
            [] OTHER -> Failed

LEMMA LoadLenCases ==
  ASSUME NEW S, NEW s \in Seq(S), s # << >>, NEW type, NEW low,
         type = Quo(s[1], Rests), low = Rem(s[1], Rests)
  PROVE  /\ type = 0 => LoadLen(s) = IsLength(low, From(s, 2))
         /\ type = 3 => LoadLen(s) = [ok |-> TRUE, val |-> low, encoded |-> TRUE, rest |-> From(s, 2)]
         /\ type = 1 => LoadLen(s) = IF Len(s) < 2 THEN Failed
                                     ELSE IsLength(low * Byte + s[2], From(s, 3))
         /\ type = 2 /\ low = 0 =>
              LoadLen(s) = IF Len(s) < 5 THEN Failed
                           ELSE IsLength(FromBigEndian(SubSeq(s, 2, 5)), From(s, 6))
         /\ type = 2 /\ low = 1 =>
              LoadLen(s) = IF Len(s) < 9 THEN Failed
                           ELSE IsLength(FromBigEndian(SubSeq(s, 2, 9)), From(s, 10))
<1>1. LoadLen(s) = LenBy(s, type, low) /\ Len(s) \in Nat /\ Len(s) >= 1
  <2>1. LoadLen(s) = LenBy(s, s[1] \div Rests, s[1] % Rests)
    BY DEF LoadLen, LenBy
  <2> QED
    BY <2>1 DEF Quo, Rem
<1> DEFINE Of(val, rest) == [ok |-> TRUE, val |-> val, encoded |-> type = 3, rest |-> rest]
           Sum == low * Byte + s[2]
<1> HIDE DEF Of, Sum
<1>2. /\ type \in {0, 3} => LoadLen(s) = Of(low, From(s, 2))
      /\ type = 1 => LoadLen(s) = IF Len(s) < 2 THEN Failed ELSE Of(Sum, From(s, 3))
      /\ type = 2 /\ low = 0 =>
           LoadLen(s) = IF Len(s) < 5 THEN Failed ELSE Of(FromBigEndian(SubSeq(s, 2, 5)), From(s, 6))
      /\ type = 2 /\ low = 1 =>
           LoadLen(s) = IF Len(s) < 9 THEN Failed ELSE Of(FromBigEndian(SubSeq(s, 2, 9)), From(s, 10))
  <2>1. CASE type \in {0, 3}
    BY <1>1, <2>1 DEF LenBy, Of
  <2>2. CASE type = 1
    BY <1>1, <2>2 DEF LenBy, Of, Sum
  <2>3. CASE type = 2 /\ low = 0
    BY <1>1, <2>3 DEF LenBy, Of
  <2>4. CASE type = 2 /\ low = 1
    BY <1>1, <2>4 DEF LenBy, Of
  <2> QED
    BY <2>1, <2>2, <2>3, <2>4
<1>3. ASSUME NEW val, NEW rest, type \in {0, 1, 2}
      PROVE  Of(val, rest) = IsLength(val, rest)
  <2>1. ~(type = 3)
    BY <1>3
  <2> QED
    BY <2>1 DEF Of, IsLength
<1>4. type = 3 => Of(low, From(s, 2)) = [ok |-> TRUE, val |-> low, encoded |-> TRUE, rest |-> From(s, 2)]
  BY DEF Of
<1> QED
  BY <1>2, <1>3, <1>4 DEF Sum

LEMMA FirstFacts ==
  ASSUME NEW type \in 0 .. 3, NEW low \in 0 .. Rests - 1
  PROVE  /\ First(type, low) \in Nat
         /\ Quo(First(type, low), Rests) = type /\ Rem(First(type, low), Rests) = low
<1>1. PICK r \in Nat \ {0}, t \in Int, l \in Int : r = Rests /\ t = type /\ l = low /\ l \in 0 .. r - 1 /\ t \in 0 .. 3
  BY ByteFacts
<1>2. t * r = r * t /\ t * r \in Nat
  BY <1>1
<1>3. First(type, low) = r * t + l
  BY <1>1, <1>2 DEF First
<1>4. r * t + l \in Nat
  BY <1>1, <1>2
<1>5. Parts(First(type, low), Rests, type, low)
  BY <1>1, <1>3, <1>4 DEF Parts
<1> QED
  BY <1>3, <1>4, <1>5, DivUnique

\* What a length is that is read back: any below the fourth power twice.
Size(n) == n \in Nat /\ Quo(n, Power[4]) < Power[4]

LEMMA SaveLenCases ==
  ASSUME NEW n, Size(n)
  PROVE  \/ /\ n \in 0 .. Rests - 1 /\ SaveLen(n) = <<First(0, n)>>
         \/ /\ Quo(n, Byte) \in 0 .. Rests - 1 /\ Rem(n, Byte) \in Nat
            /\ n = Quo(n, Byte) * Byte + Rem(n, Byte)
            /\ SaveLen(n) = <<First(1, Quo(n, Byte)), Rem(n, Byte)>>
         \/ /\ n < Power[4] /\ SaveLen(n) = <<First(2, 0)>> \o BigEndian(n, 4)
         \/ /\ SaveLen(n) = <<First(2, 1)>> \o BigEndian(n, 8)
<1>1. PICK m \in Nat, b \in Nat \ {0}, r \in Nat \ {0} : m = n /\ b = Byte /\ r = Rests
  BY ByteFacts DEF Size
<1>2. CASE m < r
  BY <1>1, <1>2 DEF SaveLen
<1>3. CASE ~(m < r) /\ m < r * b
  <2>1. r * b = b * r
    OBVIOUS
  <2>2. Within(m, b, 0, r)
    BY <1>3, <2>1 DEF Within
  <2>3. Quo(m, b) \in 0 .. r - 1
    BY <2>2, QuoBounds
  <2>4. Parts(m, b, Quo(m, b), Rem(m, b))
    BY DivFacts
  <2>5. PICK q \in Nat, e \in Nat : q = Quo(m, b) /\ e = Rem(m, b) /\ m = b * q + e
    BY <2>3, <2>4 DEF Parts
  <2>6. b * q = q * b
    OBVIOUS
  <2>7. SaveLen(n) = <<First(1, n \div Byte), n % Byte>>
    BY <1>1, <1>3 DEF SaveLen
  <2>8. SaveLen(n) = <<First(1, Quo(n, Byte)), Rem(n, Byte)>>
    BY <2>7 DEF Quo, Rem
  <2> QED
    BY <1>1, <2>3, <2>5, <2>6, <2>8
<1>4. CASE ~(m < r) /\ ~(m < r * b) /\ m < Power[4]
  BY <1>1, <1>4 DEF SaveLen
<1>5. CASE ~(m < r) /\ ~(m < r * b) /\ ~(m < Power[4])
  BY <1>1, <1>5 DEF SaveLen
<1> QED
  BY <1>2, <1>3, <1>4, <1>5

LEMMA NoLength == LoadLen(<< >>) = Failed
BY DEF LoadLen

\* What SaveLen makes of a length that takes four or eight bytes.
WideOf(n, x, k, w) == /\ n \in Nat /\ x \in {0, 1} /\ k \in {4, 8}
                      /\ x = 0 => k = 4
                      /\ x = 1 => k = 8
                      /\ BigEndian(n, k) \in Seq(Nat) /\ Len(BigEndian(n, k)) = k
                      /\ FromBigEndian(BigEndian(n, k)) = n
                      /\ w = <<First(2, x)>> \o BigEndian(n, k)

LEMMA NatSeq ==
  ASSUME NEW S, Nat \subseteq S, NEW b \in Seq(Nat)
  PROVE  b \in Seq(S)
<1>1. b = [i \in 1 .. Len(b) |-> b[i]] /\ Len(b) \in Nat /\ \A i \in 1 .. Len(b) : b[i] \in Nat
  OBVIOUS
<1>2. PICK m \in Nat : m = Len(b)
  BY <1>1
<1>3. [i \in 1 .. m |-> b[i]] \in Seq(S)
  BY <1>1, <1>2
<1> QED
  BY <1>1, <1>2, <1>3

\* A stream after its first byte.
LEMMA FirstByte ==
  ASSUME NEW S, Nat \subseteq S, NEW f \in Nat
  PROVE  <<f>> \in Seq(S) /\ Len(<<f>>) = 1 /\ <<f>>[1] = f
OBVIOUS

LEMMA AfterFirst ==
  ASSUME NEW S, Nat \subseteq S, NEW f \in Nat, NEW t \in Seq(S)
  PROVE  /\ <<f>> \o t \in Seq(S) /\ Len(<<f>> \o t) = 1 + Len(t) /\ (<<f>> \o t)[1] = f
         /\ \A i \in 1 .. Len(t) : (<<f>> \o t)[1 + i] = t[i]
         /\ From(<<f>> \o t, 2) = t
<1> DEFINE h == <<f>>
<1>1. h \in Seq(S) /\ Len(h) = 1 /\ h[1] = f
  BY FirstByte
<1> HIDE DEF h
<1>2. /\ h \o t \in Seq(S) /\ Len(h \o t) = Len(h) + Len(t)
      /\ \A i \in 1 .. Len(h) : (h \o t)[i] = h[i]
      /\ \A i \in 1 .. Len(t) : (h \o t)[Len(h) + i] = t[i]
      /\ From(h \o t, Len(h) + 1) = t
  BY <1>1, ConcatFacts, ZenonT(60)
<1>3. 1 \in 1 .. Len(h) /\ Len(h) + 1 = 2
  BY <1>1
<1>4. (h \o t)[1] = f
  BY <1>1, <1>2, <1>3
<1> QED
  BY <1>1, <1>2, <1>3, <1>4 DEF h

LEMMA WideBack ==
  ASSUME NEW S, Nat \subseteq S, NEW t \in Seq(S), NEW length, NEW rest, NEW bytes, NEW w,
         WideOf(length, rest, bytes, w)
  PROVE  /\ w \in Seq(S) /\ Len(w) >= 1
         /\ LoadLen(w \o t) = IsLength(length, t)
         /\ \A p \in StrictPrefixes(w) : LoadLen(p) = Failed
<1> SUFFICES ASSUME NEW n \in Nat, NEW x \in {0, 1}, NEW k \in {4, 8}, WideOf(n, x, k, w)
             PROVE  /\ w \in Seq(S) /\ Len(w) >= 1
                    /\ LoadLen(w \o t) = IsLength(n, t)
                    /\ \A p \in StrictPrefixes(w) : LoadLen(p) = Failed
  BY DEF WideOf
<1> DEFINE be == BigEndian(n, k)
           f == First(2, x)
           s == w \o t
<1>1. be \in Seq(S) /\ Len(be) = k /\ FromBigEndian(be) = n
  BY NatSeq DEF WideOf
<1>2. f \in Nat /\ Quo(f, Rests) = 2 /\ Rem(f, Rests) = x
  <2>1. 2 \in 0 .. 3 /\ x \in 0 .. Rests - 1
    BY EncodingAssumption
  <2> QED
    BY <2>1, FirstFacts
<1>3. FromBigEndian(be) = n
  BY <1>1
<1>4. w = <<f>> \o be
  BY DEF WideOf
<1> HIDE DEF be, f, s
<1>6. /\ w \in Seq(S) /\ Len(w) = k + 1 /\ w[1] = f
      /\ \A i \in 1 .. k : w[1 + i] = be[i]
  <2>1. /\ w \in Seq(S) /\ Len(w) = 1 + Len(be) /\ w[1] = f
        /\ \A i \in 1 .. Len(be) : w[1 + i] = be[i]
    BY <1>1, <1>2, <1>4, AfterFirst
  <2> QED
    BY <1>1, <2>1
<1>7. /\ s \in Seq(S) /\ Len(s) = k + 1 + Len(t) /\ s[1] = f
      /\ \A i \in 1 .. k + 1 : s[i] = w[i]
      /\ From(s, k + 2) = t
  <2>1. /\ s \in Seq(S) /\ Len(s) = Len(w) + Len(t) /\ \A i \in 1 .. Len(w) : s[i] = w[i]
        /\ From(s, Len(w) + 1) = t
    <3>1. w \in Seq(S) /\ t \in Seq(S)
      BY <1>6
    <3>2. /\ w \o t \in Seq(S) /\ Len(w \o t) = Len(w) + Len(t)
          /\ \A i \in 1 .. Len(w) : (w \o t)[i] = w[i]
          /\ From(w \o t, Len(w) + 1) = t
      BY <3>1, ConcatFacts
    <3> QED
      BY <3>2 DEF s
  <2>2. (k + 1) + 1 = k + 2 /\ 1 \in 1 .. k + 1
    BY <1>1
  <2> QED
    BY <1>6, <2>1, <2>2
<1>8. SubSeq(s, 2, k + 1) = be
  <2> DEFINE g == SubSeq(s, 2, k + 1)
  <2>1. g \in Seq(S) /\ Len(g) = k /\ \A i \in 1 .. k : g[i] = s[1 + i]
    <3>1. k \in Nat /\ k + 1 \in 1 .. Len(s) /\ Len(s) \in Nat
      BY <1>7
    <3> QED
      BY <1>7, <3>1
  <2>2. \A i \in 1 .. k : 1 + i \in 1 .. k + 1
    BY <1>1
  <2> HIDE DEF g
  <2>3. \A i \in 1 .. k : g[i] = be[i]
    BY <1>6, <1>7, <2>1, <2>2
  <2>4. g = be
    BY <1>1, <2>1, <2>3, SameSeq
  <2> QED
    BY <2>4 DEF g
<1>9. LoadLen(s) = IsLength(n, t)
  <2>1. s # << >> /\ Len(t) \in Nat
    BY <1>1, <1>7
  <2>2. /\ 2 = Quo(s[1], Rests) /\ x = Rem(s[1], Rests)
    BY <1>2, <1>7
  <2>3. CASE x = 0
    <3>0. k = 4
      BY <2>3 DEF WideOf
    <3>1. ~(Len(s) < 5) /\ SubSeq(s, 2, 5) = be /\ From(s, 6) = t
      BY <1>7, <1>8, <2>1, <3>0
    <3>2. LoadLen(s) = IF Len(s) < 5 THEN Failed ELSE IsLength(FromBigEndian(SubSeq(s, 2, 5)), From(s, 6))
      BY <1>7, <2>1, <2>2, <2>3, LoadLenCases
    <3> QED
      BY <1>3, <3>1, <3>2
  <2>4. CASE x = 1
    <3>0. k = 8
      BY <2>4 DEF WideOf
    <3>1. ~(Len(s) < 9) /\ SubSeq(s, 2, 9) = be /\ From(s, 10) = t
      BY <1>7, <1>8, <2>1, <3>0
    <3>2. LoadLen(s) = IF Len(s) < 9 THEN Failed ELSE IsLength(FromBigEndian(SubSeq(s, 2, 9)), From(s, 10))
      BY <1>7, <2>1, <2>2, <2>4, LoadLenCases
    <3> QED
      BY <1>3, <3>1, <3>2
  <2> QED
    BY <2>3, <2>4
<1>10. ASSUME NEW p \in StrictPrefixes(w) PROVE LoadLen(p) = Failed
  <2>1. p \in Seq(S) /\ Len(p) < k + 1 /\ \A i \in 1 .. Len(p) : p[i] = w[i]
    <3>1. p \in Seq(S) /\ Len(p) < Len(w) /\ \A i \in 1 .. Len(p) : p[i] = w[i]
      BY <1>6, PrefixFacts
    <3> QED
      BY <1>6, <3>1
  <2>2. CASE p = << >>
    BY <2>2, NoLength
  <2>3. CASE p # << >>
    <3>1. Len(p) \in Nat /\ Len(p) >= 1
      BY <2>1, <2>3
    <3>2. p[1] = f
      BY <1>6, <2>1, <3>1
    <3>3. 2 = Quo(p[1], Rests) /\ x = Rem(p[1], Rests)
      BY <1>2, <3>2
    <3>4. CASE x = 0
      <4>0. k = 4
        BY <3>4 DEF WideOf
      <4>1. LoadLen(p) = IF Len(p) < 5 THEN Failed ELSE IsLength(FromBigEndian(SubSeq(p, 2, 5)), From(p, 6))
        BY <2>1, <2>3, <3>3, <3>4, LoadLenCases
      <4> QED
        BY <2>1, <3>1, <4>0, <4>1
    <3>5. CASE x = 1
      <4>1. LoadLen(p) = IF Len(p) < 9 THEN Failed ELSE IsLength(FromBigEndian(SubSeq(p, 2, 9)), From(p, 10))
        BY <2>1, <2>3, <3>3, <3>5, LoadLenCases
      <4> QED
        BY <2>1, <3>1, <3>5, <4>1
    <3> QED
      BY <3>4, <3>5
  <2> QED
    BY <2>2, <2>3
<1> QED
  BY <1>6, <1>9, <1>10 DEF s

LEMMA LengthBack ==
  ASSUME NEW S, Nat \subseteq S, NEW t \in Seq(S), NEW n, Size(n)
  PROVE  /\ SaveLen(n) \in Seq(S) /\ Len(SaveLen(n)) >= 1
         /\ LoadLen(SaveLen(n) \o t) = IsLength(n, t)
         /\ \A p \in StrictPrefixes(SaveLen(n)) : LoadLen(p) = Failed
<1>1. n \in Nat /\ Quo(n, Power[4]) < Power[4]
  BY DEF Size
<1>2. CASE n \in 0 .. Rests - 1 /\ SaveLen(n) = <<First(0, n)>>
  <2> DEFINE f == First(0, n)
             s == <<f>> \o t
  <2>1. f \in Nat /\ 0 = Quo(f, Rests) /\ n = Rem(f, Rests)
    BY <1>2, FirstFacts
  <2> HIDE DEF f, s
  <2>2. <<f>> \in Seq(S) /\ Len(<<f>>) = 1 /\ <<f>>[1] = f
    BY <2>1, FirstByte
  <2>3. s \in Seq(S) /\ s # << >> /\ s[1] = f /\ From(s, 2) = t
    <3>1. /\ s \in Seq(S) /\ Len(s) = 1 + Len(t) /\ s[1] = f /\ From(s, 2) = t
      BY <2>1, AfterFirst DEF s
    <3> QED
      BY <3>1
  <2>4. LoadLen(s) = IsLength(n, t)
    BY <2>1, <2>3, LoadLenCases
  <2>5. ASSUME NEW p \in StrictPrefixes(<<f>>) PROVE LoadLen(p) = Failed
    <3>1. p = << >>
      <4> DEFINE h == <<f>>
      <4>1. h \in Seq(S) /\ Len(h) = 1 /\ p \in StrictPrefixes(h)
        BY <2>2
      <4> HIDE DEF h
      <4>2. p \in Seq(S) /\ Len(p) < Len(h)
        BY <4>1, PrefixFacts
      <4> QED
        BY <4>1, <4>2
    <3> QED
      BY <3>1, NoLength
  <2> QED
    BY <1>2, <2>2, <2>4, <2>5 DEF f, s
<1>3. CASE /\ Quo(n, Byte) \in 0 .. Rests - 1 /\ Rem(n, Byte) \in Nat
           /\ n = Quo(n, Byte) * Byte + Rem(n, Byte)
           /\ SaveLen(n) = <<First(1, Quo(n, Byte)), Rem(n, Byte)>>
  <2> DEFINE q == Quo(n, Byte)
             e == Rem(n, Byte)
             f == First(1, q)
             w == <<f, e>>
             s == w \o t
  <2>1. f \in Nat /\ 1 = Quo(f, Rests) /\ q = Rem(f, Rests)
    BY <1>3, FirstFacts
  <2>2. e \in Nat /\ q * Byte + e = n /\ SaveLen(n) = w
    BY <1>3
  <2> HIDE DEF f, s, q, e, w
  <2>3. w \in Seq(S) /\ Len(w) = 2 /\ w[1] = f /\ w[2] = e
    BY <2>1, <2>2 DEF w
  <2>4. s \in Seq(S) /\ s # << >> /\ s[1] = f /\ s[2] = e /\ From(s, 3) = t /\ ~(Len(s) < 2)
    <3>1. /\ w \o t \in Seq(S) /\ Len(w \o t) = Len(w) + Len(t)
          /\ \A i \in 1 .. Len(w) : (w \o t)[i] = w[i]
          /\ From(w \o t, Len(w) + 1) = t
      BY <2>3, ConcatFacts, ZenonT(60)
    <3>2. s \in Seq(S) /\ Len(s) = 2 + Len(t) /\ \A i \in 1 .. 2 : s[i] = w[i]
      BY <2>3, <3>1 DEF s
    <3>3. From(s, 3) = t
      BY <2>3, <3>1 DEF s
    <3> QED
      BY <2>3, <3>2, <3>3
  <2>5. LoadLen(s) = IF Len(s) < 2 THEN Failed ELSE IsLength(q * Byte + s[2], From(s, 3))
    BY <2>1, <2>4, LoadLenCases
  <2>6. LoadLen(s) = IsLength(n, t)
    BY <2>2, <2>4, <2>5
  <2>7. ASSUME NEW p \in StrictPrefixes(w) PROVE LoadLen(p) = Failed
    <3>1. p \in Seq(S) /\ Len(p) < 2 /\ \A i \in 1 .. Len(p) : p[i] = w[i]
      <4>1. p \in Seq(S) /\ Len(p) < Len(w) /\ \A i \in 1 .. Len(p) : p[i] = w[i]
        BY <2>3, PrefixFacts
      <4> QED
        BY <2>3, <4>1
    <3>2. CASE p = << >>
      BY <3>2, NoLength
    <3>3. CASE p # << >>
      <4>1. p[1] = f
        BY <2>3, <3>1, <3>3
      <4>2. LoadLen(p) = IF Len(p) < 2 THEN Failed ELSE IsLength(q * Byte + p[2], From(p, 3))
        BY <2>1, <3>1, <3>3, <4>1, LoadLenCases
      <4> QED
        BY <3>1, <4>2
    <3> QED
      BY <3>2, <3>3
  <2> QED
    BY <2>2, <2>3, <2>6, <2>7 DEF s
<1>4. CASE n < Power[4] /\ SaveLen(n) = <<First(2, 0)>> \o BigEndian(n, 4)
  <2>1. PICK x \in {0, 1}, k \in {4, 8} : x = 0 /\ k = 4
    OBVIOUS
  <2>2. BigEndian(n, k) \in Seq(Nat) /\ Len(BigEndian(n, k)) = k /\ FromBigEndian(BigEndian(n, k)) = n
    BY <1>1, <1>4, <2>1, LengthBytes
  <2>3. PICK w : w = <<First(2, x)>> \o BigEndian(n, k)
    OBVIOUS
  <2>4. /\ w \in Seq(S) /\ Len(w) >= 1 /\ LoadLen(w \o t) = IsLength(n, t)
        /\ \A p \in StrictPrefixes(w) : LoadLen(p) = Failed
    <3>1. WideOf(n, x, k, w)
      BY <1>1, <2>1, <2>2, <2>3 DEF WideOf
    <3> QED
      BY <3>1, WideBack
  <2> QED
    BY <1>4, <2>1, <2>3, <2>4
<1>5. CASE SaveLen(n) = <<First(2, 1)>> \o BigEndian(n, 8)
  <2>1. PICK x \in {0, 1}, k \in {4, 8} : x = 1 /\ k = 8
    OBVIOUS
  <2>2. BigEndian(n, k) \in Seq(Nat) /\ Len(BigEndian(n, k)) = k /\ FromBigEndian(BigEndian(n, k)) = n
    BY <1>1, <1>5, <2>1, LengthBytes
  <2>3. PICK w : w = <<First(2, x)>> \o BigEndian(n, k)
    OBVIOUS
  <2>4. /\ w \in Seq(S) /\ Len(w) >= 1 /\ LoadLen(w \o t) = IsLength(n, t)
        /\ \A p \in StrictPrefixes(w) : LoadLen(p) = Failed
    <3>1. WideOf(n, x, k, w)
      BY <1>1, <2>1, <2>2, <2>3 DEF WideOf
    <3> QED
      BY <3>1, WideBack
  <2> QED
    BY <1>5, <2>1, <2>3, <2>4
<1> QED
  BY <1>2, <1>3, <1>4, <1>5, SaveLenCases

LEMMA MarkBack ==
  ASSUME NEW S, NEW t \in Seq(S), Nat \subseteq S, NEW e \in 0 .. 3
  PROVE  /\ <<First(3, e)>> \in Seq(S) /\ Len(<<First(3, e)>>) = 1
         /\ LoadLen(<<First(3, e)>> \o t) = [ok |-> TRUE, val |-> e, encoded |-> TRUE, rest |-> t]
<1> DEFINE f == First(3, e)
           s == <<f>> \o t
<1>1. f \in Nat /\ 3 = Quo(f, Rests) /\ e = Rem(f, Rests)
  <2>1. e \in 0 .. Rests - 1 /\ 3 \in 0 .. 3
    BY EncodingAssumption
  <2> QED
    BY <2>1, FirstFacts
<1> HIDE DEF f, s
<1>2. <<f>> \in Seq(S) /\ Len(<<f>>) = 1 /\ <<f>>[1] = f
  BY <1>1, FirstByte
<1>3. s \in Seq(S) /\ s # << >> /\ s[1] = f /\ From(s, 2) = t
  <2>1. /\ s \in Seq(S) /\ Len(s) = 1 + Len(t) /\ s[1] = f /\ From(s, 2) = t
    BY <1>1, AfterFirst DEF s
  <2> QED
    BY <2>1
<1>4. LoadLen(s) = [ok |-> TRUE, val |-> e, encoded |-> TRUE, rest |-> t]
  BY <1>1, <1>3, LoadLenCases
<1> QED
  BY <1>2, <1>4 DEF f, s
-----------------------------------------------------------------------------
(* Integers.                                                               *)

LEMMA ConcatAssoc ==
  ASSUME NEW S, NEW a \in Seq(S), NEW b \in Seq(S), NEW c \in Seq(S)
  PROVE  (a \o b) \o c = a \o (b \o c)
OBVIOUS

\* The bytes an integer is written to, when it is.
Encoded(v, e, k, w) ==
  /\ v \in Int /\ e \in {0, 1, 2} /\ k \in {1, 2, 4}
  /\ k = (IF e = INT8 THEN 1 ELSE IF e = INT16 THEN 2 ELSE 4) /\ Fits(v, k)
  /\ w = <<First(3, e)>> \o LittleEndian(v, k)

LEMMA EncodeCases ==
  ASSUME NEW v \in Int
  PROVE  \/ EncodeInteger(v) = << >> /\ ~Fits(v, 4)
         \/ Encoded(v, 0, 1, EncodeInteger(v))
         \/ Encoded(v, 1, 2, EncodeInteger(v)) /\ ~Fits(v, 1)
         \/ Encoded(v, 2, 4, EncodeInteger(v)) /\ ~Fits(v, 1) /\ ~Fits(v, 2)
BY DEF EncodeInteger, Encoded, INT8, INT16, INT32

LEMMA IntegerBack ==
  ASSUME NEW v, NEW e, NEW k, NEW w, Encoded(v, e, k, w)
  PROVE  /\ w \in Seq(Nat) /\ Len(w) = k + 1 /\ w # << >>
         /\ LoadLen(w).ok /\ LoadLen(w).encoded /\ LoadLen(w).val = e
         /\ LoadInteger(e, LoadLen(w).rest) = Read(v, << >>)
         /\ \A p \in StrictPrefixes(w) : \/ LoadLen(p) = Failed
                                   \/ /\ LoadLen(p).ok /\ LoadLen(p).encoded /\ LoadLen(p).val = e
                                      /\ LoadInteger(e, LoadLen(p).rest) = Failed
<1> SUFFICES ASSUME NEW n \in Int, NEW x \in {0, 1, 2}, NEW j \in {1, 2, 4}, Encoded(n, x, j, w)
             PROVE  /\ w \in Seq(Nat) /\ Len(w) = j + 1 /\ w # << >>
                    /\ LoadLen(w).ok /\ LoadLen(w).encoded /\ LoadLen(w).val = x
                    /\ LoadInteger(x, LoadLen(w).rest) = Read(n, << >>)
                    /\ \A p \in StrictPrefixes(w) : \/ LoadLen(p) = Failed
                                              \/ /\ LoadLen(p).ok /\ LoadLen(p).encoded /\ LoadLen(p).val = x
                                                 /\ LoadInteger(x, LoadLen(p).rest) = Failed
  BY DEF Encoded
<1> DEFINE f == First(3, x)
           le == LittleEndian(n, j)
<1>1. le \in Seq(Nat) /\ Len(le) = j /\ Signed(FromLittleEndian(le), j) = n
  BY IntegerBytes DEF Encoded
<1>2. x \in 0 .. 3 /\ f \in Nat
  <2>1. x \in 0 .. 3
    OBVIOUS
  <2>2. 3 \in 0 .. 3 /\ x \in 0 .. Rests - 1
    BY EncodingAssumption
  <2> QED
    BY <2>1, <2>2, FirstFacts
<1>3. w = <<f>> \o le
  BY DEF Encoded
<1>4. \A t \in Seq(Nat) : LoadLen(<<f>> \o t) = [ok |-> TRUE, val |-> x, encoded |-> TRUE, rest |-> t]
  BY <1>2, MarkBack
<1> HIDE DEF le, f
<1>5. w \in Seq(Nat) /\ Len(w) = j + 1 /\ w # << >>
  <2>1. w \in Seq(Nat) /\ Len(w) = 1 + Len(le)
    BY <1>1, <1>2, <1>3, AfterFirst
  <2> QED
    BY <1>1, <2>1
<1>6. \A s : LoadInteger(x, s) = IF Len(s) < j THEN Failed
                                 ELSE Read(Signed(FromLittleEndian(SubSeq(s, 1, j)), j), From(s, j + 1))
  BY DEF LoadInteger, Encoded
<1>7. LoadInteger(x, le) = Read(n, << >>)
  <2>1. SubSeq(le, 1, j) = le
    BY <1>1
  <2>2. From(le, j + 1) = << >>
    BY <1>1 DEF From
  <2>3. LoadInteger(x, le) = IF Len(le) < j THEN Failed
                             ELSE Read(Signed(FromLittleEndian(SubSeq(le, 1, j)), j), From(le, j + 1))
    BY <1>6
  <2>4. ~(Len(le) < j)
    BY <1>1
  <2>5. LoadInteger(x, le) = Read(Signed(FromLittleEndian(le), j), << >>)
    BY <2>1, <2>2, <2>3, <2>4
  <2> QED
    BY <1>1, <2>5
<1>8. ASSUME NEW p \in StrictPrefixes(w)
      PROVE  \/ LoadLen(p) = Failed
             \/ /\ LoadLen(p).ok /\ LoadLen(p).encoded /\ LoadLen(p).val = x
                /\ LoadInteger(x, LoadLen(p).rest) = Failed
  <2> DEFINE h == <<f>>
  <2>1. h \in Seq(Nat) /\ Len(h) = 1 /\ p \in StrictPrefixes(h \o le)
    BY <1>2, <1>3, FirstByte
  <2>2. \A t \in Seq(Nat) : LoadLen(h \o t) = [ok |-> TRUE, val |-> x, encoded |-> TRUE, rest |-> t]
    BY <1>4
  <2> HIDE DEF h
  <2>3. p \in StrictPrefixes(h) \/ \E q \in StrictPrefixes(le) : p = h \o q
    <3>1. StartsIn(p, h, le)
      BY <1>1, <2>1, ConcatPrefix
    <3> QED
      BY <3>1 DEF StartsIn
  <2>4. CASE p \in StrictPrefixes(h)
    <3>1. p \in Seq(Nat) /\ Len(p) < Len(h)
      BY <2>1, <2>4, PrefixFacts
    <3>2. p = << >>
      BY <2>1, <3>1
    <3> QED
      BY <3>2, NoLength
  <2>5. ASSUME NEW q \in StrictPrefixes(le), p = h \o q
        PROVE  /\ LoadLen(p).ok /\ LoadLen(p).encoded /\ LoadLen(p).val = x
               /\ LoadInteger(x, LoadLen(p).rest) = Failed
    <3>1. q \in Seq(Nat) /\ Len(q) < Len(le)
      BY <1>1, PrefixFacts
    <3>2. Len(q) < j
      BY <1>1, <3>1
    <3>3. LoadLen(p) = [ok |-> TRUE, val |-> x, encoded |-> TRUE, rest |-> q]
      BY <2>2, <2>5, <3>1
    <3> QED
      BY <1>6, <3>2, <3>3
  <2> QED
    BY <2>3, <2>4, <2>5
<1>9. LoadLen(w) = [ok |-> TRUE, val |-> x, encoded |-> TRUE, rest |-> le]
  BY <1>1, <1>3, <1>4
<1> QED
  BY <1>5, <1>7, <1>8, <1>9
-----------------------------------------------------------------------------
(* Strings.                                                                *)

LEMMA LengthSize ==
  ASSUME NEW n, IsLength64(n)
  PROVE  Size(n)
BY DEF IsLength64, Size, Quo

LEMMA SmallSize ==
  ASSUME NEW n \in 0 .. 15
  PROVE  Size(n)
<1>1. PICK p \in Nat \ {0}, b \in Nat \ {0}, q \in Nat \ {0}, r \in Nat \ {0} :
         /\ b = Byte /\ b >= 16 /\ p = Power[1] /\ q = Power[2] /\ r = Power[3] /\ Power[4] = r * b
         /\ r = q * b /\ q = p * b /\ p = b
  <2>1. \A k \in {1, 2, 3} : Power[k] \in Nat \ {0}
    BY PowerFacts
  <2>2. Power[4] = Power[3] * Byte /\ Power[3] = Power[2] * Byte /\ Power[2] = Power[1] * Byte
    <3>1. \A k \in {1, 2, 3} : Power[k + 1] = Power[k] * Byte
      BY PowerFacts
    <3>2. 1 + 1 = 2 /\ 2 + 1 = 3 /\ 3 + 1 = 4
      OBVIOUS
    <3> QED
      BY <3>1, <3>2
  <2>3. Power[1] = Byte
    <3>1. Power[0 + 1] = Power[0] * Byte /\ Power[0] = 1
      BY PowerFacts
    <3>2. 0 + 1 = 1 /\ \A m \in Nat : 1 * m = m
      OBVIOUS
    <3>3. 1 * Byte = Byte
      BY ByteFacts
    <3> QED
      BY <3>1, <3>2, <3>3
  <2>4. Byte \in Nat \ {0} /\ Byte >= 16
    BY ByteFacts
  <2> QED
    BY <2>1, <2>2, <2>3, <2>4
<1>2. PICK m \in Nat \ {0} : m = Power[4] /\ m >= 16
  <2>1. r * b \in Nat \ {0} /\ r * b >= 16
    <3>1. r * b >= b
      OBVIOUS
    <3> QED
      BY <1>1, <3>1
  <2> QED
    BY <1>1, <2>1
<1>3. Parts(n, m, 0, n)
  BY <1>2 DEF Parts
<1>4. Quo(n, m) = 0
  BY <1>3, DivUnique
<1> QED
  BY <1>2, <1>4 DEF Size

\* The text of an integer is short.
LEMMA IntTextSize ==
  ASSUME NEW v \in Int
  PROVE  /\ IntText(v).int = TRUE /\ IntText(v).val = v
         /\ IntText(v).len \in 1 .. 11 /\ Size(IntText(v).len) /\ IntText(v).len # 0
<1>1. ASSUME NEW n PROVE Digits(n) \in 1 .. 10
  <2> DEFINE D == {k \in 1 .. 9 : n >= 10^k}
             N == 1 .. 9
  <2>1. D \subseteq N
    OBVIOUS
  <2>2. IsFiniteSet(N) /\ Cardinality(N) = 9
    <3>1. \A m \in Int : Cardinality(1 .. m) = IF 1 > m THEN 0 ELSE m - 1 + 1
      BY FS_Interval
    <3>2. ASSUME NEW m \in Int, m = 9 PROVE Cardinality(1 .. m) = 9
      <4>1. Cardinality(1 .. m) = IF 1 > m THEN 0 ELSE m - 1 + 1
        BY <3>1
      <4>2. ~(1 > m) /\ m - 1 + 1 = 9
        BY <3>2
      <4> QED
        BY <4>1, <4>2
    <3>3. PICK k \in Int : k = 9
      OBVIOUS
    <3>4. Cardinality(1 .. k) = 9
      BY <3>2, <3>3
    <3>5. IsFiniteSet(1 .. k)
      BY FS_Interval
    <3> QED
      BY <3>3, <3>4, <3>5
  <2> HIDE DEF D, N
  <2>3. IsFiniteSet(D) /\ Cardinality(D) <= Cardinality(N) /\ Cardinality(D) \in Nat
    BY <2>1, <2>2, FS_Subset, FS_CardinalityType
  <2>4. Cardinality(D) \in 0 .. 9
    BY <2>2, <2>3
  <2>5. 1 + Cardinality(D) \in 1 .. 10
    BY <2>4
  <2> QED
    BY <2>5 DEF Digits, D
<1>2. IntText(v).len = IF v < 0 THEN 1 + Digits(-v) ELSE Digits(v)
  BY DEF IntText
<1>3. IntText(v).int = TRUE /\ IntText(v).val = v
  BY DEF IntText
<1>4. IntText(v).len \in 1 .. 11
  <2>1. Digits(v) \in 1 .. 10 /\ Digits(-v) \in 1 .. 10
    BY <1>1
  <2> QED
    BY <1>2, <2>1
<1>5. IntText(v).len \in 0 .. 15 /\ IntText(v).len # 0
  BY <1>4
<1> QED
  BY <1>3, <1>4, <1>5, SmallSize

LEMMA TextSizes ==
  ASSUME NEW str, IsText(str)
  PROVE  /\ Size(str.len) /\ (str.len = 0 => str = EmptyText) /\ str.int \in BOOLEAN
         /\ str.int => str.val \in Int /\ str = IntText(str.val)
         /\ ~str.int => Size(str.packed)
<1>1. CASE str.int = TRUE /\ str.val \in Int /\ str = IntText(str.val)
  <2>1. PICK v \in Int : v = str.val /\ str = IntText(v)
    BY <1>1
  <2>2. Size(IntText(v).len) /\ IntText(v).len # 0
    BY IntTextSize
  <2>3. Size(str.len) /\ str.len # 0
    BY <2>1, <2>2
  <2> QED
    BY <1>1, <2>3
<1>2. CASE /\ str.int = FALSE /\ IsLength64(str.len) /\ IsLength64(str.packed)
           /\ str.len = 0 => str = EmptyText
  BY <1>2, LengthSize
<1> QED
  BY <1>1, <1>2 DEF IsText

\* A string as LoadString returns it.
Loaded(str, flag, number) ==
  [str |-> str, encoding |-> IF flag \in {"plain", "sds"} THEN "none"
                             ELSE IF flag = "enc" /\ number THEN "int" ELSE "raw"]

\* What is read of a string: all of what was written, nothing of a part of it.
ComesBack(w, str, flag, number) ==
  /\ LoadString(w, flag) = Read(Loaded(str, flag, number), << >>)
  /\ \A p \in StrictPrefixes(w) : LoadString(p, flag) = Failed

LEMMA AsLoadedFailed ==
  ASSUME NEW flag, NEW n
  PROVE  AsLoaded(Failed, flag, n) = Failed
BY DEF AsLoaded, Failed

LEMMA AsLoadedText ==
  ASSUME NEW flag, NEW str, NEW t
  PROVE  AsLoaded(Read(str, t), flag, FALSE) = Read(Loaded(str, flag, FALSE), t)
BY DEF AsLoaded, Read, Loaded

LEMMA AsLoadedInt ==
  ASSUME NEW flag, NEW v, NEW t
  PROVE  AsLoaded(Read(v, t), flag, TRUE) = Read(Loaded(IntText(v), flag, TRUE), t)
BY DEF AsLoaded, Read, Loaded

LEMMA StringOfFailed ==
  ASSUME NEW s, NEW flag, LoadLen(s) = Failed
  PROVE  LoadString(s, flag) = Failed
BY DEF LoadString, Failed

LEMMA StringOfInt ==
  ASSUME NEW s, NEW flag, NEW e \in {0, 1, 2}, LoadLen(s).ok, LoadLen(s).encoded, LoadLen(s).val = e
  PROVE  LoadString(s, flag) = AsLoaded(LoadInteger(e, LoadLen(s).rest), flag, TRUE)
BY DEF LoadString, INT8, INT16, INT32

LEMMA StringOfLzf ==
  ASSUME NEW s, NEW flag, NEW t, LoadLen(s) = [ok |-> TRUE, val |-> 3, encoded |-> TRUE, rest |-> t]
  PROVE  LoadString(s, flag) = AsLoaded(LoadLzf(t), flag, FALSE)
BY DEF LoadString, INT8, INT16, INT32, LZF

LEMMA StringOfLength ==
  ASSUME NEW s, NEW flag, NEW n, NEW t, LoadLen(s) = IsLength(n, t)
  PROVE  LoadString(s, flag) = AsLoaded(IF n = 0 THEN Read(EmptyText, t) ELSE LoadChunk(t, n), flag, FALSE)
BY DEF LoadString, IsLength

LEMMA IntStringBack ==
  ASSUME NEW v, NEW e, NEW k, NEW w, Encoded(v, e, k, w), NEW flag
  PROVE  ComesBack(w, IntText(v), flag, TRUE)
<1>1. e \in {0, 1, 2}
  BY DEF Encoded
<1>2. LoadString(w, flag) = Read(Loaded(IntText(v), flag, TRUE), << >>)
  <2>1. LoadString(w, flag) = AsLoaded(LoadInteger(e, LoadLen(w).rest), flag, TRUE)
    BY <1>1, IntegerBack, StringOfInt
  <2>2. LoadInteger(e, LoadLen(w).rest) = Read(v, << >>)
    BY IntegerBack
  <2>3. AsLoaded(Read(v, << >>), flag, TRUE) = Read(Loaded(IntText(v), flag, TRUE), << >>)
    BY AsLoadedInt
  <2> QED
    BY <2>1, <2>2, <2>3
<1>3. ASSUME NEW p \in StrictPrefixes(w) PROVE LoadString(p, flag) = Failed
  <2>1. CASE LoadLen(p) = Failed
    BY <2>1, StringOfFailed
  <2>2. CASE /\ LoadLen(p).ok /\ LoadLen(p).encoded /\ LoadLen(p).val = e
             /\ LoadInteger(e, LoadLen(p).rest) = Failed
    <3>1. LoadString(p, flag) = AsLoaded(LoadInteger(e, LoadLen(p).rest), flag, TRUE)
      BY <1>1, <2>2, StringOfInt
    <3> QED
      BY <2>2, <3>1, AsLoadedFailed
  <2> QED
    BY <2>1, <2>2, IntegerBack
<1> QED
  BY <1>2, <1>3 DEF ComesBack

LEMMA ChunkBack ==
  ASSUME NEW str, NEW n, NEW c, c = Chunk(str, n)
  PROVE  /\ LoadChunk(<<c>>, n) = Read(str, << >>) /\ LoadChunk(<< >>, n) = Failed
         /\ \A p \in StrictPrefixes(<<c>>) : p = << >>
<1>1. c.size = n /\ c.chunk = str
  BY DEF Chunk
<1> DEFINE s == <<c>>
<1>2. s \in Seq({c}) /\ s # << >> /\ Head(s) = c /\ Tail(s) = << >> /\ Len(s) = 1
  OBVIOUS
<1> HIDE DEF s
<1>3. LoadChunk(s, n) = Read(str, << >>)
  BY <1>1, <1>2 DEF LoadChunk
<1>4. ASSUME NEW p \in StrictPrefixes(s) PROVE p = << >>
  <2>1. p \in Seq({c}) /\ Len(p) < Len(s)
    BY <1>2, <1>4, PrefixFacts
  <2> QED
    BY <1>2, <2>1
<1> QED
  BY <1>3, <1>4 DEF LoadChunk, s

LEMMA VerbatimBack ==
  ASSUME NEW str, Size(str.len), str.len = 0 => str = EmptyText, NEW flag
  PROVE  ComesBack(Verbatim(str), str, flag, FALSE)
<1> DEFINE n == str.len
           a == SaveLen(n)
           c == Chunk(str, n)
           S == Nat \cup {c}
           b == IF n = 0 THEN << >> ELSE <<c>>
           w == Verbatim(str)
<1>1. w = a \o b
  BY DEF Verbatim
<1>2. Nat \subseteq S /\ b \in Seq(S)
  <2> HIDE DEF n, c, w
  <2>1. c \in S /\ Nat \subseteq S
    OBVIOUS
  <2> HIDE DEF S
  <2>2. << >> \in Seq(S) /\ <<c>> \in Seq(S)
    BY <2>1
  <2> QED
    BY <2>1, <2>2
<1>3. /\ a \in Seq(S) /\ \A t \in Seq(S) : LoadLen(a \o t) = IsLength(n, t)
      /\ \A p \in StrictPrefixes(a) : LoadLen(p) = Failed
  <2> HIDE DEF S, a, b, c, w
  <2> HIDE DEF n
  <2>1. Size(n)
    BY DEF n
  <2>2. << >> \in Seq(S)
    OBVIOUS
  <2> QED
    BY <1>2, <2>1, <2>2, LengthBack DEF a
<1>4. LoadChunk(<<c>>, n) = Read(str, << >>) /\ LoadChunk(<< >>, n) = Failed
  BY ChunkBack
<1>5. \A p \in StrictPrefixes(b) : p = << >> /\ n # 0
  <2>1. CASE n = 0
    BY <2>1 DEF StrictPrefixes
  <2>2. CASE n # 0
    <3>1. \A p \in StrictPrefixes(<<c>>) : p = << >>
      BY ChunkBack
    <3> QED
      BY <2>2, <3>1
  <2> QED
    BY <2>1, <2>2
<1>6. n = 0 => b = << >> /\ str = EmptyText
  OBVIOUS
<1>7. n # 0 => b = <<c>>
  OBVIOUS
<1> HIDE DEF n, a, c, S, b, w
<1>8. ASSUME NEW t \in Seq(S)
      PROVE  LoadString(a \o t, flag)
               = AsLoaded(IF n = 0 THEN Read(EmptyText, t) ELSE LoadChunk(t, n), flag, FALSE)
  <2>1. LoadLen(a \o t) = IsLength(n, t)
    BY <1>3
  <2> QED
    BY <2>1, StringOfLength
<1>9. LoadString(w, flag) = Read(Loaded(str, flag, FALSE), << >>)
  <2>1. LoadString(w, flag) = AsLoaded(IF n = 0 THEN Read(EmptyText, b) ELSE LoadChunk(b, n), flag, FALSE)
    BY <1>1, <1>2, <1>8
  <2>2. LoadString(w, flag) = AsLoaded(Read(str, << >>), flag, FALSE)
    BY <1>4, <1>6, <1>7, <2>1
  <2> QED
    BY <2>2, AsLoadedText
<1>10. ASSUME NEW p \in StrictPrefixes(w) PROVE LoadString(p, flag) = Failed
  <2>1. p \in StrictPrefixes(a) \/ \E q \in StrictPrefixes(b) : p = a \o q
    <3>1. StartsIn(p, a, b)
      BY <1>1, <1>2, <1>3, ConcatPrefix
    <3> QED
      BY <3>1 DEF StartsIn
  <2>2. CASE p \in StrictPrefixes(a)
    BY <1>3, <2>2, StringOfFailed
  <2>3. ASSUME NEW q \in StrictPrefixes(b), p = a \o q PROVE LoadString(p, flag) = Failed
    <3>1. q = << >> /\ n # 0 /\ << >> \in Seq(S)
      BY <1>5
    <3>2. LoadString(a \o << >>, flag)
            = AsLoaded(IF n = 0 THEN Read(EmptyText, << >>) ELSE LoadChunk(<< >>, n), flag, FALSE)
      BY <1>8, <3>1
    <3>3. LoadString(p, flag) = AsLoaded(Failed, flag, FALSE)
      BY <1>4, <2>3, <3>1, <3>2
    <3> QED
      BY <3>3, AsLoadedFailed
  <2> QED
    BY <2>1, <2>2, <2>3
<1> QED
  BY <1>9, <1>10 DEF ComesBack, w

\* The parts of a compressed string after its mark.
LEMMA LzfParts ==
  ASSUME NEW S, Nat \subseteq S, NEW x, NEW y, Size(x), Size(y), NEW t \in Seq(S)
  PROVE  /\ LoadLzf(SaveLen(x) \o (SaveLen(y) \o t))
              = LET c == LoadChunk(t, x)
                IN IF ~c.ok THEN Failed ELSE IF c.val.len # y THEN Failed ELSE c
         /\ \A p \in StrictPrefixes(SaveLen(x)) : LoadLzf(p) = Failed
         /\ \A p \in StrictPrefixes(SaveLen(y)) : LoadLzf(SaveLen(x) \o p) = Failed
<1> DEFINE a == SaveLen(x)
           b == SaveLen(y)
<1>1. /\ a \in Seq(S) /\ b \in Seq(S)
      /\ \A u \in Seq(S) : LoadLen(a \o u) = IsLength(x, u) /\ LoadLen(b \o u) = IsLength(y, u)
      /\ \A p \in StrictPrefixes(a) : LoadLen(p) = Failed
      /\ \A p \in StrictPrefixes(b) : LoadLen(p) = Failed
  BY LengthBack
<1> HIDE DEF a, b
<1>2. LoadLen(b \o t) = IsLength(y, t) /\ b \o t \in Seq(S)
  BY <1>1, ConcatFacts
<1>3. LoadLen(a \o (b \o t)) = IsLength(x, b \o t)
  BY <1>1, <1>2
<1>4. LoadLzf(a \o (b \o t)) = LET c == LoadChunk(t, x)
                               IN IF ~c.ok THEN Failed ELSE IF c.val.len # y THEN Failed ELSE c
  BY <1>2, <1>3 DEF LoadLzf, IsLength
<1>5. \A p \in StrictPrefixes(a) : LoadLzf(p) = Failed
  BY <1>1 DEF LoadLzf, Failed
<1>6. ASSUME NEW p \in StrictPrefixes(b) PROVE LoadLzf(a \o p) = Failed
  <2>1. p \in Seq(S) /\ LoadLen(p) = Failed
    BY <1>1, PrefixFacts
  <2>2. LoadLen(a \o p) = IsLength(x, p)
    BY <1>1, <2>1
  <2> QED
    BY <2>1, <2>2 DEF LoadLzf, IsLength, Failed
<1> QED
  BY <1>4, <1>5, <1>6 DEF a, b

LEMMA LzfBack ==
  ASSUME NEW str, Size(str.len), Size(str.packed), NEW flag
  PROVE  ComesBack(LzfBlob(str), str, flag, FALSE)
<1> DEFINE x == str.packed
           y == str.len
           f == First(3, LZF)
           h == <<f>>
           a == SaveLen(x)
           b == SaveLen(y)
           c == Chunk(str, x)
           z == <<c>>
           S == Nat \cup {c}
           w == LzfBlob(str)
<1>1. Nat \subseteq S /\ z \in Seq(S)
  OBVIOUS
<1>2. LoadChunk(z, x) = Read(str, << >>) /\ LoadChunk(<< >>, x) = Failed
      /\ \A p \in StrictPrefixes(z) : p = << >>
  BY ChunkBack
<1>3. w = ((h \o a) \o b) \o z
  BY DEF LzfBlob
<1>4. /\ h \in Seq(S) /\ Len(h) = 1
      /\ \A t \in Seq(S) : LoadLen(h \o t) = [ok |-> TRUE, val |-> 3, encoded |-> TRUE, rest |-> t]
  <2> HIDE DEF S
  <2>1. 3 \in 0 .. 3 /\ LZF = 3 /\ << >> \in Seq(S)
    BY DEF LZF
  <2> QED
    BY <1>1, <2>1, MarkBack
<1>5. Size(x) /\ Size(y)
  OBVIOUS
<1> HIDE DEF x, y, f, h, c, z, S, w
<1>6. a \in Seq(S) /\ b \in Seq(S)
  <2>1. << >> \in Seq(S)
    OBVIOUS
  <2> QED
    BY <1>1, <1>5, <2>1, LengthBack
<1>7. \A t \in Seq(S) : LoadLzf(a \o (b \o t))
                          = LET e == LoadChunk(t, x)
                            IN IF ~e.ok THEN Failed ELSE IF e.val.len # y THEN Failed ELSE e
  BY <1>1, <1>5, LzfParts
<1>8. /\ \A p \in StrictPrefixes(a) : LoadLzf(p) = Failed
      /\ \A p \in StrictPrefixes(b) : LoadLzf(a \o p) = Failed
  BY <1>1, <1>5, LzfParts
<1> HIDE DEF a, b
<1>9. b \o z \in Seq(S) /\ a \o (b \o z) \in Seq(S) /\ h \o a \in Seq(S)
  <2>1. b \o z \in Seq(S) /\ h \o a \in Seq(S)
    BY <1>1, <1>4, <1>6, ConcatFacts
  <2> QED
    BY <1>6, <2>1, ConcatFacts
<1> DEFINE bz == b \o z
           abz == a \o bz
<1>10. w = h \o abz
  <2>1. (h \o a) \o (b \o z) = ((h \o a) \o b) \o z
    <3> DEFINE g == h \o a
    <3>1. g \in Seq(S) /\ b \in Seq(S) /\ z \in Seq(S)
      BY <1>1, <1>6, <1>9
    <3> HIDE DEF g
    <3>2. (g \o b) \o z = g \o (b \o z)
      BY <3>1, ConcatAssoc
    <3> QED
      BY <3>2 DEF g
  <2>2. bz \in Seq(S)
    BY <1>9
  <2>3. (h \o a) \o bz = ((h \o a) \o b) \o z
    BY <2>1
  <2> HIDE DEF bz
  <2>4. (h \o a) \o bz = h \o (a \o bz)
    <3>1. h \in Seq(S) /\ a \in Seq(S) /\ bz \in Seq(S)
      BY <1>4, <1>6, <2>2
    <3> QED
      BY <3>1, ConcatAssoc
  <2>5. w = (h \o a) \o bz
    BY <1>3, <2>3
  <2>6. w = h \o (a \o bz)
    BY <2>4, <2>5
  <2> QED
    BY <2>6
<1>10a. bz \in Seq(S) /\ abz \in Seq(S) /\ bz = b \o z /\ abz = a \o bz
  BY <1>9
<1> HIDE DEF bz, abz
<1>11. \A t \in Seq(S) : LoadString(h \o t, flag) = AsLoaded(LoadLzf(t), flag, FALSE)
  BY <1>4, StringOfLzf
<1>12. LoadString(w, flag) = Read(Loaded(str, flag, FALSE), << >>)
  <2>1. Read(str, << >>).ok /\ Read(str, << >>).val.len = y
    BY DEF Read, y
  <2>2. LoadLzf(abz) = Read(str, << >>)
    BY <1>1, <1>2, <1>7, <1>10a, <2>1
  <2>3. LoadString(w, flag) = AsLoaded(Read(str, << >>), flag, FALSE)
    BY <1>10, <1>10a, <1>11, <2>2
  <2> QED
    BY <2>3, AsLoadedText
<1>13. ASSUME NEW p \in StrictPrefixes(w) PROVE LoadString(p, flag) = Failed
  <2>1. p \in StrictPrefixes(h) \/ \E q \in StrictPrefixes(abz) : p = h \o q
    <3>1. h \in Seq(S) /\ abz \in Seq(S) /\ p \in StrictPrefixes(h \o abz)
      BY <1>4, <1>10, <1>10a
    <3>2. StartsIn(p, h, abz)
      BY <3>1, ConcatPrefix
    <3> QED
      BY <3>2 DEF StartsIn
  <2>2. CASE p \in StrictPrefixes(h)
    <3>1. p \in Seq(S) /\ Len(p) < Len(h)
      BY <1>4, <2>2, PrefixFacts
    <3>2. p = << >>
      BY <1>4, <3>1
    <3> QED
      BY <3>2, NoLength, StringOfFailed
  <2>3. ASSUME NEW q \in StrictPrefixes(abz), p = h \o q PROVE LoadString(p, flag) = Failed
    <3>1. q \in Seq(S)
      BY <1>10a, PrefixFacts
    <3>2. LoadLzf(q) = Failed
      <4>1. q \in StrictPrefixes(a) \/ \E r \in StrictPrefixes(bz) : q = a \o r
        <5>1. a \in Seq(S) /\ bz \in Seq(S) /\ q \in StrictPrefixes(a \o bz)
          BY <1>6, <1>10a
        <5>2. StartsIn(q, a, bz)
          BY <5>1, ConcatPrefix
        <5> QED
          BY <5>2 DEF StartsIn
      <4>2. ASSUME NEW r \in StrictPrefixes(bz), q = a \o r PROVE LoadLzf(q) = Failed
        <5>1. r \in StrictPrefixes(b) \/ \E u \in StrictPrefixes(z) : r = b \o u
          <6>1. b \in Seq(S) /\ z \in Seq(S) /\ r \in StrictPrefixes(b \o z)
            BY <1>1, <1>6, <1>10a
          <6>2. StartsIn(r, b, z)
            BY <6>1, ConcatPrefix
          <6> QED
            BY <6>2 DEF StartsIn
        <5>2. ASSUME NEW u \in StrictPrefixes(z), r = b \o u PROVE LoadLzf(q) = Failed
          <6>1. u = << >> /\ << >> \in Seq(S)
            BY <1>2
          <6>2. q = a \o (b \o << >>)
            BY <4>2, <5>2, <6>1
          <6>3. LoadLzf(q) = LET e == LoadChunk(<< >>, x)
                             IN IF ~e.ok THEN Failed ELSE IF e.val.len # y THEN Failed ELSE e
            BY <1>7, <6>1, <6>2
          <6>4. ~Failed.ok
            BY DEF Failed
          <6> QED
            BY <1>2, <6>3, <6>4
        <5> QED
          BY <1>8, <4>2, <5>1, <5>2
      <4> QED
        BY <1>8, <4>1, <4>2
    <3> QED
      BY <1>11, <2>3, <3>1, <3>2, AsLoadedFailed
  <2> QED
    BY <2>1, <2>2, <2>3
<1> QED
  BY <1>12, <1>13 DEF ComesBack, w

LEMMA StringBack ==
  ASSUME NEW o, IsText(o.str), o.encoding = "int" => o.str.int, NEW compression, NEW flag
  PROVE  \E number \in BOOLEAN : /\ number => o.str.int
                                 /\ ComesBack(SaveString(o, compression), o.str, flag, number)
<1> DEFINE str == o.str
           w == SaveString(o, compression)
<1>1. \/ str.int /\ w = EncodeInteger(str.val) /\ w # << >>
      \/ ~str.int /\ w = LzfBlob(str)
      \/ w = Verbatim(str)
  BY DEF SaveString, SaveRawString
<1> HIDE DEF str, w
<1>2. IsText(str)
  BY DEF str
<1>3. CASE str.int /\ w = EncodeInteger(str.val) /\ w # << >>
  <2>1. str.val \in Int /\ str = IntText(str.val)
    BY <1>2, <1>3, TextSizes
  <2>2. \E e, k : Encoded(str.val, e, k, w)
    BY <1>3, <2>1, EncodeCases
  <2>3. ComesBack(w, str, flag, TRUE)
    BY <2>1, <2>2, IntStringBack
  <2> QED
    BY <1>3, <2>3 DEF str, w
<1>4. CASE ~str.int /\ w = LzfBlob(str)
  <2>1. Size(str.len) /\ Size(str.packed)
    BY <1>2, <1>4, TextSizes
  <2>2. ComesBack(w, str, flag, FALSE)
    BY <1>4, <2>1, LzfBack
  <2> QED
    BY <2>2 DEF str, w
<1>5. CASE w = Verbatim(str)
  <2>1. Size(str.len) /\ (str.len = 0 => str = EmptyText)
    BY <1>2, TextSizes
  <2>2. ComesBack(w, str, flag, FALSE)
    BY <1>5, <2>1, VerbatimBack
  <2> QED
    BY <2>2 DEF str, w
<1> QED
  BY <1>1, <1>3, <1>4, <1>5
-----------------------------------------------------------------------------
(* Doubles.                                                                *)

LEMMA DoubleBack ==
  ASSUME NEW d, d.len \in 0 .. Byte - 4
  PROVE  /\ LoadDouble(SaveDouble(d)) = Read(d, << >>)
         /\ \A p \in StrictPrefixes(SaveDouble(d)) : LoadDouble(p) = Failed
<1>1. PICK b \in Nat \ {0} : b = Byte /\ b >= 16
  BY ByteFacts
<1>2. LoadDouble(<< >>) = Failed
  BY DEF LoadDouble
<1>3. CASE \E i \in 1 .. 3 : Special[i] = d
  <2> DEFINE j == CHOOSE i \in 1 .. 3 : Special[4 - i] = d
             e == b - j
             w == <<e>>
  <2>1. j \in 1 .. 3 /\ Special[4 - j] = d
    <3>1. PICK i \in 1 .. 3 : Special[i] = d
      BY <1>3
    <3>2. 4 - i \in 1 .. 3 /\ 4 - (4 - i) = i
      OBVIOUS
    <3>3. \E k \in 1 .. 3 : Special[4 - k] = d
      BY <3>1, <3>2
    <3> QED
      BY <3>3
  <2>2. SaveDouble(d) = w
    BY <1>1, <1>3 DEF SaveDouble
  <2> HIDE DEF j
  <2>3. e \in Nat /\ e >= b - 3 /\ e - (b - 4) = 4 - j
    BY <1>1, <2>1
  <2> HIDE DEF e
  <2>4. w \in Seq(Nat) /\ w # << >> /\ Head(w) = e /\ Tail(w) = << >> /\ Len(w) = 1
    BY <2>3
  <2> HIDE DEF w
  <2>5. LoadDouble(w) = IF e >= b - 3 THEN Read(Special[e - (b - 4)], << >>) ELSE LoadChunk(<< >>, e)
    BY <1>1, <2>4 DEF LoadDouble
  <2>6. LoadDouble(w) = Read(d, << >>)
    BY <2>1, <2>3, <2>5
  <2>7. ASSUME NEW p \in StrictPrefixes(w) PROVE p = << >>
    <3>1. p \in Seq(Nat) /\ Len(p) < Len(w)
      BY <2>4, PrefixFacts
    <3> QED
      BY <2>4, <3>1
  <2> QED
    BY <1>2, <2>2, <2>6, <2>7
<1>4. CASE ~\E i \in 1 .. 3 : Special[i] = d
  <2> DEFINE n == d.len
             c == Chunk(d, n)
             S == Nat \cup {c}
             w == <<n, c>>
             z == <<c>>
  <2>1. SaveDouble(d) = w
    BY <1>4 DEF SaveDouble
  <2>2. n \in Nat /\ ~(n >= b - 3)
    BY <1>1
  <2>3. LoadChunk(z, n) = Read(d, << >>) /\ LoadChunk(<< >>, n) = Failed
    BY ChunkBack
  <2>4. c \in S /\ n \in S /\ Nat \subseteq S
    BY <2>2
  <2> HIDE DEF c, S, n
  <2>5. w \in Seq(S) /\ w # << >> /\ Head(w) = n /\ Tail(w) = z /\ Len(w) = 2 /\ w[1] = n
    BY <2>4
  <2> HIDE DEF w, z
  <2>6. \A s : s # << >> /\ Head(s) = n => LoadDouble(s) = LoadChunk(Tail(s), n)
    BY <1>1, <2>2 DEF LoadDouble
  <2>7. LoadDouble(w) = Read(d, << >>)
    BY <2>3, <2>5, <2>6
  <2>8. ASSUME NEW p \in StrictPrefixes(w) PROVE LoadDouble(p) = Failed
    <3>1. p \in Seq(S) /\ Len(p) < Len(w) /\ \A i \in 1 .. Len(p) : p[i] = w[i]
      BY <2>5, PrefixFacts
    <3>2. CASE p = << >>
      BY <1>2, <3>2
    <3>3. CASE p # << >>
      <4>0. PICK m \in Nat : m = Len(p) /\ m # 0 /\ m < 2
        BY <2>5, <3>1, <3>3
      <4>1. Len(p) = 1
        BY <4>0
      <4>2. Head(p) = n /\ Tail(p) = << >>
        BY <2>5, <3>1, <4>1
      <4> QED
        BY <2>3, <2>6, <3>3, <4>2
    <3> QED
      BY <3>2, <3>3
  <2> QED
    BY <2>1, <2>7, <2>8
<1> QED
  BY <1>3, <1>4

-----------------------------------------------------------------------------
(* The calls of the functions on bytes.                                    *)

\* What a function that writes bytes returns, and on what.
BytesOf(fn, x) ==
  CASE fn = "length" -> SaveLen(x)
    [] fn = "number" -> EncodeInteger(x)
    [] fn = "string" -> SaveString(x.o, x.compression)
    [] fn = "double" -> SaveDouble(x)
BytesIn(fn) ==
  CASE fn = "length" -> Lengths
    [] fn = "number" -> Numbers
    [] fn = "string" -> Strings
    [] fn = "double" -> Doubles
BytesFns == {"length", "number", "string", "double"}
BytesInv ==
  /\ call = [fn |-> call.fn, in |-> call.in, out |-> call.out]
  /\ call.fn \in BytesFns => /\ call.in \in BytesIn(call.fn)
                             /\ call.out \in {<< >>, <<BytesOf(call.fn, call.in)>>}

LEMMA BytesCalls ==
  ASSUME NEW fn, NEW inputs, call \in Call(fn, inputs), fn \in BytesFns => inputs = BytesIn(fn)
  PROVE  BytesInv
<1>1. PICK x \in inputs : call = [fn |-> fn, in |-> x, out |-> << >>]
  BY DEF Call
<1>2. call.fn = fn /\ call.in = x /\ call.out = << >>
  BY <1>1
<1> QED
  BY <1>1, <1>2 DEF BytesInv

LEMMA BytesInvInit == CallInit => BytesInv
<1> DEFINE dumps == {[server |-> s, loader |-> l] : s \in Servers, l \in Loaders}
           lfu == [count : 0 .. MaxCount, at : Clocks, now : Clocks, decay : Decays]
<1> SUFFICES ASSUME CallInit PROVE BytesInv
  OBVIOUS
<1>1. \/ call \in Call("length", Lengths) \/ call \in Call("number", Numbers)
      \/ call \in Call("string", Strings) \/ call \in Call("double", Doubles)
      \/ call \in Call("dump", dumps)
      \/ call \in Call("keys", Forms) \/ call \in Call("channels", ChannelForms)
      \/ call \in Call("lfu", lfu)
  BY DEF CallInit
<1> HIDE DEF dumps, lfu
<1>2. /\ BytesIn("length") = Lengths /\ BytesIn("number") = Numbers
      /\ BytesIn("string") = Strings /\ BytesIn("double") = Doubles
  BY DEF BytesIn
<1>3. "dump" \notin BytesFns /\ "keys" \notin BytesFns /\ "channels" \notin BytesFns /\ "lfu" \notin BytesFns
  BY DEF BytesFns
<1> QED
  BY <1>1, <1>2, <1>3, BytesCalls

LEMMA ReturnKeepsBytesInv ==
  ASSUME BytesInv, NEW fn, NEW result, Return(fn, result),
         fn \in BytesFns => result = BytesOf(fn, call.in)
  PROVE  BytesInv'
<1>1. call' = [fn |-> call.fn, in |-> call.in, out |-> <<result>>] /\ call.fn = fn
  BY DEF BytesInv, Return
<1>2. call'.fn = call.fn /\ call'.in = call.in /\ call'.out = <<result>>
  BY <1>1
<1>3. CASE fn \in BytesFns
  <2>1. call'.out = <<BytesOf(call'.fn, call'.in)>>
    BY <1>1, <1>2, <1>3
  <2> QED
    BY <1>1, <1>2, <1>3, <2>1 DEF BytesInv
<1>4. CASE fn \notin BytesFns
  BY <1>1, <1>2, <1>4 DEF BytesInv
<1> QED
  BY <1>3, <1>4

LEMMA BytesInvStep == BytesInv /\ [CallNext]_call => BytesInv'
<1> SUFFICES ASSUME BytesInv, [CallNext]_call PROVE BytesInv'
  OBVIOUS
<1>1. /\ \A x : BytesOf("length", x) = SaveLen(x)
      /\ \A x : BytesOf("number", x) = EncodeInteger(x)
      /\ \A x : BytesOf("string", x) = SaveString(x.o, x.compression)
      /\ \A x : BytesOf("double", x) = SaveDouble(x)
  BY DEF BytesOf
<1>2. "dump" \notin BytesFns /\ "keys" \notin BytesFns /\ "channels" \notin BytesFns /\ "lfu" \notin BytesFns
  BY DEF BytesFns
<1>3. CASE ReturnLength
  BY <1>1, <1>3, ReturnKeepsBytesInv DEF ReturnLength
<1>4. CASE ReturnNumber
  BY <1>1, <1>4, ReturnKeepsBytesInv DEF ReturnNumber
<1>5. CASE ReturnString
  BY <1>1, <1>5, ReturnKeepsBytesInv DEF ReturnString
<1>6. CASE ReturnDouble
  BY <1>1, <1>6, ReturnKeepsBytesInv DEF ReturnDouble
<1>7. CASE ReturnDump
  BY <1>2, <1>7, ReturnKeepsBytesInv DEF ReturnDump
<1>8. CASE ReturnKeys
  BY <1>2, <1>8, ReturnKeepsBytesInv DEF ReturnKeys
<1>9. CASE ReturnChannels
  BY <1>2, <1>9, ReturnKeepsBytesInv DEF ReturnChannels
<1>10. CASE ReturnLfu
  <2>1. PICK result : Return("lfu", result)
    BY <1>10 DEF ReturnLfu
  <2> QED
    BY <1>2, <2>1, ReturnKeepsBytesInv
<1>11. CASE UNCHANGED call
  BY <1>11 DEF BytesInv
<1> QED
  BY <1>3, <1>4, <1>5, <1>6, <1>7, <1>8, <1>9, <1>10, <1>11 DEF CallNext

\* A returned call of one of them.
LEMMA BytesReturned ==
  ASSUME BytesInv, NEW fn \in BytesFns, Returned(fn)
  PROVE  call.in \in BytesIn(fn) /\ Out = BytesOf(fn, call.in)
BY DEF BytesInv, Returned, Out

LEMMA SamePrefixes == \A s : StrictPrefixes(s) = StrictPrefixes(s)
BY DEF StrictPrefixes, StrictPrefixes

LEMMA LengthsBack == BytesInv => LengthsComeBack
<1> SUFFICES ASSUME BytesInv, Returned("length")
             PROVE  /\ LoadLen(Out) = [ok |-> TRUE, val |-> call.in, encoded |-> FALSE, rest |-> << >>]
                    /\ \A p \in StrictPrefixes(Out) : ~LoadLen(p).ok
  BY DEF LengthsComeBack
<1>1. call.in \in Lengths /\ Out = SaveLen(call.in)
  <2>1. "length" \in BytesFns /\ BytesIn("length") = Lengths /\ BytesOf("length", call.in) = SaveLen(call.in)
    BY DEF BytesFns, BytesIn, BytesOf
  <2> QED
    BY <2>1, BytesReturned
<1>2. Size(call.in)
  BY <1>1, LengthSize, BytesInputsAssumption
<1> DEFINE w == SaveLen(call.in)
<1>3. << >> \in Seq(Nat) /\ Nat \subseteq Nat
  OBVIOUS
<1>4. /\ w \in Seq(Nat) /\ LoadLen(w \o << >>) = IsLength(call.in, << >>)
      /\ \A p \in StrictPrefixes(w) : LoadLen(p) = Failed
  BY <1>2, <1>3, LengthBack
<1> HIDE DEF w
<1>5. w \o << >> = w
  BY <1>4
<1>6. LoadLen(w) = [ok |-> TRUE, val |-> call.in, encoded |-> FALSE, rest |-> << >>]
  BY <1>4, <1>5 DEF IsLength
<1>7. ~Failed.ok
  BY DEF Failed
<1> QED
  BY <1>1, <1>4, <1>6, <1>7, SamePrefixes DEF w

LEMMA IntegersBack == BytesInv => IntegersComeBack
<1> SUFFICES ASSUME BytesInv, Returned("number")
             PROVE  IF Out = << >> THEN ~Fits(call.in, 4)
                    ELSE /\ LoadLen(Out).ok /\ LoadLen(Out).encoded
                         /\ LoadInteger(LoadLen(Out).val, LoadLen(Out).rest) = Read(call.in, << >>)
                         /\ \A k \in {1, 2} : Fits(call.in, k) => Len(Out) <= k + 1
  BY DEF IntegersComeBack
<1>1. call.in \in Numbers /\ Out = EncodeInteger(call.in)
  <2>1. /\ "number" \in BytesFns /\ BytesIn("number") = Numbers
        /\ BytesOf("number", call.in) = EncodeInteger(call.in)
    BY DEF BytesFns, BytesIn, BytesOf
  <2> QED
    BY <2>1, BytesReturned
<1>2. PICK v \in Int : v = call.in
  BY <1>1, BytesInputsAssumption
<1> DEFINE w == EncodeInteger(v)
<1>3. \/ w = << >> /\ ~Fits(v, 4)
      \/ Encoded(v, 0, 1, w)
      \/ Encoded(v, 1, 2, w) /\ ~Fits(v, 1)
      \/ Encoded(v, 2, 4, w) /\ ~Fits(v, 1) /\ ~Fits(v, 2)
  BY EncodeCases
<1> HIDE DEF w
<1>4. ASSUME NEW e, NEW k, Encoded(v, e, k, w)
      PROVE  /\ w # << >> /\ Len(w) = k + 1 /\ LoadLen(w).ok /\ LoadLen(w).encoded
             /\ LoadInteger(LoadLen(w).val, LoadLen(w).rest) = Read(v, << >>)
  BY <1>4, IntegerBack
<1>5. CASE w = << >> /\ ~Fits(v, 4)
  BY <1>1, <1>2, <1>5 DEF w
<1>6. CASE w # << >>
  <2>1. /\ LoadLen(w).ok /\ LoadLen(w).encoded
        /\ LoadInteger(LoadLen(w).val, LoadLen(w).rest) = Read(v, << >>)
    BY <1>3, <1>4, <1>6
  <2>2. ASSUME NEW k \in {1, 2}, Fits(v, k) PROVE Len(w) <= k + 1
    <3>1. CASE Encoded(v, 0, 1, w)
      <4>1. Len(w) = 1 + 1
        BY <1>4, <3>1
      <4> QED
        BY <4>1
    <3>2. CASE Encoded(v, 1, 2, w) /\ ~Fits(v, 1)
      <4>1. Len(w) = 2 + 1
        BY <1>4, <3>2
      <4>2. k = 2
        BY <2>2, <3>2
      <4> QED
        BY <4>1, <4>2
    <3>3. CASE ~Fits(v, 1) /\ ~Fits(v, 2)
      BY <2>2, <3>3
    <3> QED
      BY <1>3, <1>6, <3>1, <3>2, <3>3
  <2> QED
    BY <1>1, <1>2, <1>6, <2>1, <2>2 DEF w
<1> QED
  BY <1>3, <1>4, <1>5, <1>6

LEMMA StringsBack == BytesInv => StringsComeBack
<1> SUFFICES ASSUME BytesInv
             PROVE  /\ Returned("string") =>
                         LET back == LoadString(Out, call.in.flag)
                         IN /\ back.ok /\ back.rest = << >>
                            /\ back.val.str = call.in.o.str
                            /\ back.val.encoding = "int" => call.in.flag = "enc" /\ call.in.o.str.int
                            /\ call.in.flag \in {"plain", "sds"} <=> back.val.encoding = "none"
                            /\ \A p \in StrictPrefixes(Out) : ~LoadString(p, call.in.flag).ok
                    /\ Returned("double") => /\ LoadDouble(Out) = Read(call.in, << >>)
                                             /\ \A p \in StrictPrefixes(Out) : ~LoadDouble(p).ok
  BY DEF StringsComeBack
<1>1. ~Failed.ok
  BY DEF Failed
<1>2. ASSUME Returned("string")
      PROVE  LET back == LoadString(Out, call.in.flag)
             IN /\ back.ok /\ back.rest = << >>
                /\ back.val.str = call.in.o.str
                /\ back.val.encoding = "int" => call.in.flag = "enc" /\ call.in.o.str.int
                /\ call.in.flag \in {"plain", "sds"} <=> back.val.encoding = "none"
                /\ \A p \in StrictPrefixes(Out) : ~LoadString(p, call.in.flag).ok
  <2> DEFINE c == call.in
  <2>1. c \in Strings /\ Out = SaveString(c.o, c.compression)
    <3>1. /\ "string" \in BytesFns /\ BytesIn("string") = Strings
          /\ BytesOf("string", c) = SaveString(c.o, c.compression)
      BY DEF BytesFns, BytesIn, BytesOf
    <3> QED
      BY <1>2, <3>1, BytesReturned
  <2>2. IsText(c.o.str) /\ (c.o.encoding = "int" => c.o.str.int)
    BY <2>1, BytesInputsAssumption
  <2> HIDE DEF c
  <2>3. PICK n \in BOOLEAN : /\ n => c.o.str.int
                             /\ ComesBack(SaveString(c.o, c.compression), c.o.str, c.flag, n)
    BY <2>2, StringBack
  <2>4. /\ LoadString(Out, c.flag) = Read(Loaded(c.o.str, c.flag, n), << >>)
        /\ \A p \in StrictPrefixes(Out) : LoadString(p, c.flag) = Failed
    BY <2>1, <2>3 DEF ComesBack
  <2> DEFINE l == Loaded(c.o.str, c.flag, n)
  <2>5. l.str = c.o.str /\ l.encoding = (IF c.flag \in {"plain", "sds"} THEN "none"
                                         ELSE IF c.flag = "enc" /\ n THEN "int" ELSE "raw")
    BY DEF Loaded
  <2> HIDE DEF l
  <2>6. l.encoding = "int" => c.flag = "enc" /\ c.o.str.int
    BY <2>3, <2>5
  <2>7. c.flag \in {"plain", "sds"} <=> l.encoding = "none"
    BY <2>5
  <2>8. Read(l, << >>).ok /\ Read(l, << >>).rest = << >> /\ Read(l, << >>).val = l
    BY DEF Read
  <2>9. LoadString(Out, c.flag) = Read(l, << >>)
    BY <2>4 DEF l
  <2>10. \A p \in StrictPrefixes(Out) : ~LoadString(p, c.flag).ok
    BY <1>1, <2>4, SamePrefixes
  <2> QED
    BY <2>5, <2>6, <2>7, <2>8, <2>9, <2>10 DEF c
<1>3. ASSUME Returned("double")
      PROVE  /\ LoadDouble(Out) = Read(call.in, << >>)
             /\ \A p \in StrictPrefixes(Out) : ~LoadDouble(p).ok
  <2>1. call.in \in Doubles /\ Out = SaveDouble(call.in)
    <3>1. /\ "double" \in BytesFns /\ BytesIn("double") = Doubles
          /\ BytesOf("double", call.in) = SaveDouble(call.in)
      BY DEF BytesFns, BytesIn, BytesOf
    <3> QED
      BY <1>3, <3>1, BytesReturned
  <2>2. PICK d : d = call.in /\ d.len \in 0 .. Byte - 4
    BY <2>1, BytesInputsAssumption
  <2>3. /\ LoadDouble(SaveDouble(d)) = Read(d, << >>)
        /\ \A p \in StrictPrefixes(SaveDouble(d)) : LoadDouble(p) = Failed
    BY <2>2, DoubleBack
  <2> QED
    BY <1>1, <2>1, <2>2, <2>3, SamePrefixes
<1> QED
  BY <1>2, <1>3

(***************************************************************************)
(* Whatever the lengths, integers, strings and doubles, with bytes of any  *)
(* size from four bits, the dump's encodings come back as what they were   *)
(* written from, and no part of them as anything (rdb.c:171-631).          *)
(***************************************************************************)
THEOREM EncodingsComeBackCorrect == CallSpec => []EncodingsComeBack
<1>1. BytesInv => EncodingsComeBack
  BY LengthsBack, IntegersBack, StringsBack DEF EncodingsComeBack
<1> QED
  BY <1>1, BytesInvInit, BytesInvStep, PTL DEF CallSpec
-----------------------------------------------------------------------------
(* Objects and references.                                                 *)

Heaps == UNION {[D -> Objects] : D \in {E \in SUBSET (Nat \ {0}) : IsFiniteSet(E)}}

\* The count of an object, and how much one place counts.
RefOf(h, i) == IF i \in DOMAIN h THEN h[i].ref ELSE 0
Hit(i, j) == IF i = j THEN 1 ELSE 0

\* In g the counts of h, with one place that held id and now holds jd.
Passed(h, g, id, jd) ==
  \A i \in Nat \ {0} : RefOf(g, i) = RefOf(h, i) - Hit(id, i) + Hit(jd, i)

LEMMA HeapFields ==
  ASSUME NEW h \in Heaps
  PROVE  /\ DOMAIN h \subseteq Nat \ {0} /\ IsFiniteSet(DOMAIN h) /\ h \in [DOMAIN h -> Objects]
         /\ \A i \in DOMAIN h : h[i] \in Objects /\ h[i].ref \in Nat \ {0}
         /\ \A i \in Nat \ {0} : RefOf(h, i) \in Nat /\ (RefOf(h, i) = 0 <=> i \notin DOMAIN h)
<1>1. PICK D \in SUBSET (Nat \ {0}) : IsFiniteSet(D) /\ h \in [D -> Objects]
  BY DEF Heaps
<1>2. DOMAIN h = D
  BY <1>1
<1>3. \A i \in D : h[i] \in Objects /\ h[i].ref \in Nat \ {0}
  BY <1>1 DEF Objects
<1> QED
  BY <1>1, <1>2, <1>3 DEF RefOf

LEMMA IsHeap ==
  ASSUME NEW D, IsFiniteSet(D), D \subseteq Nat \ {0}, NEW h \in [D -> Objects]
  PROVE  h \in Heaps
  BY DEF Heaps

\* There is always an id for a new object.
LEMMA FreshId ==
  ASSUME NEW h \in Heaps
  PROVE  Min(Ids(h) \ DOMAIN h) \in Nat \ {0} /\ Min(Ids(h) \ DOMAIN h) \notin DOMAIN h
<1> DEFINE n == Cardinality(DOMAIN h)
           S == Ids(h) \ DOMAIN h
<1>1. n \in Nat /\ IsFiniteSet(DOMAIN h)
  BY HeapFields, FS_CardinalityType
<1>2. S # {}
  <2> SUFFICES ASSUME Ids(h) \subseteq DOMAIN h PROVE FALSE
    OBVIOUS
  <2>1. Cardinality(Ids(h)) = n + 1
    <3>1. \A m \in Int : Cardinality(1 .. m) = IF 1 > m THEN 0 ELSE m - 1 + 1
      BY FS_Interval
    <3>2. Ids(h) = 1 .. n + 1
      BY DEF Ids
    <3> HIDE DEF n
    <3> QED
      BY <1>1, <3>1, <3>2
  <2>2. Cardinality(Ids(h)) <= n
    BY <1>1, FS_Subset
  <2> QED
    BY <1>1, <2>1, <2>2
<1>3. S \subseteq Nat \ {0}
  BY <1>1 DEF Ids
<1>4. PICK m \in S : \A k \in S : ~(k < m)
  BY <1>2, <1>3, LeastOf
<1>5. \E x \in S : \A y \in S : x <= y
  BY <1>3, <1>4
<1>6. Min(S) \in S
  BY <1>5 DEF Min
<1> QED
  BY <1>3, <1>6

LEMMA CreatedFacts ==
  ASSUME NEW h \in Heaps, NEW o \in Objects, o.ref = 1, NEW c, c = Created(h, o)
  PROVE  /\ c.heap \in Heaps /\ c.id \in Nat \ {0} /\ c.id \notin DOMAIN h
         /\ DOMAIN c.heap = DOMAIN h \cup {c.id} /\ c.heap[c.id] = o
         /\ \A i \in DOMAIN h : c.heap[i] = h[i]
         /\ \A i \in Nat \ {0} : RefOf(c.heap, i) = RefOf(h, i) + Hit(c.id, i)
<1> DEFINE id == Min(Ids(h) \ DOMAIN h)
           g == [i \in DOMAIN h \cup {id} |-> IF i = id THEN o ELSE h[i]]
<1>1. c.heap = g /\ c.id = id
  BY DEF Created, With
<1>2. id \in Nat \ {0} /\ id \notin DOMAIN h
  BY FreshId
<1> HIDE DEF id
<1>3. g \in [DOMAIN h \cup {id} -> Objects] /\ DOMAIN h \cup {id} \subseteq Nat \ {0}
  BY <1>2, HeapFields
<1>4. IsFiniteSet(DOMAIN h \cup {id})
  BY HeapFields, FS_AddElement
<1>5. g \in Heaps
  BY <1>3, <1>4, IsHeap
<1>6. \A i \in Nat \ {0} : RefOf(g, i) = RefOf(h, i) + Hit(id, i)
  BY <1>2, HeapFields DEF RefOf, Hit
<1> QED
  BY <1>1, <1>2, <1>3, <1>5, <1>6

LEMMA IncrFacts ==
  ASSUME NEW h \in Heaps, NEW id \in Int, id \in DOMAIN h \/ IsShared(id)
  PROVE  /\ Incr(h, id) \in Heaps /\ DOMAIN Incr(h, id) = DOMAIN h
         /\ \A i \in Nat \ {0} : RefOf(Incr(h, id), i) = RefOf(h, i) + Hit(id, i)
         /\ \A i \in Int : StringOf(Incr(h, id), i) = StringOf(h, i)
         /\ \A i \in DOMAIN h : i # id => Incr(h, id)[i] = h[i]
         /\ \A i \in DOMAIN h : Incr(h, id)[i].enc = h[i].enc
<1>1. CASE IsShared(id)
  <2>1. \A i \in Nat \ {0} : Hit(id, i) = 0
    BY <1>1 DEF IsShared, Hit
  <2> QED
    BY <1>1, <2>1, HeapFields DEF Incr
<1>2. CASE ~IsShared(id)
  <2> DEFINE g == [h EXCEPT ![id].ref = @ + 1]
  <2>1. Incr(h, id) = g /\ id \in DOMAIN h
    BY <1>2 DEF Incr
  <2>2. h[id] \in Objects /\ h[id].ref \in Nat \ {0} /\ h \in [DOMAIN h -> Objects]
    BY <2>1, HeapFields
  <2>3. [h[id] EXCEPT !.ref = @ + 1] \in Objects
    BY <2>2 DEF Objects
  <2>4. g \in [DOMAIN h -> Objects]
    BY <2>2, <2>3
  <2>5. g \in Heaps
    BY <2>4, HeapFields, IsHeap
  <2>6. \A i \in Nat \ {0} : RefOf(g, i) = RefOf(h, i) + Hit(id, i)
    BY <2>1, <2>2, HeapFields DEF RefOf, Hit
  <2>7. /\ g[id].enc = h[id].enc /\ (h[id].enc = "int" => g[id].num = h[id].num)
        /\ (h[id].enc # "int" => g[id].str = h[id].str)
    BY <2>1, <2>2 DEF Objects
  <2>8. \A i \in Int : i # id => g[i] = h[i]
    BY <2>1, <2>2
  <2>9. \A i \in Int : StringOf(g, i) = StringOf(h, i)
    BY <2>7, <2>8 DEF StringOf
  <2> QED
    BY <2>1, <2>2, <2>4, <2>5, <2>6, <2>7, <2>8, <2>9
<1> QED
  BY <1>1, <1>2

LEMMA DecrFacts ==
  ASSUME NEW h \in Heaps, NEW id \in Int, id \in DOMAIN h \/ IsShared(id)
  PROVE  /\ Decr(h, id) \in Heaps /\ DOMAIN Decr(h, id) \subseteq DOMAIN h
         /\ \A i \in Nat \ {0} : RefOf(Decr(h, id), i) = RefOf(h, i) - Hit(id, i)
         /\ \A i \in DOMAIN h : RefOf(h, i) > Hit(id, i) =>
              /\ i \in DOMAIN Decr(h, id) /\ StringOf(Decr(h, id), i) = StringOf(h, i)
              /\ i # id => Decr(h, id)[i] = h[i]
              /\ Decr(h, id)[i].enc = h[i].enc
<1>1. CASE IsShared(id)
  <2>1. \A i \in Nat \ {0} : Hit(id, i) = 0
    BY <1>1 DEF IsShared, Hit
  <2>2. \A i \in DOMAIN h : i # id
    BY <1>1, HeapFields DEF IsShared
  <2> QED
    BY <1>1, <2>1, <2>2, HeapFields DEF Decr
<1>2. CASE ~IsShared(id) /\ h[id].ref = 1
  <2> DEFINE g == [i \in DOMAIN h \ {id} |-> h[i]]
  <2>1. Decr(h, id) = g /\ id \in DOMAIN h
    BY <1>2 DEF Decr
  <2>2. g \in [DOMAIN h \ {id} -> Objects] /\ DOMAIN h \ {id} \subseteq Nat \ {0}
    BY HeapFields
  <2>3. IsFiniteSet(DOMAIN h \ {id})
    BY HeapFields, FS_RemoveElement
  <2>4. g \in Heaps
    BY <2>2, <2>3, IsHeap
  <2>5. \A i \in Nat \ {0} : RefOf(g, i) = RefOf(h, i) - Hit(id, i)
    BY <1>2, <2>1, HeapFields DEF RefOf, Hit
  <2>6. ASSUME NEW i \in DOMAIN h, RefOf(h, i) > Hit(id, i)
        PROVE  i \in DOMAIN g /\ g[i] = h[i] /\ StringOf(g, i) = StringOf(h, i)
    <3>1. i # id
      BY <1>2, <2>6, HeapFields DEF RefOf, Hit
    <3>2. i \in DOMAIN g /\ g[i] = h[i]
      BY <3>1
    <3> QED
      BY <3>2 DEF StringOf
  <2> QED
    BY <2>1, <2>2, <2>4, <2>5, <2>6
<1>3. CASE ~IsShared(id) /\ h[id].ref # 1
  <2> DEFINE g == [h EXCEPT ![id].ref = @ - 1]
  <2>1. Decr(h, id) = g /\ id \in DOMAIN h
    BY <1>3 DEF Decr
  <2>2. h[id] \in Objects /\ h[id].ref \in Nat \ {0, 1} /\ h \in [DOMAIN h -> Objects]
    BY <1>3, <2>1, HeapFields
  <2>3. [h[id] EXCEPT !.ref = @ - 1] \in Objects
    BY <2>2 DEF Objects
  <2>4. g \in [DOMAIN h -> Objects]
    BY <2>2, <2>3
  <2>5. g \in Heaps
    BY <2>4, HeapFields, IsHeap
  <2>6. \A i \in Nat \ {0} : RefOf(g, i) = RefOf(h, i) - Hit(id, i)
    BY <2>1, <2>2, HeapFields DEF RefOf, Hit
  <2>7. /\ g[id].enc = h[id].enc /\ (h[id].enc = "int" => g[id].num = h[id].num)
        /\ (h[id].enc # "int" => g[id].str = h[id].str)
    BY <2>1, <2>2 DEF Objects
  <2>8. \A i \in Int : i # id => g[i] = h[i]
    BY <2>1, <2>2
  <2>9. \A i \in Int : StringOf(g, i) = StringOf(h, i)
    BY <2>7, <2>8 DEF StringOf
  <2>10. DOMAIN h \subseteq Int
    BY HeapFields
  <2> QED
    BY <2>1, <2>2, <2>4, <2>5, <2>6, <2>7, <2>8, <2>9, <2>10
<1> QED
  BY <1>1, <1>2, <1>3
-----------------------------------------------------------------------------
(* Texts and encodings.                                                    *)

LEMMA NumberFacts ==
  /\ \A n \in 0 .. MaxText : M!NumberText(n) \in Values /\ Len(M!NumberText(n)) = n
  /\ \A n \in 1 .. MaxText : M!IsNumber(M!NumberText(n))
  /\ \A s \in Values : M!IsNumber(s) => Len(s) \in 1 .. MaxText /\ M!NumberText(Len(s)) = s
<1>1. ASSUME NEW n \in 0 .. MaxText
      PROVE  /\ M!NumberText(n) \in Values /\ Len(M!NumberText(n)) = n
             /\ n # 0 => M!IsNumber(M!NumberText(n))
  <2>1. n \in Nat /\ n <= MaxText
    BY TextsAssumption
  <2>2. M!NumberText(n) \in [1 .. n -> Symbols] /\ \A i \in 1 .. n : M!NumberText(n)[i] = "1"
    BY DEF M!NumberText, Symbols
  <2> DEFINE t == M!NumberText(n)
  <2> HIDE DEF t
  <2>3. t \in Seq(Symbols) /\ Len(t) = n /\ DOMAIN t = 1 .. n
    BY <2>1, <2>2 DEF t
  <2>4. n # 0 => t # << >>
    BY <2>1, <2>3
  <2> QED
    BY <2>1, <2>2, <2>3, <2>4 DEF t, Values, M!IsNumber
<1>2. ASSUME NEW s \in Values, M!IsNumber(s)
      PROVE  Len(s) \in 1 .. MaxText /\ M!NumberText(Len(s)) = s
  <2>1. s \in Seq(Symbols) /\ Len(s) \in Nat /\ Len(s) <= MaxText /\ s # << >>
    BY <1>2 DEF Values, M!IsNumber
  <2>2. Len(s) \in 1 .. MaxText
    BY <2>1, TextsAssumption
  <2>3. DOMAIN s = 1 .. Len(s) /\ s = [i \in 1 .. Len(s) |-> s[i]]
    BY <2>1
  <2>4. \A i \in 1 .. Len(s) : s[i] = "1"
    BY <1>2, <2>3 DEF M!IsNumber
  <2> QED
    BY <2>2, <2>3, <2>4 DEF M!NumberText
<1>3. \A n \in 1 .. MaxText : n \in 0 .. MaxText /\ n # 0
  OBVIOUS
<1> QED
  BY <1>1, <1>2, <1>3

LEMMA SharedFacts ==
  /\ \A id \in SharedIds : /\ id \in Int /\ IsShared(id) /\ id = Shared(-id)
                          /\ -id \in 1 .. MaxText /\ -id < SharedIntegers
  /\ \A n \in 1 .. MaxText : n < SharedIntegers => Shared(n) \in SharedIds
<1>1. ASSUME NEW n \in 1 .. MaxText
      PROVE  Shared(n) \in Int /\ IsShared(Shared(n)) /\ -Shared(n) = n
  BY TextsAssumption DEF Shared, IsShared
<1> QED
  BY <1>1 DEF SharedIds

LEMMA TextsAreValues ==
  /\ Texts \subseteq Values
  /\ \A h \in Heaps : \A i \in DOMAIN h : StringOf(h, i) \in Values
  /\ \A h : \A n \in 1 .. MaxText : StringOf(h, Shared(n)) = M!NumberText(n)
<1>1. Texts \subseteq Values
  BY TextsAssumption DEF Values
<1>2. ASSUME NEW h \in Heaps, NEW i \in DOMAIN h PROVE StringOf(h, i) \in Values
  <2>1. ~IsShared(i) /\ h[i] \in Objects
    BY HeapFields DEF IsShared
  <2> QED
    BY <2>1, NumberFacts DEF StringOf, Objects
<1>3. ASSUME NEW n \in 1 .. MaxText, NEW h PROVE StringOf(h, Shared(n)) = M!NumberText(n)
  <2>1. n \in Int /\ n >= 0 /\ - n <= 0 /\ -(-n) = n
    OBVIOUS
  <2> QED
    BY <2>1 DEF StringOf, Shared, IsShared
<1> QED
  BY <1>1, <1>2, <1>3

\* A new object, or a shared integer: what CreateString and CreateInt return.
Makes(h, c, s) ==
  /\ c.heap \in Heaps /\ c.id \in Int
  /\ c.id \in DOMAIN c.heap \cup SharedIds
  /\ \A i \in DOMAIN h : i \in DOMAIN c.heap /\ c.heap[i] = h[i]
  /\ \A i \in Nat \ {0} : RefOf(c.heap, i) = RefOf(h, i) + Hit(c.id, i)
  /\ StringOf(c.heap, c.id) = s

LEMMA MadeByCreated ==
  ASSUME NEW h \in Heaps, NEW o \in Objects, o.ref = 1
  PROVE  LET c == Created(h, o) IN
         /\ Makes(h, c, IF o.enc = "int" THEN M!NumberText(o.num) ELSE o.str)
         /\ c.id \in DOMAIN c.heap /\ ~IsShared(c.id) /\ c.id \notin DOMAIN h /\ c.heap[c.id] = o
<1> DEFINE c == Created(h, o)
<1>1. /\ c.heap \in Heaps /\ c.id \in Nat \ {0} /\ c.id \notin DOMAIN h
      /\ DOMAIN c.heap = DOMAIN h \cup {c.id} /\ c.heap[c.id] = o
      /\ \A i \in DOMAIN h : c.heap[i] = h[i]
      /\ \A i \in Nat \ {0} : RefOf(c.heap, i) = RefOf(h, i) + Hit(c.id, i)
  BY CreatedFacts
<1> HIDE DEF c
<1>2. ~IsShared(c.id) /\ c.id \in DOMAIN c.heap /\ c.id \in Int
  BY <1>1 DEF IsShared
<1>3. StringOf(c.heap, c.id) = IF o.enc = "int" THEN M!NumberText(o.num) ELSE o.str
  BY <1>1, <1>2 DEF StringOf
<1> QED
  BY <1>1, <1>2, <1>3 DEF c, Makes

LEMMA NewObjects ==
  /\ \A s \in Values : /\ Raw(s) \in Objects /\ Raw(s).ref = 1 /\ Raw(s).str = s /\ Raw(s).enc = "raw"
                       /\ Embstr(s) \in Objects /\ Embstr(s).ref = 1 /\ Embstr(s).str = s
                       /\ Embstr(s).enc = "embstr"
  /\ \A n \in 1 .. MaxText : /\ IntObj(n) \in Objects /\ IntObj(n).ref = 1
                             /\ IntObj(n).enc = "int" /\ IntObj(n).num = n
  BY DEF Raw, Embstr, IntObj, Objects

LEMMA CreateStringFacts ==
  ASSUME NEW h \in Heaps, NEW s \in Values
  PROVE  LET c == CreateString(h, s) IN
         /\ Makes(h, c, s) /\ c.id \in DOMAIN c.heap /\ ~IsShared(c.id) /\ c.id \notin DOMAIN h
         /\ c.heap[c.id].enc \in {"raw", "embstr"} /\ c.heap[c.id].ref = 1 /\ c.heap[c.id].str = s
<1>1. CASE Len(s) <= EmbLimit
  BY <1>1, NewObjects, MadeByCreated DEF CreateString
<1>2. CASE ~(Len(s) <= EmbLimit)
  BY <1>2, NewObjects, MadeByCreated DEF CreateString
<1> QED
  BY <1>1, <1>2

LEMMA CreateIntFacts ==
  ASSUME NEW h \in Heaps, NEW n \in 1 .. MaxText, NEW auto \in BOOLEAN
  PROVE  LET c == CreateInt(h, n, auto) IN
         /\ Makes(h, c, M!NumberText(n)) /\ (IsShared(c.id) => auto)
         /\ ~IsShared(c.id) => c.id \in DOMAIN c.heap /\ c.id \notin DOMAIN h
<1>1. CASE auto /\ n < SharedIntegers
  <2>1. Shared(n) \in SharedIds /\ Shared(n) \in Int /\ IsShared(Shared(n))
    BY <1>1, SharedFacts
  <2>2. \A i \in Nat \ {0} : RefOf(h, i) \in Nat /\ Hit(Shared(n), i) = 0
    BY <2>1, HeapFields DEF Hit, IsShared
  <2>3. StringOf(h, Shared(n)) = M!NumberText(n)
    BY TextsAreValues
  <2> QED
    BY <1>1, <2>1, <2>2, <2>3 DEF CreateInt, With, Makes
<1>2. CASE ~(auto /\ n < SharedIntegers)
  BY <1>2, NewObjects, MadeByCreated DEF CreateInt
<1> QED
  BY <1>1, <1>2
\* An object that is not freed keeps its text.
Stays(h, g, i) == i \in DOMAIN g /\ StringOf(g, i) = StringOf(h, i) /\ g[i].enc = h[i].enc

LEMMA SameStays ==
  ASSUME NEW h, NEW g, NEW i \in DOMAIN g, g[i] = h[i]
  PROVE  Stays(h, g, i)
  BY DEF Stays, StringOf

\* What becomes of a reference that is encoded: the same text, in an object or in a
\* shared integer if that is allowed, and nothing else changes.
Encodes(h, id, e) ==
  /\ e.heap \in Heaps /\ e.id \in Int
  /\ e.id \in DOMAIN e.heap \cup SharedIds
  /\ IsShared(e.id) => sharing
  /\ StringOf(e.heap, e.id) = StringOf(h, id)
  /\ Passed(h, e.heap, id, e.id)
  /\ \A i \in DOMAIN h : i # id => i \in DOMAIN e.heap /\ e.heap[i] = h[i]
  /\ h[id].ref > 1 => e = With(h, id)

LEMMA TryEncodeFacts ==
  ASSUME NEW h \in Heaps, NEW id \in DOMAIN h, sharing \in BOOLEAN
  PROVE  Encodes(h, id, TryEncode(h, id))
<1> DEFINE o == h[id]
           e == TryEncode(h, id)
           n == Len(o.str)
<1>1. o \in Objects /\ o.ref \in Nat \ {0} /\ id \in Nat \ {0} /\ ~IsShared(id) /\ id \in Int
  BY HeapFields DEF IsShared
<1>2. StringOf(h, id) = IF o.enc = "int" THEN M!NumberText(o.num) ELSE o.str
  BY <1>1 DEF StringOf
<1>3. /\ o.enc \in {"raw", "embstr", "int"} /\ (o.enc = "int" => o.num \in 1 .. MaxText)
      /\ (o.enc # "int" => o.str \in Values)
  BY <1>1 DEF Objects
<1>4. \A i \in Nat \ {0} : RefOf(h, i) \in Nat /\ Hit(id, i) \in {0, 1}
  BY HeapFields DEF Hit
<1> DEFINE d == Decr(h, id)
<1>5. ASSUME o.ref = 1
      PROVE  /\ d \in Heaps
             /\ \A i \in DOMAIN h : i # id => i \in DOMAIN d /\ d[i] = h[i]
             /\ \A i \in Nat \ {0} : RefOf(d, i) = RefOf(h, i) - Hit(id, i)
  <2>1. \A i \in DOMAIN h : i # id => RefOf(h, i) > Hit(id, i)
    BY HeapFields DEF RefOf, Hit
  <2> QED
    BY <1>1, <2>1, DecrFacts
<1> HIDE DEF d
<1>6. CASE o.enc = "int" \/ o.ref > 1
  <2>1. e = With(h, id)
    BY <1>1, <1>6 DEF TryEncode
  <2> QED
    BY <1>1, <1>4, <2>1 DEF Encodes, With, Passed
<1>7. CASE o.enc # "int" /\ ~(o.ref > 1) /\ M!IsNumber(o.str)
  <2>0. o.ref = 1 /\ o.str \in Values
    BY <1>1, <1>3, <1>7
  <2>1. n \in 1 .. MaxText /\ M!NumberText(n) = o.str
    BY <1>7, <2>0, NumberFacts
  <2> HIDE DEF n
  <2>2. CASE sharing /\ n < SharedIntegers
    <3>1. e = With(d, Shared(n))
      BY <1>1, <1>7, <2>2 DEF TryEncode, n, d
    <3>2. Shared(n) \in SharedIds /\ Shared(n) \in Int /\ IsShared(Shared(n))
      BY <2>1, <2>2, SharedFacts
    <3>3. \A i \in Nat \ {0} : Hit(Shared(n), i) = 0
      BY <3>2 DEF Hit, IsShared
    <3>4. StringOf(d, Shared(n)) = M!NumberText(n)
      BY <2>1, TextsAreValues
    <3>5. Passed(h, d, id, Shared(n))
      BY <1>4, <1>5, <2>0, <3>3 DEF Passed
    <3> QED
      BY <1>2, <1>5, <1>7, <2>0, <2>1, <2>2, <3>1, <3>2, <3>4, <3>5 DEF Encodes, With
  <2>3. CASE ~(sharing /\ n < SharedIntegers) /\ o.enc = "raw"
    <3> DEFINE g == [h EXCEPT ![id] = IntObj(n)]
    <3>1. e = With(g, id)
      BY <1>1, <1>7, <2>3 DEF TryEncode, n
    <3>2. g \in [DOMAIN h -> Objects] /\ g[id] = IntObj(n) /\ IntObj(n) \in Objects
      BY <2>1, NewObjects, HeapFields
    <3>3. g \in Heaps
      BY <3>2, HeapFields, IsHeap
    <3>4. StringOf(g, id) = M!NumberText(n)
      BY <1>1, <2>1, <3>2, NewObjects DEF StringOf
    <3>5. Passed(h, g, id, id)
      <4>1. \A i \in Nat \ {0} : RefOf(g, i) = RefOf(h, i)
        BY <1>1, <2>0, <2>1, <3>2, NewObjects, HeapFields DEF RefOf
      <4>2. \A i \in Nat \ {0} : RefOf(h, i) \in Int /\ Hit(id, i) \in Int
        BY <1>4
      <4> HIDE DEF g
      <4> QED
        BY <4>1, <4>2 DEF Passed
    <3>6. \A i \in DOMAIN h : i # id => i \in DOMAIN g /\ g[i] = h[i]
      OBVIOUS
    <3>7. id \in DOMAIN g
      BY <3>2
    <3> QED
      BY <1>1, <1>2, <1>7, <2>0, <2>1, <3>1, <3>3, <3>4, <3>5, <3>6, <3>7 DEF Encodes, With
  <2>4. CASE ~(sharing /\ n < SharedIntegers) /\ o.enc # "raw"
    <3> DEFINE c == CreateForValue(d, n)
    <3>1. e = c
      BY <1>1, <1>7, <2>4 DEF TryEncode, n, d
    <3>2. Makes(d, c, M!NumberText(n)) /\ (IsShared(c.id) => sharing)
      BY <1>5, <2>0, <2>1, CreateIntFacts DEF CreateForValue
    <3> HIDE DEF c
    <3>3. \A i \in DOMAIN h : i # id => i \in DOMAIN c.heap /\ c.heap[i] = h[i]
      BY <1>5, <2>0, <3>2 DEF Makes
    <3>4. Passed(h, c.heap, id, c.id)
      BY <1>5, <2>0, <3>2 DEF Makes, Passed
    <3> QED
      BY <1>2, <1>7, <2>0, <2>1, <3>1, <3>2, <3>3, <3>4 DEF Encodes, Makes
  <2> QED
    BY <2>2, <2>3, <2>4
<1>8. CASE o.enc # "int" /\ ~(o.ref > 1) /\ ~M!IsNumber(o.str) /\ o.enc = "raw" /\ n <= EmbLimit
  <2>0. o.ref = 1 /\ o.str \in Values
    BY <1>1, <1>3, <1>8
  <2> DEFINE c == Created(h, Embstr(o.str))
             g == Decr(c.heap, c.id)
             f == Decr(c.heap, id)
  <2>1. e = With(f, c.id)
    BY <1>1, <1>8 DEF TryEncode
  <2>2. Makes(h, c, o.str) /\ c.id \in DOMAIN c.heap /\ ~IsShared(c.id) /\ c.id \notin DOMAIN h
        /\ c.heap[c.id] = Embstr(o.str)
    BY <2>0, NewObjects, MadeByCreated
  <2> HIDE DEF c
  <2>3. /\ c.heap \in Heaps /\ id \in DOMAIN c.heap /\ c.id # id /\ c.heap[id] = h[id] /\ c.id \in Nat \ {0}
    BY <2>2, HeapFields DEF Makes
  <2>4. /\ f \in Heaps
        /\ \A i \in Nat \ {0} : RefOf(f, i) = RefOf(c.heap, i) - Hit(id, i)
        /\ \A i \in DOMAIN c.heap : i # id => i \in DOMAIN f /\ f[i] = c.heap[i]
    <3>1. \A i \in DOMAIN c.heap : i # id => RefOf(c.heap, i) > Hit(id, i)
      BY <2>3, HeapFields DEF RefOf, Hit
    <3> QED
      BY <1>1, <2>3, <3>1, DecrFacts
  <2>5. c.id \in DOMAIN f /\ f[c.id] = Embstr(o.str)
    BY <2>2, <2>3, <2>4
  <2>6. StringOf(f, c.id) = o.str
    BY <2>0, <2>2, <2>5, NewObjects DEF StringOf
  <2>7. Passed(h, f, id, c.id)
    <3>1. \A i \in Nat \ {0} : /\ RefOf(c.heap, i) = RefOf(h, i) + Hit(c.id, i)
                              /\ RefOf(f, i) = RefOf(c.heap, i) - Hit(id, i)
                              /\ RefOf(h, i) \in Nat /\ Hit(id, i) \in Int /\ Hit(c.id, i) \in Int
      BY <1>4, <2>2, <2>4 DEF Makes, Hit
    <3> HIDE DEF f
    <3> QED
      BY <3>1 DEF Passed
  <2>8. \A i \in DOMAIN h : i # id => i \in DOMAIN f /\ f[i] = h[i]
    BY <2>2, <2>4 DEF Makes
  <2> HIDE DEF f
  <2>9. c.id \in Int /\ ~(h[id].ref > 1) /\ StringOf(h, id) = o.str
    BY <1>2, <1>8, <2>3
  <2> QED
    BY <2>1, <2>2, <2>4, <2>5, <2>6, <2>7, <2>8, <2>9 DEF Encodes, With
<1>9. CASE o.enc # "int" /\ ~(o.ref > 1) /\ ~M!IsNumber(o.str) /\ ~(o.enc = "raw" /\ n <= EmbLimit)
  <2>1. e = With(h, id)
    BY <1>1, <1>9 DEF TryEncode
  <2> QED
    BY <1>1, <1>4, <2>1 DEF Encodes, With, Passed
<1> QED
  BY <1>6, <1>7, <1>8, <1>9

LEMMA ReleaseFacts ==
  ASSUME NEW h \in Heaps, NEW id \in Held(h)
  PROVE  /\ Release(h, id) \in Heaps /\ DOMAIN Release(h, id) \subseteq DOMAIN h
         /\ \A i \in Nat \ {0} : RefOf(Release(h, id), i) = RefOf(h, i) - Hit(id, i)
         /\ \A i \in DOMAIN h : RefOf(h, i) > Hit(id, i) => Stays(h, Release(h, id), i)
<1>1. CASE id = NULL
  <2>1. \A i \in Nat \ {0} : RefOf(h, i) \in Nat /\ Hit(NULL, i) = 0
    BY HeapFields, NullAssumption DEF Hit
  <2> QED
    BY <1>1, <2>1, SameStays DEF Release
<1>2. CASE id # NULL
  <2>1. id \in Int /\ (id \in DOMAIN h \/ IsShared(id))
    BY <1>2, HeapFields, SharedFacts DEF Held
  <2> QED
    BY <1>2, <2>1, DecrFacts DEF Release, Stays
<1> QED
  BY <1>1, <1>2
LEMMA DupFacts ==
  ASSUME NEW h \in Heaps, NEW id \in Held(h) \ {NULL}
  PROVE  LET c == Dup(h, id) IN
         Makes(h, c, StringOf(h, id)) /\ c.id \in DOMAIN c.heap /\ ~IsShared(c.id)
<1>1. CASE id \in DOMAIN h
  <2> DEFINE o == [h[id] EXCEPT !.ref = 1]
  <2>1. h[id] \in Objects /\ ~IsShared(id)
    BY <1>1, HeapFields DEF IsShared
  <2>2. /\ o \in Objects /\ o.ref = 1 /\ o.enc = h[id].enc
        /\ o.enc = "int" => o.num = h[id].num
        /\ o.enc # "int" => o.str = h[id].str
    BY <2>1 DEF Objects
  <2>3. Dup(h, id) = Created(h, o)
    BY <2>1 DEF Dup
  <2> HIDE DEF o
  <2>4. StringOf(h, id) = IF o.enc = "int" THEN M!NumberText(o.num) ELSE o.str
    BY <2>1, <2>2 DEF StringOf
  <2> QED
    BY <2>2, <2>3, <2>4, MadeByCreated
<1>2. CASE id \notin DOMAIN h
  <2> DEFINE n == -id
  <2>1. id \in SharedIds
    BY <1>2 DEF Held
  <2>2. n \in 1 .. MaxText /\ IsShared(id) /\ id = Shared(n)
    BY <2>1, SharedFacts
  <2>3. Dup(h, id) = Created(h, IntObj(n))
    BY <2>2 DEF Dup
  <2> HIDE DEF n
  <2>4. StringOf(h, id) = M!NumberText(n)
    BY <2>2, TextsAreValues
  <2> QED
    BY <2>2, <2>3, <2>4, NewObjects, MadeByCreated
<1> QED
  BY <1>1, <1>2

LEMMA DecodedFacts ==
  ASSUME NEW h \in Heaps, NEW id \in Held(h) \ {NULL}
  PROVE  LET c == Decoded(h, id) IN
         /\ c.heap \in Heaps /\ c.id \in DOMAIN c.heap /\ c.id \in Int /\ ~IsShared(c.id)
         /\ StringOf(c.heap, c.id) = StringOf(h, id)
         /\ DOMAIN h \subseteq DOMAIN c.heap
         /\ \A i \in Nat \ {0} : RefOf(c.heap, i) = RefOf(h, i) + Hit(c.id, i)
         /\ \A i \in DOMAIN h : Stays(h, c.heap, i)
<1> DEFINE s == StringOf(h, id)
           c == CreateString(h, s)
<1>1. CASE IsShared(id) \/ h[id].enc = "int"
  <2>1. Decoded(h, id) = c
    BY <1>1 DEF Decoded
  <2>2. s \in Values
    <3>1. CASE id \in DOMAIN h
      BY <3>1, TextsAreValues
    <3>2. CASE id \in SharedIds
      BY <3>2, SharedFacts, TextsAreValues, NumberFacts
    <3> QED
      BY <3>1, <3>2 DEF Held
  <2>3. Makes(h, c, s) /\ c.id \in DOMAIN c.heap /\ ~IsShared(c.id)
    BY <2>2, CreateStringFacts
  <2> HIDE DEF c
  <2>4. \A i \in DOMAIN h : Stays(h, c.heap, i)
    BY <2>3, SameStays DEF Makes
  <2> QED
    BY <2>1, <2>3, <2>4 DEF Makes
<1>2. CASE ~(IsShared(id) \/ h[id].enc = "int")
  <2>1. Decoded(h, id) = With(Incr(h, id), id)
    BY <1>2 DEF Decoded
  <2>2. id \in DOMAIN h /\ id \in Int
    BY <1>2, SharedFacts, HeapFields DEF Held
  <2> DEFINE g == Incr(h, id)
  <2>3. /\ g \in Heaps /\ DOMAIN g = DOMAIN h
        /\ \A i \in Nat \ {0} : RefOf(g, i) = RefOf(h, i) + Hit(id, i)
        /\ \A i \in Int : StringOf(g, i) = StringOf(h, i)
        /\ \A i \in DOMAIN h : g[i].enc = h[i].enc
    BY <2>2, IncrFacts
  <2> HIDE DEF g
  <2>4. \A i \in DOMAIN h : Stays(h, g, i)
    BY <2>3, HeapFields DEF Stays
  <2> QED
    BY <1>2, <2>1, <2>2, <2>3, <2>4 DEF With, g
<1> QED
  BY <1>1, <1>2

\* The object that a modification of a value may change: raw, and of this key alone.
LEMMA UnsharedFacts ==
  ASSUME heap \in Heaps, NEW k, dict[k] \in Held(heap) \ {NULL}
  PROVE  LET u == Unshared(k) IN
         /\ u.heap \in Heaps /\ u.id \in DOMAIN u.heap
         /\ u.heap[u.id].enc = "raw" /\ u.heap[u.id].str = StringOf(heap, dict[k])
         /\ u.heap[u.id].ref = 1
         /\ Passed(heap, u.heap, dict[k], u.id)
         /\ \A i \in DOMAIN heap : RefOf(heap, i) > Hit(dict[k], i) =>
              Stays(heap, u.heap, i) /\ i # u.id
<1> DEFINE u == Unshared(k)
           id == dict[k]
           s == StringOf(heap, id)
<1>0. \A i \in Nat \ {0} : RefOf(heap, i) \in Nat /\ Hit(id, i) \in Int
  BY HeapFields DEF Hit
<1>1. CASE ~IsShared(id) /\ heap[id].enc = "raw" /\ heap[id].ref = 1
  <2>1. u = With(heap, id)
    BY <1>1 DEF Unshared
  <2>2. id \in DOMAIN heap
    BY <1>1, SharedFacts DEF Held
  <2>3. s = heap[id].str
    BY <1>1 DEF StringOf
  <2>4. \A i \in DOMAIN heap : Stays(heap, heap, i)
    BY DEF Stays
  <2>5. \A i \in DOMAIN heap : RefOf(heap, i) > Hit(id, i) => i # id
    BY <1>1 DEF RefOf, Hit
  <2>6. Passed(heap, heap, id, id)
    BY <1>0 DEF Passed
  <2> QED
    BY <1>1, <2>1, <2>2, <2>3, <2>4, <2>5, <2>6 DEF With
<1>2. CASE ~(~IsShared(id) /\ heap[id].enc = "raw" /\ heap[id].ref = 1)
  <2> DEFINE dec == Decoded(heap, id)
             new == Created(dec.heap, Raw(StringOf(dec.heap, dec.id)))
             g == Decr(new.heap, dec.id)
             f == Release(g, id)
  <2>1. u = With(f, new.id)
    BY <1>2 DEF Unshared
  <2>2. /\ dec.heap \in Heaps /\ dec.id \in DOMAIN dec.heap /\ dec.id \in Int /\ ~IsShared(dec.id)
        /\ StringOf(dec.heap, dec.id) = s
        /\ DOMAIN heap \subseteq DOMAIN dec.heap
        /\ \A i \in Nat \ {0} : RefOf(dec.heap, i) = RefOf(heap, i) + Hit(dec.id, i)
        /\ \A i \in DOMAIN heap : Stays(heap, dec.heap, i)
    BY DecodedFacts
  <2> HIDE DEF dec
  <2>3. s \in Values
    BY <2>2, TextsAreValues
  <2>4. /\ Makes(dec.heap, new, s) /\ new.id \in DOMAIN new.heap /\ ~IsShared(new.id)
        /\ new.id \notin DOMAIN dec.heap /\ new.heap[new.id] = Raw(s)
    BY <2>2, <2>3, NewObjects, MadeByCreated
  <2> HIDE DEF new
  <2>5. new.heap \in Heaps /\ dec.id \in DOMAIN new.heap /\ new.id \in Nat \ {0} /\ new.id # dec.id
    BY <2>2, <2>4, HeapFields DEF Makes
  <2>6. /\ g \in Heaps /\ DOMAIN g \subseteq DOMAIN new.heap
        /\ \A i \in Nat \ {0} : RefOf(g, i) = RefOf(new.heap, i) - Hit(dec.id, i)
        /\ \A i \in DOMAIN new.heap : RefOf(new.heap, i) > Hit(dec.id, i) =>
             /\ i \in DOMAIN g /\ StringOf(g, i) = StringOf(new.heap, i)
             /\ i # dec.id => g[i] = new.heap[i]
             /\ g[i].enc = new.heap[i].enc
    BY <2>2, <2>5, DecrFacts
  <2> HIDE DEF g
  <2>7. \A i \in Nat \ {0} : RefOf(g, i) = RefOf(heap, i) + Hit(new.id, i)
    <3>1. \A i \in Nat \ {0} : RefOf(new.heap, i) = RefOf(dec.heap, i) + Hit(new.id, i)
      BY <2>4 DEF Makes
    <3>2. \A i \in Nat \ {0} : Hit(dec.id, i) \in Int /\ Hit(new.id, i) \in Int
      BY DEF Hit
    <3> QED
      BY <1>0, <2>2, <2>6, <3>1, <3>2
  <2>8. \A i \in DOMAIN heap : Stays(heap, g, i) /\ i # new.id
    <3> TAKE i \in DOMAIN heap
    <3>1. i \in DOMAIN dec.heap /\ Stays(heap, dec.heap, i) /\ i \in Nat \ {0}
      BY <2>2, HeapFields
    <3>2. i # new.id /\ i \in DOMAIN new.heap /\ new.heap[i] = dec.heap[i]
      BY <2>4, <3>1 DEF Makes
    <3>3. RefOf(new.heap, i) > Hit(dec.id, i)
      <4>1. RefOf(g, i) > 0
        BY <2>7, <3>1, <1>0, HeapFields DEF Hit
      <4> QED
        BY <2>5, <2>6, <3>1, <4>1, HeapFields DEF Hit
    <3>4. i \in DOMAIN g /\ StringOf(g, i) = StringOf(new.heap, i) /\ g[i].enc = new.heap[i].enc
      BY <2>6, <3>2, <3>3
    <3>5. StringOf(new.heap, i) = StringOf(dec.heap, i)
      BY <3>2 DEF StringOf
    <3> QED
      BY <3>1, <3>2, <3>4, <3>5 DEF Stays
  <2>9. new.id \in DOMAIN g /\ g[new.id] = Raw(s) /\ id \in Held(g)
    <3>1. RefOf(new.heap, new.id) > Hit(dec.id, new.id)
      BY <2>4, <2>5, NewObjects, <2>3 DEF RefOf, Hit
    <3>2. id \in DOMAIN heap \/ id \in SharedIds
      BY DEF Held
    <3> QED
      BY <2>4, <2>5, <2>6, <2>8, <3>1, <3>2 DEF Held, Stays
  <2>10. /\ f \in Heaps /\ DOMAIN f \subseteq DOMAIN g
         /\ \A i \in Nat \ {0} : RefOf(f, i) = RefOf(g, i) - Hit(id, i)
         /\ \A i \in DOMAIN g : RefOf(g, i) > Hit(id, i) => Stays(g, f, i)
    BY <2>6, <2>9, ReleaseFacts
  <2> HIDE DEF f
  <2>11. Passed(heap, f, id, new.id)
    <3>1. \A i \in Nat \ {0} : Hit(id, i) \in Int /\ Hit(new.id, i) \in Int
      BY DEF Hit
    <3> QED
      BY <1>0, <2>7, <2>10, <3>1 DEF Passed
  <2>12. \A i \in DOMAIN heap : RefOf(heap, i) > Hit(id, i) => Stays(heap, f, i) /\ i # new.id
    <3> TAKE i \in DOMAIN heap
    <3> HAVE RefOf(heap, i) > Hit(id, i)
    <3>1. i \in Nat \ {0} /\ Stays(heap, g, i) /\ i # new.id
      BY <2>8, HeapFields
    <3>2. RefOf(g, i) > Hit(id, i)
      BY <1>0, <2>7, <3>1 DEF Hit
    <3>3. Stays(g, f, i)
      BY <2>10, <3>1, <3>2 DEF Stays
    <3> QED
      BY <3>1, <3>3 DEF Stays
  <2>13. new.id \in DOMAIN f /\ f[new.id].enc = "raw" /\ f[new.id].str = s /\ f[new.id].ref = 1
    <3>1. new.id # id
      BY <2>2, <2>4, SharedFacts DEF Held
    <3>2. RefOf(g, new.id) = 1 /\ Hit(id, new.id) = 0 /\ ~IsShared(new.id)
      BY <2>3, <2>4, <2>9, <3>1, NewObjects DEF RefOf, Hit
    <3>3. Stays(g, f, new.id) /\ RefOf(f, new.id) = 1
      BY <2>5, <2>9, <2>10, <3>2
    <3>4. f[new.id].enc = "raw"
      BY <2>3, <2>9, <3>3, NewObjects DEF Stays
    <3> QED
      BY <2>3, <2>9, <3>2, <3>3, <3>4, NewObjects DEF Stays, StringOf, RefOf
  <2> QED
    BY <2>1, <2>10, <2>11, <2>12, <2>13 DEF With
<1> QED
  BY <1>1, <1>2
-----------------------------------------------------------------------------
(* How often an object is held.                                            *)

LEMMA TimesFacts ==
  ASSUME NEW f, IsFiniteSet(DOMAIN f), NEW id
  PROVE  /\ Times(f, id) \in Nat
         /\ \A x \in DOMAIN f : f[x] = id => Times(f, id) >= 1
         /\ (\A x \in DOMAIN f : f[x] # id) => Times(f, id) = 0
<1> DEFINE S == {x \in DOMAIN f : f[x] = id}
<1>1. IsFiniteSet(S) /\ Times(f, id) = Cardinality(S)
  BY FS_Subset DEF Times
<1>2. Cardinality(S) \in Nat /\ (Cardinality(S) = 0 <=> S = {})
  BY <1>1, FS_CardinalityType, FS_EmptySet
<1>3. \A x \in DOMAIN f : f[x] = id => S # {}
  OBVIOUS
<1>4. (\A x \in DOMAIN f : f[x] # id) => S = {}
  OBVIOUS
<1> HIDE DEF S
<1> QED
  BY <1>1, <1>2, <1>3, <1>4

\* One place that changes what it holds.
LEMMA TimesPut ==
  ASSUME NEW f, IsFiniteSet(DOMAIN f), NEW x \in DOMAIN f, NEW v, NEW id
  PROVE  LET g == [f EXCEPT ![x] = v] IN
         /\ Times(f, id) \in Nat /\ Times(g, id) \in Nat
         /\ Times(g, id) = Times(f, id) - Hit(f[x], id) + Hit(v, id)
         /\ Times(f, id) >= Hit(f[x], id)
         /\ \A y \in DOMAIN f : y # x /\ f[y] = id => Times(f, id) >= Hit(f[x], id) + 1
<1> DEFINE g == [f EXCEPT ![x] = v]
           R == {y \in DOMAIN f \ {x} : f[y] = id}
           S == {y \in DOMAIN f : f[y] = id}
           T == {y \in DOMAIN g : g[y] = id}
<1>1. IsFiniteSet(R) /\ x \notin R
  BY FS_Subset
<1>2. S = IF f[x] = id THEN R \cup {x} ELSE R
  OBVIOUS
<1>3. T = IF v = id THEN R \cup {x} ELSE R
  OBVIOUS
<1>4. Cardinality(R) \in Nat /\ Cardinality(R \cup {x}) = Cardinality(R) + 1
  BY <1>1, FS_CardinalityType, FS_AddElement
<1>5. \A y \in DOMAIN f : y # x /\ f[y] = id => R # {}
  OBVIOUS
<1>6. R # {} => Cardinality(R) >= 1
  BY <1>1, <1>4, FS_EmptySet
<1>7. Times(f, id) = Cardinality(S) /\ Times(g, id) = Cardinality(T)
  BY DEF Times
<1>8. Cardinality(S) = Cardinality(R) + Hit(f[x], id)
  BY <1>2, <1>4 DEF Hit
<1>9. Cardinality(T) = Cardinality(R) + Hit(v, id)
  BY <1>3, <1>4 DEF Hit
<1>10. Hit(f[x], id) \in Nat /\ Hit(v, id) \in Nat
  BY DEF Hit
<1> HIDE DEF R, S, T
<1> QED
  BY <1>4, <1>5, <1>6, <1>7, <1>8, <1>9, <1>10

LEMMA TimesAppend ==
  ASSUME NEW S, NEW q \in Seq(S), NEW c, NEW id
  PROVE  /\ Times(HeldArgs(q), id) \in Nat
         /\ Times(HeldArgs(Append(q, c)), id) = Times(HeldArgs(q), id) + Hit(c.arg, id)
<1> DEFINE n == Len(q)
           R == {i \in 1 .. n : q[i].arg = id}
           T == {i \in 1 .. n + 1 : Append(q, c)[i].arg = id}
<1>1. n \in Nat /\ DOMAIN q = 1 .. n
  OBVIOUS
<1>1a. DOMAIN Append(q, c) = 1 .. n + 1 /\ Append(q, c)[n + 1] = c /\ \A i \in 1 .. n : Append(q, c)[i] = q[i]
  OBVIOUS
<1>2. Times(HeldArgs(q), id) = Cardinality(R) /\ Times(HeldArgs(Append(q, c)), id) = Cardinality(T)
  <2>1. {i \in DOMAIN HeldArgs(q) : HeldArgs(q)[i] = id} = R
    BY <1>1 DEF HeldArgs
  <2>2. {i \in DOMAIN HeldArgs(Append(q, c)) : HeldArgs(Append(q, c))[i] = id} = T
    BY <1>1a DEF HeldArgs
  <2> QED
    BY <2>1, <2>2 DEF Times
<1> HIDE DEF n
<1>3. IsFiniteSet(R) /\ n + 1 \notin R
  BY <1>1, FS_Interval, FS_Subset
<1>4. T = IF c.arg = id THEN R \cup {n + 1} ELSE R
  <2>1. \A i \in 1 .. n + 1 : i = n + 1 \/ i \in 1 .. n
    BY <1>1
  <2>2. \A i \in 1 .. n : i \in 1 .. n + 1 /\ i # n + 1
    BY <1>1
  <2>3. n + 1 \in 1 .. n + 1
    BY <1>1
  <2> QED
    BY <1>1a, <2>1, <2>2, <2>3
<1>5. Cardinality(R) \in Nat /\ Cardinality(R \cup {n + 1}) = Cardinality(R) + 1
  BY <1>3, FS_CardinalityType, FS_AddElement
<1> HIDE DEF R, T
<1> QED
  BY <1>2, <1>4, <1>5 DEF Hit
-----------------------------------------------------------------------------
(* The commands.                                                           *)

Vals(h, d) == [k \in Keys |-> Value(h, d, k)]

\* A command about to run: what it and the keys hold is there and counted.
Ready(cmd) ==
  /\ heap \in Heaps /\ dict \in [Keys -> Held(heap)] /\ sharing \in BOOLEAN
  /\ cmd.key \in Keys /\ cmd.arg \in Held(heap)
  /\ \A i \in Nat \ {0} : RefOf(heap, i) >= Times(dict, i) + Hit(cmd.arg, i)

\* A command has run: the counts follow what it and the keys hold, what others hold
\* stays, and the keys have these values.
Does(cmd, r, vals) ==
  /\ r.heap \in Heaps /\ r.dict \in [Keys -> Held(r.heap)] /\ r.arg \in Held(r.heap)
  /\ r.arg = NULL <=> cmd.arg = NULL
  /\ r.arg # NULL => StringOf(r.heap, r.arg) = StringOf(heap, cmd.arg)
  /\ \A i \in Nat \ {0} : RefOf(r.heap, i) - Times(r.dict, i) - Hit(r.arg, i)
                            = RefOf(heap, i) - Times(dict, i) - Hit(cmd.arg, i)
  /\ \A i \in DOMAIN heap :
       RefOf(heap, i) > Times(dict, i) + Hit(cmd.arg, i) => Stays(heap, r.heap, i)
  /\ Vals(r.heap, r.dict) = vals

LEMMA HeldFacts ==
  /\ NULL \notin Int /\ \A i \in Nat \ {0} : Hit(NULL, i) = 0
  /\ \A h \in Heaps : \A id \in Held(h) \ {NULL} :
       /\ id \in Int /\ (IsShared(id) <=> id \in SharedIds) /\ (~IsShared(id) <=> id \in DOMAIN h)
       /\ StringOf(h, id) \in Values
  /\ \A id \in SharedIds : id \in Int /\ \A g, h : StringOf(h, id) = StringOf(g, id)
  /\ \A id, i : Hit(id, i) \in {0, 1}
<1>1. NULL \notin Int /\ \A i \in Nat \ {0} : Hit(NULL, i) = 0
  BY NullAssumption DEF Hit
<1>2. ASSUME NEW id \in SharedIds
      PROVE  id \in Int /\ IsShared(id) /\ \A g, h : StringOf(h, id) = StringOf(g, id)
  BY SharedFacts DEF StringOf
<1>3. ASSUME NEW h \in Heaps, NEW id \in Held(h) \ {NULL}
      PROVE  /\ id \in Int /\ (IsShared(id) <=> id \in SharedIds) /\ (~IsShared(id) <=> id \in DOMAIN h)
             /\ StringOf(h, id) \in Values
  <2>1. CASE id \in DOMAIN h
    BY <2>1, <1>2, HeapFields, TextsAreValues DEF IsShared
  <2>2. CASE id \in SharedIds
    <3>1. id = Shared(-id) /\ -id \in 1 .. MaxText
      BY <2>2, SharedFacts
    <3>2. StringOf(h, id) = M!NumberText(-id)
      BY <3>1, TextsAreValues
    <3> QED
      BY <1>2, <2>2, <3>1, <3>2, NumberFacts, HeapFields DEF IsShared
  <2> QED
    BY <2>1, <2>2 DEF Held
<1> QED
  BY <1>1, <1>2, <1>3 DEF Hit

\* What a place holds stays, if the object stays.
LEMMA HeldStays ==
  ASSUME NEW h \in Heaps, NEW g \in Heaps, NEW id \in Held(h), id \in DOMAIN h => Stays(h, g, id)
  PROVE  id \in Held(g) /\ (id # NULL => StringOf(g, id) = StringOf(h, id))
<1>1. CASE id \in DOMAIN h
  BY <1>1 DEF Stays, Held
<1>2. CASE id \in SharedIds
  BY <1>2, HeldFacts DEF Held
<1> QED
  BY <1>1, <1>2 DEF Held

LEMMA PutFacts ==
  ASSUME NEW cmd, Ready(cmd), NEW key \in Keys, NEW g \in Heaps, NEW nid \in Held(g),
         NEW narg \in Held(g), narg = NULL <=> cmd.arg = NULL,
         narg # NULL => StringOf(g, narg) = StringOf(heap, cmd.arg),
         \A i \in Nat \ {0} : RefOf(g, i) = RefOf(heap, i) - Hit(dict[key], i) + Hit(nid, i)
                                              - Hit(cmd.arg, i) + Hit(narg, i),
         \A i \in DOMAIN heap :
           RefOf(heap, i) > Hit(dict[key], i) + Hit(cmd.arg, i) => Stays(heap, g, i)
  PROVE  Does(cmd, State(g, [dict EXCEPT ![key] = nid], narg, TRUE),
              [Vals(heap, dict) EXCEPT ![key] = IF nid = NULL THEN NULL ELSE StringOf(g, nid)])
<1> DEFINE d == [dict EXCEPT ![key] = nid]
           new == IF nid = NULL THEN NULL ELSE StringOf(g, nid)
<1>1. /\ heap \in Heaps /\ dict \in [Keys -> Held(heap)] /\ IsFiniteSet(DOMAIN dict)
      /\ DOMAIN dict = Keys
  BY StringStoreAssumption DEF Ready
<1>2. \A i \in Nat \ {0} : RefOf(heap, i) \in Nat /\ RefOf(g, i) \in Nat
  BY <1>1, HeapFields
<1>3. \A i \in Nat \ {0} :
        /\ Times(dict, i) \in Nat /\ Times(d, i) \in Nat
        /\ Times(d, i) = Times(dict, i) - Hit(dict[key], i) + Hit(nid, i)
        /\ Times(dict, i) >= Hit(dict[key], i)
        /\ \A y \in DOMAIN dict : y # key /\ dict[y] = i => Times(dict, i) >= Hit(dict[key], i) + 1
  BY <1>1, TimesPut
<1>4. \A i \in Nat \ {0} : RefOf(heap, i) >= Times(dict, i) + Hit(cmd.arg, i)
  BY DEF Ready
<1>5. \A id, i : Hit(id, i) \in {0, 1}
  BY HeldFacts
<1>6. \A i \in DOMAIN heap :
        RefOf(heap, i) > Times(dict, i) + Hit(cmd.arg, i) => Stays(heap, g, i)
  BY <1>1, <1>2, <1>3, <1>5, HeapFields
<1>7. ASSUME NEW k \in Keys, k # key
      PROVE  dict[k] \in Held(g) /\ Value(g, d, k) = Value(heap, dict, k)
  <2>1. dict[k] \in Held(heap) /\ d[k] = dict[k]
    BY <1>1, <1>7
  <2>2. dict[k] \in DOMAIN heap => Stays(heap, g, dict[k])
    <3> SUFFICES ASSUME dict[k] \in DOMAIN heap PROVE Stays(heap, g, dict[k])
      OBVIOUS
    <3>1. dict[k] \in Nat \ {0}
      BY <1>1, HeapFields
    <3>2. ASSUME NEW i, i = dict[k]
          PROVE  RefOf(heap, i) > Hit(dict[key], i) + Hit(cmd.arg, i)
      <4>1. i \in Nat \ {0} /\ k \in DOMAIN dict /\ dict[k] = i
        BY <1>1, <3>1, <3>2
      <4>2. Times(dict, i) >= Hit(dict[key], i) + 1
        BY <1>3, <1>7, <4>1
      <4>3. RefOf(heap, i) >= Times(dict, i) + Hit(cmd.arg, i)
        BY <1>4, <4>1
      <4>4. Times(dict, i) \in Nat /\ RefOf(heap, i) \in Nat
        BY <1>2, <1>3, <4>1
      <4>5. Hit(dict[key], i) \in {0, 1} /\ Hit(cmd.arg, i) \in {0, 1}
        BY <1>5
      <4> QED
        BY <4>2, <4>3, <4>4, <4>5
    <3> QED
      BY <3>2
  <2> QED
    BY <1>1, <2>1, <2>2, HeldStays DEF Value
<1>8. d \in [Keys -> Held(g)]
  BY <1>1, <1>7
<1>9. Value(g, d, key) = new
  BY <1>1 DEF Value
<1>10. Vals(g, d) = [Vals(heap, dict) EXCEPT ![key] = new]
  <2> HIDE DEF d, new
  <2> QED
    BY <1>7, <1>9 DEF Vals
<1>11. \A i \in Nat \ {0} : RefOf(g, i) - Times(d, i) - Hit(narg, i)
                              = RefOf(heap, i) - Times(dict, i) - Hit(cmd.arg, i)
  <2> TAKE i \in Nat \ {0}
  <2>1. /\ Hit(dict[key], i) \in Int /\ Hit(nid, i) \in Int
        /\ Hit(cmd.arg, i) \in Int /\ Hit(narg, i) \in Int
    BY DEF Hit
  <2>2. /\ RefOf(heap, i) \in Nat /\ RefOf(g, i) \in Nat
        /\ Times(dict, i) \in Nat /\ Times(d, i) \in Nat
        /\ Times(d, i) = Times(dict, i) - Hit(dict[key], i) + Hit(nid, i)
        /\ RefOf(g, i) = RefOf(heap, i) - Hit(dict[key], i) + Hit(nid, i)
                           - Hit(cmd.arg, i) + Hit(narg, i)
    BY <1>2, <1>3
  <2> HIDE DEF d
  <2> QED
    BY <2>1, <2>2
<1>12. PICK r : r = State(g, d, narg, TRUE)
  OBVIOUS
<1>13. r.heap = g /\ r.dict = d /\ r.arg = narg
  BY <1>12 DEF State
<1> DEFINE vals == [Vals(heap, dict) EXCEPT ![key] = new]
<1>14. Does(cmd, r, vals)
  <2> HIDE DEF d, vals
  <2>1. Vals(g, d) = vals
    BY <1>10 DEF vals
  <2> QED
    BY <2>1, <1>6, <1>8, <1>11, <1>13 DEF Does
<1> QED
  BY <1>12, <1>14
LEMMA StaysOn ==
  ASSUME NEW f, NEW g, NEW h, NEW i, Stays(f, g, i), Stays(g, h, i)
  PROVE  Stays(f, h, i)
  BY DEF Stays

LEMMA EncodeStays ==
  ASSUME NEW h \in Heaps, NEW id \in DOMAIN h, NEW e, Encodes(h, id, e)
  PROVE  \A i \in DOMAIN h : RefOf(h, i) > Hit(id, i) => Stays(h, e.heap, i)
<1> TAKE i \in DOMAIN h
<1> HAVE RefOf(h, i) > Hit(id, i)
<1>1. CASE i = id
  <2>1. h[id].ref > 1
    BY <1>1 DEF RefOf, Hit
  <2>2. e.heap = h
    BY <2>1 DEF Encodes, With
  <2> QED
    BY <2>2, SameStays
<1>2. CASE i # id
  BY <1>2, SameStays DEF Encodes
<1> QED
  BY <1>1, <1>2

\* What the key to be changed holds, and what any key holds.
LEMMA KeyHeld ==
  ASSUME NEW cmd, Ready(cmd), NEW key \in Keys
  PROVE  /\ dict[key] \in Held(heap) /\ cmd.arg \in Held(heap)
         /\ dict[key] # NULL => Value(heap, dict, key) = StringOf(heap, dict[key])
         /\ (Value(heap, dict, key) = NULL <=> dict[key] = NULL)
         /\ dict[key] # NULL => Value(heap, dict, key) \in Values
         /\ \A i \in DOMAIN heap : RefOf(heap, i) >= Hit(dict[key], i) + Hit(cmd.arg, i)
         /\ \A i \in DOMAIN heap : \A k \in Keys : k # key /\ dict[k] = i =>
              RefOf(heap, i) >= Hit(dict[key], i) + Hit(cmd.arg, i) + 1
<1>1. heap \in Heaps /\ dict \in [Keys -> Held(heap)] /\ IsFiniteSet(DOMAIN dict) /\ DOMAIN dict = Keys
  BY StringStoreAssumption DEF Ready
<1>2. dict[key] # NULL => Value(heap, dict, key) = StringOf(heap, dict[key]) /\ StringOf(heap, dict[key]) \in Values
  BY <1>1, HeldFacts DEF Value
<1>3. NULL \notin Values
  BY NullAssumption DEF Values
<1>4. ASSUME NEW i \in DOMAIN heap
      PROVE  /\ RefOf(heap, i) >= Hit(dict[key], i) + Hit(cmd.arg, i)
             /\ \A k \in Keys : k # key /\ dict[k] = i => RefOf(heap, i) >= Hit(dict[key], i) + Hit(cmd.arg, i) + 1
  <2>1. i \in Nat \ {0} /\ RefOf(heap, i) \in Nat
    BY <1>1, HeapFields
  <2>2. /\ Times(dict, i) \in Nat /\ Times(dict, i) >= Hit(dict[key], i)
        /\ \A y \in DOMAIN dict : y # key /\ dict[y] = i => Times(dict, i) >= Hit(dict[key], i) + 1
    BY <1>1, TimesPut
  <2>3. RefOf(heap, i) >= Times(dict, i) + Hit(cmd.arg, i)
    BY <2>1 DEF Ready
  <2>4. Hit(dict[key], i) \in {0, 1} /\ Hit(cmd.arg, i) \in {0, 1}
    BY HeldFacts
  <2> QED
    BY <1>1, <2>1, <2>2, <2>3, <2>4
<1> QED
  BY <1>1, <1>2, <1>3, <1>4 DEF Ready, Value

LEMMA SetFacts ==
  ASSUME NEW cmd, Ready(cmd), cmd.arg \in DOMAIN heap
  PROVE  /\ Does(cmd, Set(cmd), [Vals(heap, dict) EXCEPT ![cmd.key] = StringOf(heap, cmd.arg)])
         /\ IsShared(Set(cmd).dict[cmd.key]) => sharing
<1> DEFINE key == cmd.key
           arg == cmd.arg
           e == TryEncode(heap, arg)
           h == Incr(e.heap, e.id)
           g == Release(h, dict[key])
<1>1. heap \in Heaps /\ key \in Keys /\ sharing \in BOOLEAN /\ DOMAIN dict = Keys
  BY DEF Ready
<1>2. Encodes(heap, arg, e)
  BY <1>1, TryEncodeFacts
<1>3. Set(cmd) = State(g, [dict EXCEPT ![key] = e.id], e.id, TRUE)
  BY DEF Set
<1>4. /\ dict[key] \in Held(heap)
      /\ \A i \in DOMAIN heap : RefOf(heap, i) >= Hit(dict[key], i) + Hit(arg, i)
  BY <1>1, KeyHeld
<1>5. \A i \in DOMAIN heap : RefOf(heap, i) > Hit(arg, i) => Stays(heap, e.heap, i)
  BY <1>1, <1>2, EncodeStays
<1> HIDE DEF e, key, arg
<1>6. /\ e.heap \in Heaps /\ e.id \in Int /\ e.id \in DOMAIN e.heap \cup SharedIds
      /\ (IsShared(e.id) => sharing) /\ StringOf(e.heap, e.id) = StringOf(heap, arg)
      /\ (e.id \in DOMAIN e.heap \/ IsShared(e.id)) /\ e.id # NULL
  BY <1>2, SharedFacts, NullAssumption DEF Encodes
<1>7. \A i \in Nat \ {0} : RefOf(e.heap, i) = RefOf(heap, i) - Hit(arg, i) + Hit(e.id, i)
  BY <1>2 DEF Encodes, Passed
<1>8. /\ h \in Heaps /\ DOMAIN h = DOMAIN e.heap
      /\ \A i \in Nat \ {0} : RefOf(h, i) = RefOf(e.heap, i) + Hit(e.id, i)
      /\ \A i \in Int : StringOf(h, i) = StringOf(e.heap, i)
      /\ \A i \in DOMAIN h : h[i].enc = e.heap[i].enc
  BY <1>6, IncrFacts
<1> HIDE DEF h
<1>9. \A i \in DOMAIN e.heap : Stays(e.heap, h, i)
  BY <1>6, <1>8, HeapFields DEF Stays
<1>10. \A id, i : Hit(id, i) \in Int /\ Hit(id, i) >= 0 /\ Hit(id, i) <= 1
  BY DEF Hit
<1>11. \A i \in Nat \ {0} : RefOf(heap, i) \in Nat /\ RefOf(e.heap, i) \in Nat /\ RefOf(h, i) \in Nat
  BY <1>1, <1>6, <1>8, HeapFields
<1>12. dict[key] \in Held(h)
  <2> SUFFICES ASSUME dict[key] \in DOMAIN heap PROVE dict[key] \in DOMAIN h
    BY <1>4 DEF Held
  <2>1. RefOf(heap, dict[key]) >= 1 + Hit(arg, dict[key])
    BY <1>4 DEF Hit
  <2>2. RefOf(heap, dict[key]) > Hit(arg, dict[key])
    BY <1>1, <1>10, <1>11, <2>1, HeapFields
  <2> QED
    BY <1>5, <1>8, <2>2 DEF Stays
<1>13. /\ g \in Heaps
       /\ \A i \in Nat \ {0} : RefOf(g, i) = RefOf(h, i) - Hit(dict[key], i)
       /\ \A i \in DOMAIN h : RefOf(h, i) > Hit(dict[key], i) => Stays(h, g, i)
  BY <1>8, <1>12, ReleaseFacts
<1> HIDE DEF g
<1>14. e.id \in DOMAIN h => Stays(h, g, e.id)
  <2> SUFFICES ASSUME e.id \in DOMAIN h PROVE RefOf(h, e.id) > Hit(dict[key], e.id)
    BY <1>13
  <2>1. e.id \in Nat \ {0} /\ RefOf(e.heap, e.id) # 0 /\ Hit(e.id, e.id) = 1
    BY <1>6, <1>8, HeapFields DEF Hit
  <2> QED
    BY <1>8, <1>10, <1>11, <2>1
<1>15. e.id \in Held(g) /\ StringOf(g, e.id) = StringOf(heap, arg)
  <2>1. e.id \in Held(h) /\ StringOf(h, e.id) = StringOf(heap, arg)
    BY <1>6, <1>8 DEF Held
  <2> QED
    BY <1>6, <1>8, <1>13, <1>14, <2>1, HeldStays
<1>16. \A i \in Nat \ {0} : RefOf(g, i) = RefOf(heap, i) - Hit(dict[key], i) + Hit(e.id, i)
                                           - Hit(arg, i) + Hit(e.id, i)
  <2> TAKE i \in Nat \ {0}
  <2>1. /\ Hit(dict[key], i) \in Int /\ Hit(e.id, i) \in Int /\ Hit(arg, i) \in Int
        /\ RefOf(heap, i) \in Nat
    BY <1>10, <1>11
  <2> QED
    BY <1>7, <1>8, <1>13, <2>1
<1>17. ASSUME NEW i \in DOMAIN heap, RefOf(heap, i) > Hit(dict[key], i) + Hit(arg, i)
       PROVE  Stays(heap, g, i)
  <2>0. /\ Hit(dict[key], i) \in {0, 1} /\ Hit(e.id, i) \in {0, 1} /\ Hit(arg, i) \in {0, 1}
        /\ i \in Nat \ {0} /\ RefOf(heap, i) \in Nat
    BY <1>1, <1>11, HeldFacts, HeapFields
  <2>1. RefOf(heap, i) > Hit(arg, i)
    BY <1>17, <2>0
  <2>2. Stays(heap, e.heap, i) /\ i \in DOMAIN e.heap
    BY <1>5, <2>1 DEF Stays
  <2>3. RefOf(h, i) > Hit(dict[key], i)
    BY <1>7, <1>8, <1>17, <2>0
  <2>4. Stays(heap, h, i)
    BY <1>9, <2>2, StaysOn
  <2> QED
    BY <1>8, <1>13, <2>2, <2>3, <2>4, StaysOn
<1>18. arg # NULL
  BY <1>1, HeapFields, NullAssumption DEF arg
<1>19. Does(cmd, State(g, [dict EXCEPT ![key] = e.id], e.id, TRUE),
            [Vals(heap, dict) EXCEPT ![key] = StringOf(g, e.id)])
  BY <1>1, <1>6, <1>13, <1>15, <1>16, <1>17, <1>18, PutFacts DEF arg
<1>20. Set(cmd).dict[key] = e.id
  BY <1>1, <1>3 DEF State
<1> QED
  BY <1>3, <1>6, <1>15, <1>19, <1>20 DEF key, arg
LEMMA AppendFacts ==
  ASSUME NEW cmd, Ready(cmd), cmd.arg \in DOMAIN heap
  PROVE  LET old == Value(heap, dict, cmd.key)
             s == StringOf(heap, cmd.arg)
             r == AppendTo(cmd)
         IN IF M!MayAppend(old, s)
              THEN /\ Does(cmd, r, [Vals(heap, dict) EXCEPT ![cmd.key] = M!AppendedText(old, s)])
                   /\ IsShared(r.dict[cmd.key]) => sharing
              ELSE r = Refused(cmd)
<1> DEFINE old == Value(heap, dict, cmd.key)
           s == StringOf(heap, cmd.arg)
           key == cmd.key
           arg == cmd.arg
           u == Unshared(key)
           g == [u.heap EXCEPT ![u.id].str = @ \o s]
<1>1. CASE ~M!MayAppend(old, s)
  BY <1>1 DEF AppendTo
<1>2. CASE M!MayAppend(old, s) /\ old = NULL
  <2>1. cmd.key \in Keys /\ DOMAIN dict = Keys
    BY DEF Ready
  <2>2. dict[cmd.key] = NULL
    BY <1>2, <2>1, KeyHeld
  <2>3. AppendTo(cmd) = Set(cmd)
    BY <1>2, <2>2 DEF AppendTo, Set, Release
  <2>4. M!AppendedText(old, s) = s
    BY <1>2 DEF M!AppendedText
  <2> QED
    BY <1>2, <2>3, <2>4, SetFacts
<1>3. CASE M!MayAppend(old, s) /\ old # NULL
  <2>1. heap \in Heaps /\ key \in Keys /\ DOMAIN dict = Keys
    BY DEF Ready
  <2>2. /\ dict[key] \in Held(heap) \ {NULL} /\ old = StringOf(heap, dict[key]) /\ old \in Values
        /\ \A i \in DOMAIN heap : RefOf(heap, i) >= Hit(dict[key], i) + Hit(arg, i)
    BY <1>3, <2>1, KeyHeld
  <2>3. /\ u.heap \in Heaps /\ u.id \in DOMAIN u.heap
        /\ u.heap[u.id].enc = "raw" /\ u.heap[u.id].str = old /\ u.heap[u.id].ref = 1
        /\ Passed(heap, u.heap, dict[key], u.id)
        /\ \A i \in DOMAIN heap : RefOf(heap, i) > Hit(dict[key], i) =>
             Stays(heap, u.heap, i) /\ i # u.id
    BY <2>1, <2>2, UnsharedFacts
  <2>4. AppendTo(cmd) = State(g, [dict EXCEPT ![key] = u.id], arg, TRUE)
    BY <1>3 DEF AppendTo
  <2> HIDE DEF u, key
  <2>5. s \in Values /\ old \o s \in Values /\ old \o s \in Seq(Symbols)
    <3>1. s \in Values
      BY <2>1, TextsAreValues
    <3>2. Len(old \o s) <= MaxText
      BY <1>3 DEF M!MayAppend, M!AppendedText
    <3> QED
      BY <2>2, <3>1, <3>2 DEF Values
  <2>6. u.heap[u.id] \in Objects /\ u.id \in Nat \ {0} /\ u.heap \in [DOMAIN u.heap -> Objects]
        /\ DOMAIN u.heap \subseteq Nat \ {0} /\ IsFiniteSet(DOMAIN u.heap)
    BY <2>3, HeapFields
  <2> DEFINE o == [u.heap[u.id] EXCEPT !.str = @ \o s]
  <2>7. o \in Objects /\ o.enc = "raw" /\ o.str = old \o s /\ o.ref = 1
    BY <2>3, <2>5, <2>6 DEF Objects
  <2>8. g = [u.heap EXCEPT ![u.id] = o]
    OBVIOUS
  <2> HIDE DEF g, o
  <2>9. g \in [DOMAIN u.heap -> Objects] /\ g[u.id] = o /\ \A i \in DOMAIN u.heap : i # u.id => g[i] = u.heap[i]
    BY <2>3, <2>6, <2>7, <2>8
  <2>10. g \in Heaps /\ DOMAIN g = DOMAIN u.heap
    BY <2>6, <2>9, IsHeap
  <2>11. \A i \in Nat \ {0} : RefOf(g, i) = RefOf(u.heap, i)
    BY <2>3, <2>7, <2>9, <2>10 DEF RefOf
  <2>12. StringOf(g, u.id) = old \o s
    <3>1. ~IsShared(u.id) /\ g[u.id].enc # "int" /\ g[u.id].str = old \o s
      BY <2>6, <2>7, <2>9 DEF IsShared
    <3> HIDE DEF old, s
    <3> QED
      BY <3>1 DEF StringOf
  <2>13. \A i \in Nat \ {0} : /\ RefOf(u.heap, i) = RefOf(heap, i) - Hit(dict[key], i) + Hit(u.id, i)
                              /\ RefOf(heap, i) \in Nat
    BY <2>1, <2>3, HeapFields DEF Passed
  <2>14. ASSUME NEW i \in DOMAIN heap, RefOf(heap, i) > Hit(dict[key], i) PROVE Stays(heap, g, i)
    <3>1. Stays(heap, u.heap, i) /\ i # u.id
      BY <2>3, <2>14
    <3>2. Stays(u.heap, g, i)
      BY <2>9, <2>10, <3>1, SameStays DEF Stays
    <3> QED
      BY <3>1, <3>2, StaysOn
  <2>15. Stays(heap, g, arg)
    <3>1. RefOf(heap, arg) >= Hit(dict[key], arg) + 1
      BY <2>2 DEF Hit
    <3>2. arg \in Nat \ {0} /\ RefOf(heap, arg) \in Nat /\ Hit(dict[key], arg) \in {0, 1}
      BY <2>1, HeapFields, HeldFacts
    <3> QED
      BY <2>14, <3>1, <3>2
  <2>16. arg \in Held(g) /\ StringOf(g, arg) = s
    BY <2>15 DEF Stays, Held
  <2>17. u.id \in Held(g) /\ u.id # NULL /\ arg # NULL /\ ~IsShared(u.id)
    BY <2>1, <2>3, <2>6, <2>10, HeapFields, NullAssumption DEF Held, IsShared
  <2>18. \A i \in Nat \ {0} : RefOf(g, i) = RefOf(heap, i) - Hit(dict[key], i) + Hit(u.id, i)
                                             - Hit(arg, i) + Hit(arg, i)
    <3> TAKE i \in Nat \ {0}
    <3>1. Hit(dict[key], i) \in Int /\ Hit(u.id, i) \in Int /\ Hit(arg, i) \in Int
      BY DEF Hit
    <3> QED
      BY <2>11, <2>13, <3>1
  <2>19. \A i \in DOMAIN heap : RefOf(heap, i) > Hit(dict[key], i) + Hit(arg, i) => Stays(heap, g, i)
    <3> TAKE i \in DOMAIN heap
    <3>1. i \in Nat \ {0} /\ RefOf(heap, i) \in Nat /\ Hit(arg, i) \in {0, 1} /\ Hit(dict[key], i) \in {0, 1}
      BY <2>1, HeapFields, HeldFacts
    <3> QED
      BY <2>14, <3>1
  <2>20. Does(cmd, State(g, [dict EXCEPT ![key] = u.id], arg, TRUE),
              [Vals(heap, dict) EXCEPT ![key] = StringOf(g, u.id)])
    BY <2>1, <2>10, <2>16, <2>17, <2>18, <2>19, PutFacts
  <2>21. AppendTo(cmd).dict[key] = u.id
    BY <2>1, <2>4 DEF State
  <2>22. M!AppendedText(old, s) = old \o s
    BY <1>3 DEF M!AppendedText
  <2> QED
    BY <1>3, <2>4, <2>12, <2>17, <2>20, <2>21, <2>22 DEF key
<1> QED
  BY <1>1, <1>2, <1>3

LEMMA IncrementFacts ==
  ASSUME NEW cmd, Ready(cmd), cmd.arg = NULL
  PROVE  LET old == Value(heap, dict, cmd.key)
             r == Increment(cmd)
         IN IF M!MayIncr(old)
              THEN /\ Does(cmd, r, [Vals(heap, dict) EXCEPT ![cmd.key] = M!IncrementedText(old)])
                   /\ IsShared(r.dict[cmd.key]) => sharing
              ELSE r = Refused(cmd)
<1> DEFINE old == Value(heap, dict, cmd.key)
           key == cmd.key
           id == dict[key]
           n == IF old = NULL THEN 1 ELSE Len(old) + 1
           new == CreateForValue(heap, n)
           inPlace == id # NULL /\ ~IsShared(id) /\ heap[id].enc = "int" /\ heap[id].ref = 1
                        /\ n >= SharedIntegers
<1>1. CASE ~M!MayIncr(old)
  BY <1>1 DEF Increment
<1>2. CASE M!MayIncr(old)
  <2>1. heap \in Heaps /\ key \in Keys /\ DOMAIN dict = Keys /\ sharing \in BOOLEAN
    BY DEF Ready
  <2>2. /\ id \in Held(heap) /\ (id # NULL => old = StringOf(heap, id) /\ old \in Values)
        /\ (old = NULL <=> id = NULL)
        /\ \A i \in DOMAIN heap : RefOf(heap, i) >= Hit(id, i) + Hit(NULL, i)
    BY <2>1, KeyHeld
  <2> HIDE DEF key
  <2>4. n \in 1 .. MaxText /\ M!IncrementedText(old) = M!NumberText(n)
    <3>1. CASE old = NULL
      BY <3>1, TextsAssumption DEF M!IncrementedText
    <3>2. CASE old # NULL
      <4>1. Len(old) < MaxText /\ Len(old) \in Nat /\ MaxText \in Nat
        BY <1>2, <2>2, <3>2, TextsAssumption DEF M!MayIncr, Values
      <4> QED
        BY <3>2, <4>1 DEF M!IncrementedText
    <3> QED
      BY <3>1, <3>2
  <2>5. \A i \in Nat \ {0} : RefOf(heap, i) \in Nat /\ Hit(id, i) \in Int /\ Hit(NULL, i) = 0
    BY <2>1, HeapFields, HeldFacts DEF Hit
  <2>6. CASE inPlace
    <3> DEFINE o == [heap[id] EXCEPT !.num = n]
               g == [heap EXCEPT ![id].num = n]
    <3>1. /\ id \in DOMAIN heap /\ id \in Nat \ {0} /\ heap[id] \in Objects /\ heap[id].enc = "int"
          /\ heap[id].ref = 1 /\ heap \in [DOMAIN heap -> Objects]
          /\ DOMAIN heap \subseteq Nat \ {0} /\ IsFiniteSet(DOMAIN heap) /\ ~IsShared(id)
      BY <2>1, <2>2, <2>6, HeapFields, HeldFacts
    <3> HIDE DEF n, id
    <3>2. o \in Objects /\ o.enc = "int" /\ o.num = n /\ o.ref = 1
      BY <2>4, <3>1 DEF Objects
    <3>3. g = [heap EXCEPT ![id] = o]
      OBVIOUS
    <3>4. Increment(cmd) = State(g, dict, NULL, TRUE)
      BY <1>2, <2>6 DEF Increment, n, id, key
    <3> HIDE DEF g, o
    <3>5. g \in [DOMAIN heap -> Objects] /\ g[id] = o /\ \A i \in DOMAIN heap : i # id => g[i] = heap[i]
      BY <3>1, <3>2, <3>3
    <3>6. g \in Heaps /\ DOMAIN g = DOMAIN heap
      BY <3>1, <3>5, IsHeap
    <3>7. \A i \in Nat \ {0} : RefOf(g, i) = RefOf(heap, i)
      BY <3>1, <3>2, <3>5, <3>6 DEF RefOf
    <3>8. StringOf(g, id) = M!NumberText(n)
      BY <3>1, <3>2, <3>5 DEF StringOf
    <3>9. \A i \in DOMAIN heap : RefOf(heap, i) > Hit(id, i) + Hit(NULL, i) => Stays(heap, g, i)
      <4> TAKE i \in DOMAIN heap
      <4> HAVE RefOf(heap, i) > Hit(id, i) + Hit(NULL, i)
      <4>1. i # id
        BY <2>5, <3>1 DEF RefOf, Hit
      <4> QED
        BY <3>5, <3>6, <4>1, SameStays
    <3>10. \A i \in Nat \ {0} : RefOf(g, i) = RefOf(heap, i) - Hit(id, i) + Hit(id, i)
                                               - Hit(NULL, i) + Hit(NULL, i)
      BY <2>5, <3>7
    <3>11. id \in Held(g) /\ NULL \in Held(g) /\ id # NULL
      BY <3>1, <3>6, NullAssumption DEF Held
    <3>12. [dict EXCEPT ![key] = id] = dict
      BY <2>1 DEF id, Ready
    <3>13. Does(cmd, State(g, [dict EXCEPT ![key] = id], NULL, TRUE),
                [Vals(heap, dict) EXCEPT ![key] = StringOf(g, id)])
      BY <2>1, <3>6, <3>9, <3>10, <3>11, PutFacts DEF id
    <3>14. Increment(cmd).dict[key] = id
      BY <3>4 DEF State, id
    <3> QED
      BY <1>2, <2>4, <3>1, <3>4, <3>8, <3>12, <3>13, <3>14 DEF key
  <2>7. CASE ~inPlace
    <3> DEFINE g == Release(new.heap, id)
    <3>1. Increment(cmd) = State(g, [dict EXCEPT ![key] = new.id], NULL, TRUE)
      BY <1>2, <2>7 DEF Increment, key
    <3> HIDE DEF n, id
    <3>2. Makes(heap, new, M!NumberText(n)) /\ (IsShared(new.id) => sharing)
      BY <2>1, <2>4, CreateIntFacts DEF CreateForValue
    <3> HIDE DEF new
    <3>3. /\ new.heap \in Heaps /\ new.id \in Int /\ new.id \in DOMAIN new.heap \cup SharedIds
          /\ \A i \in DOMAIN heap : i \in DOMAIN new.heap /\ new.heap[i] = heap[i]
          /\ \A i \in Nat \ {0} : RefOf(new.heap, i) = RefOf(heap, i) + Hit(new.id, i)
          /\ StringOf(new.heap, new.id) = M!NumberText(n)
      BY <3>2 DEF Makes
    <3>4. id \in Held(new.heap)
      BY <2>2, <3>3 DEF Held
    <3>5. /\ g \in Heaps
          /\ \A i \in Nat \ {0} : RefOf(g, i) = RefOf(new.heap, i) - Hit(id, i)
          /\ \A i \in DOMAIN new.heap : RefOf(new.heap, i) > Hit(id, i) => Stays(new.heap, g, i)
      BY <3>3, <3>4, ReleaseFacts
    <3> HIDE DEF g
    <3>6. \A i \in Nat \ {0} : Hit(new.id, i) \in Int /\ Hit(new.id, i) >= 0
      BY DEF Hit
    <3>7. \A i \in Nat \ {0} : RefOf(g, i) = RefOf(heap, i) - Hit(id, i) + Hit(new.id, i)
                                               - Hit(NULL, i) + Hit(NULL, i)
      BY <2>5, <3>3, <3>5, <3>6
    <3>8. \A i \in DOMAIN heap : RefOf(heap, i) > Hit(id, i) + Hit(NULL, i) => Stays(heap, g, i)
      <4> TAKE i \in DOMAIN heap
      <4> HAVE RefOf(heap, i) > Hit(id, i) + Hit(NULL, i)
      <4>1. i \in Nat \ {0} /\ Stays(heap, new.heap, i) /\ i \in DOMAIN new.heap
        BY <2>1, <3>3, HeapFields, SameStays
      <4>2. RefOf(new.heap, i) > Hit(id, i)
        BY <2>5, <3>3, <3>6, <4>1
      <4> QED
        BY <3>5, <4>1, <4>2, StaysOn
    <3>9. new.id \in Held(new.heap) /\ new.id # NULL
      BY <3>3, NullAssumption DEF Held
    <3>10. new.id \in DOMAIN new.heap => Stays(new.heap, g, new.id)
      <4> SUFFICES ASSUME new.id \in DOMAIN new.heap PROVE RefOf(new.heap, new.id) > Hit(id, new.id)
        BY <3>5
      <4>1. new.id \in Nat \ {0} /\ RefOf(new.heap, new.id) \in Nat \ {0}
        BY <3>3, HeapFields
      <4>2. CASE id = new.id
        <5>1. id \in DOMAIN heap
          BY <2>2, <3>3, <4>1, <4>2, HeldFacts, SharedFacts, NullAssumption DEF Held, IsShared
        <5>2. RefOf(heap, new.id) \in Nat \ {0} /\ Hit(new.id, new.id) = 1
          BY <2>1, <4>1, <4>2, <5>1, HeapFields DEF Hit
        <5> QED
          BY <3>3, <4>1, <4>2, <5>2
      <4>3. CASE id # new.id
        BY <4>1, <4>3 DEF Hit
      <4> QED
        BY <4>2, <4>3
    <3>11. new.id \in Held(g) /\ StringOf(g, new.id) = M!NumberText(n)
      BY <3>3, <3>5, <3>9, <3>10, HeldStays
    <3>12. NULL \in Held(g)
      BY DEF Held
    <3>13. Does(cmd, State(g, [dict EXCEPT ![key] = new.id], NULL, TRUE),
                [Vals(heap, dict) EXCEPT ![key] = StringOf(g, new.id)])
      BY <2>1, <3>5, <3>7, <3>8, <3>9, <3>11, <3>12, PutFacts DEF id
    <3>14. Increment(cmd).dict[key] = new.id
      BY <2>1, <3>1 DEF State
    <3> QED
      BY <1>2, <2>4, <3>1, <3>2, <3>11, <3>13, <3>14 DEF key
  <2> QED
    BY <2>6, <2>7
<1> QED
  BY <1>1, <1>2
LEMMA DeleteFacts ==
  ASSUME NEW cmd, Ready(cmd), cmd.arg = NULL
  PROVE  /\ Does(cmd, Delete(cmd), [Vals(heap, dict) EXCEPT ![cmd.key] = NULL])
         /\ Delete(cmd).dict[cmd.key] = NULL
         /\ ~Delete(cmd).done => Delete(cmd) = Refused(cmd)
<1> DEFINE key == cmd.key
           id == dict[key]
           g == Release(heap, id)
<1>1. /\ heap \in Heaps /\ key \in Keys /\ DOMAIN dict = Keys
      /\ dict \in [Keys -> Held(heap)]
  BY DEF Ready
<1>2. Delete(cmd) = State(g, [dict EXCEPT ![key] = NULL], NULL, id # NULL)
  BY DEF Delete
<1>3. id \in Held(heap)
  BY <1>1, KeyHeld
<1>4. CASE id = NULL
  <2>1. g = heap /\ [dict EXCEPT ![key] = NULL] = dict
    BY <1>1, <1>4 DEF Release
  <2>2. Delete(cmd) = Refused(cmd)
    BY <1>2, <1>4, <2>1 DEF Refused
  <2>3. [Vals(heap, dict) EXCEPT ![key] = NULL] = Vals(heap, dict)
    BY <1>1, <1>4 DEF Vals, Value
  <2>4. Refused(cmd).heap = heap /\ Refused(cmd).dict = dict /\ Refused(cmd).arg = NULL
    BY DEF Refused, State
  <2>5. NULL \in Held(heap)
    BY DEF Held
  <2>6. \A i \in DOMAIN heap : Stays(heap, heap, i)
    BY SameStays
  <2>7. Does(cmd, Refused(cmd), Vals(heap, dict))
    BY <1>1, <2>4, <2>5, <2>6 DEF Does
  <2> QED
    BY <1>4, <2>2, <2>3, <2>4, <2>7
<1>5. CASE id # NULL
  <2>1. /\ g \in Heaps
        /\ \A i \in Nat \ {0} : RefOf(g, i) = RefOf(heap, i) - Hit(id, i)
        /\ \A i \in DOMAIN heap : RefOf(heap, i) > Hit(id, i) => Stays(heap, g, i)
    BY <1>1, <1>3, ReleaseFacts
  <2>2. Delete(cmd) = State(g, [dict EXCEPT ![key] = NULL], NULL, TRUE)
    BY <1>2, <1>5
  <2> HIDE DEF g, id
  <2>3. \A i \in Nat \ {0} : RefOf(heap, i) \in Nat /\ Hit(id, i) \in Int /\ Hit(NULL, i) = 0
    BY <1>1, HeapFields, HeldFacts DEF Hit
  <2>4. \A i \in Nat \ {0} : RefOf(g, i) = RefOf(heap, i) - Hit(id, i) + Hit(NULL, i)
                                             - Hit(NULL, i) + Hit(NULL, i)
    BY <2>1, <2>3
  <2>5. \A i \in DOMAIN heap : RefOf(heap, i) > Hit(id, i) + Hit(NULL, i) => Stays(heap, g, i)
    <3> TAKE i \in DOMAIN heap
    <3>1. i \in Nat \ {0}
      BY <1>1, HeapFields
    <3> QED
      BY <2>1, <2>3, <3>1
  <2>6. NULL \in Held(g)
    BY DEF Held
  <2>7. Does(cmd, State(g, [dict EXCEPT ![key] = NULL], NULL, TRUE),
             [Vals(heap, dict) EXCEPT ![key] = NULL])
    <3>1. Does(cmd, State(g, [dict EXCEPT ![key] = NULL], NULL, TRUE),
             [Vals(heap, dict) EXCEPT ![key] = IF NULL = NULL THEN NULL ELSE StringOf(g, NULL)])
      BY <1>1, <2>1, <2>4, <2>5, <2>6, PutFacts DEF id
    <3> QED
      BY <3>1
  <2>8. Delete(cmd).dict[key] = NULL /\ Delete(cmd).done
    BY <1>1, <2>2 DEF State
  <2> QED
    BY <2>2, <2>7, <2>8
<1> QED
  BY <1>4, <1>5

LEMMA CopyFacts ==
  ASSUME NEW cmd, Ready(cmd), cmd.arg = NULL, cmd.to \in Keys, cmd.to # cmd.key
  PROVE  LET vals == Vals(heap, dict) r == Copy(cmd)
         IN IF vals[cmd.key] = NULL \/ vals[cmd.to] # NULL THEN r = Refused(cmd)
            ELSE /\ Does(cmd, r, [vals EXCEPT ![cmd.to] = vals[cmd.key]])
                 /\ ~IsShared(r.dict[cmd.to])
<1> DEFINE key == cmd.key
           to == cmd.to
           id == dict[key]
           vals == Vals(heap, dict)
           o == Dup(heap, id)
<1>1. heap \in Heaps /\ key \in Keys /\ to \in Keys /\ DOMAIN dict = Keys
  BY DEF Ready
<1>2. /\ id \in Held(heap) /\ (id # NULL => Value(heap, dict, key) = StringOf(heap, id))
      /\ (Value(heap, dict, key) = NULL <=> id = NULL)
      /\ (Value(heap, dict, to) = NULL <=> dict[to] = NULL)
  BY <1>1, KeyHeld
<1>3. vals[key] = Value(heap, dict, key) /\ vals[to] = Value(heap, dict, to)
  BY <1>1 DEF Vals
<1>4. CASE id = NULL \/ dict[to] # NULL
  BY <1>2, <1>3, <1>4 DEF Copy
<1>5. CASE ~(id = NULL \/ dict[to] # NULL)
  <2>1. Copy(cmd) = State(o.heap, [dict EXCEPT ![to] = o.id], NULL, TRUE)
    BY <1>5 DEF Copy
  <2>2. Makes(heap, o, StringOf(heap, id)) /\ o.id \in DOMAIN o.heap /\ ~IsShared(o.id)
    BY <1>1, <1>2, <1>5, DupFacts
  <2> HIDE DEF o, id
  <2>3. /\ o.heap \in Heaps /\ o.id \in Int
        /\ \A i \in DOMAIN heap : i \in DOMAIN o.heap /\ o.heap[i] = heap[i]
        /\ \A i \in Nat \ {0} : RefOf(o.heap, i) = RefOf(heap, i) + Hit(o.id, i)
        /\ StringOf(o.heap, o.id) = StringOf(heap, id)
    BY <2>2 DEF Makes
  <2>4. \A i \in Nat \ {0} : RefOf(heap, i) \in Nat /\ Hit(o.id, i) \in Int /\ Hit(NULL, i) = 0
    BY <1>1, HeapFields, HeldFacts DEF Hit
  <2>5. dict[to] = NULL
    BY <1>5
  <2>6. \A i \in Nat \ {0} : RefOf(o.heap, i) = RefOf(heap, i) - Hit(dict[to], i) + Hit(o.id, i)
                                                  - Hit(NULL, i) + Hit(NULL, i)
    BY <2>3, <2>4, <2>5
  <2>7. \A i \in DOMAIN heap : RefOf(heap, i) > Hit(dict[to], i) + Hit(NULL, i) => Stays(heap, o.heap, i)
    BY <2>3, SameStays
  <2>8. o.id \in Held(o.heap) /\ o.id # NULL /\ NULL \in Held(o.heap)
    BY <2>2, <2>3, NullAssumption DEF Held
  <2>9. Does(cmd, State(o.heap, [dict EXCEPT ![to] = o.id], NULL, TRUE),
             [Vals(heap, dict) EXCEPT ![to] = StringOf(o.heap, o.id)])
    BY <1>1, <2>3, <2>6, <2>7, <2>8, PutFacts
  <2>10. Copy(cmd).dict[to] = o.id
    BY <1>1, <2>1 DEF State
  <2>11. StringOf(o.heap, o.id) = vals[key]
    BY <1>2, <1>3, <1>5, <2>3 DEF id
  <2> QED
    BY <1>2, <1>3, <1>5, <2>1, <2>2, <2>9, <2>10, <2>11 DEF id
<1> QED
  BY <1>4, <1>5

LEMMA RenameFacts ==
  ASSUME NEW cmd, Ready(cmd), cmd.arg = NULL, cmd.to \in Keys, cmd.to # cmd.key
  PROVE  LET vals == Vals(heap, dict) r == Rename(cmd)
         IN IF vals[cmd.key] = NULL THEN r = Refused(cmd)
            ELSE /\ Does(cmd, r, [vals EXCEPT ![cmd.to] = vals[cmd.key], ![cmd.key] = NULL])
                 /\ r.dict[cmd.to] = dict[cmd.key] /\ r.dict[cmd.key] = NULL
<1> DEFINE key == cmd.key
           to == cmd.to
           a == dict[key]
           b == dict[to]
           vals == Vals(heap, dict)
           h == Incr(heap, a)
           f == Release(h, b)
           g == Decr(f, a)
           d1 == [dict EXCEPT ![to] = a]
           d == [d1 EXCEPT ![key] = NULL]
<1>1. /\ heap \in Heaps /\ key \in Keys /\ to \in Keys /\ DOMAIN dict = Keys /\ IsFiniteSet(Keys)
      /\ key # to /\ dict \in [Keys -> Held(heap)]
  BY StringStoreAssumption DEF Ready
<1>2. /\ a \in Held(heap) /\ (Value(heap, dict, key) = NULL <=> a = NULL) /\ b \in Held(heap)
      /\ a # NULL => a \in Int /\ (a \in DOMAIN heap \/ IsShared(a))
  BY <1>1, KeyHeld, HeldFacts
<1>3. vals[key] = Value(heap, dict, key)
  BY <1>1 DEF Vals
<1>4. CASE a = NULL
  BY <1>2, <1>3, <1>4 DEF Rename
<1>5. CASE a # NULL
  <2>1. Rename(cmd) = State(g, d, NULL, TRUE)
    <3>1. d = [dict EXCEPT ![cmd.to] = dict[cmd.key], ![cmd.key] = NULL]
      OBVIOUS
    <3>2. Rename(cmd) = State(g, [dict EXCEPT ![cmd.to] = dict[cmd.key], ![cmd.key] = NULL], NULL, TRUE)
      BY <1>5 DEF Rename
    <3> HIDE DEF g, d
    <3> QED
      BY <3>1, <3>2
  <2>2. DOMAIN d = Keys /\ d[key] = NULL /\ d[to] = a /\ \A k \in Keys \ {key, to} : d[k] = dict[k]
    BY <1>1
  <2>3. ASSUME NEW i \in Nat \ {0}
        PROVE  /\ Times(dict, i) \in Nat /\ Times(d, i) = Times(dict, i) - Hit(b, i)
               /\ Times(dict, i) >= Hit(b, i)
               /\ \A k \in Keys : k # to /\ dict[k] = i => Times(dict, i) >= Hit(b, i) + 1
    <3>0. IsFiniteSet(DOMAIN dict) /\ to \in DOMAIN dict
      BY <1>1
    <3>1. /\ Times(dict, i) \in Nat
          /\ Times(d1, i) = Times(dict, i) - Hit(b, i) + Hit(a, i)
          /\ Times(dict, i) >= Hit(b, i)
          /\ \A k \in Keys : k # to /\ dict[k] = i => Times(dict, i) >= Hit(b, i) + 1
      <4>1. \A k \in DOMAIN dict : k # to /\ dict[k] = i => Times(dict, i) >= Hit(b, i) + 1
        BY <3>0, TimesPut
      <4>2. \A k \in Keys : k # to /\ dict[k] = i => Times(dict, i) >= Hit(b, i) + 1
        BY <1>1, <4>1
      <4> QED
        BY <3>0, <4>2, TimesPut
    <3>2. IsFiniteSet(DOMAIN d1) /\ key \in DOMAIN d1 /\ d1[key] = a
      BY <1>1
    <3> HIDE DEF d1
    <3>3. Times(d, i) = Times(d1, i) - Hit(a, i) + Hit(NULL, i)
      BY <1>1, <3>2, TimesPut
    <3>4. Hit(NULL, i) = 0 /\ Hit(a, i) \in Int /\ Hit(b, i) \in Int
      BY HeldFacts DEF Hit
    <3> HIDE DEF d, a, b
    <3> QED
      BY <3>1, <3>3, <3>4
  <2> HIDE DEF d, d1
  <2>4. /\ h \in Heaps /\ DOMAIN h = DOMAIN heap
        /\ \A i \in Nat \ {0} : RefOf(h, i) = RefOf(heap, i) + Hit(a, i)
        /\ \A i \in Int : StringOf(h, i) = StringOf(heap, i)
        /\ \A i \in DOMAIN heap : h[i].enc = heap[i].enc
    BY <1>1, <1>2, <1>5, IncrFacts
  <2> HIDE DEF h
  <2>5. \A i \in DOMAIN heap : i \in Int /\ Stays(heap, h, i)
    BY <1>1, <2>4, HeapFields DEF Stays
  <2>6. b \in Held(h)
    BY <1>2, <2>4 DEF Held
  <2>7. /\ f \in Heaps
        /\ \A i \in Nat \ {0} : RefOf(f, i) = RefOf(h, i) - Hit(b, i)
        /\ \A i \in DOMAIN h : RefOf(h, i) > Hit(b, i) => Stays(h, f, i)
    BY <2>4, <2>6, ReleaseFacts
  <2> HIDE DEF f
  <2>8. \A i \in Nat \ {0} : /\ RefOf(heap, i) \in Nat /\ Hit(a, i) \in {0, 1} /\ Hit(b, i) \in {0, 1}
                             /\ RefOf(heap, i) >= Times(dict, i)
    <3> TAKE i \in Nat \ {0}
    <3>1. RefOf(heap, i) >= Times(dict, i) + Hit(NULL, i) /\ Hit(NULL, i) = 0
      BY HeldFacts DEF Ready
    <3> QED
      BY <1>1, <2>3, <3>1, HeapFields, HeldFacts
  <2>9. a \in DOMAIN heap => a \in DOMAIN f
    <3> SUFFICES ASSUME a \in DOMAIN heap PROVE RefOf(h, a) > Hit(b, a)
      BY <2>4, <2>7 DEF Stays
    <3>1. a \in Nat \ {0} /\ Times(dict, a) >= Hit(b, a) + 1 /\ Hit(a, a) = 1 /\ Times(dict, a) \in Nat
      BY <1>1, <2>3, HeapFields DEF Hit
    <3> HIDE DEF a, b
    <3> QED
      BY <2>4, <2>8, <3>1
  <2>10. /\ g \in Heaps
         /\ \A i \in Nat \ {0} : RefOf(g, i) = RefOf(f, i) - Hit(a, i)
         /\ \A i \in DOMAIN f : RefOf(f, i) > Hit(a, i) => Stays(f, g, i)
    BY <1>2, <1>5, <2>7, <2>9, DecrFacts DEF Stays
  <2> HIDE DEF g
  <2>11. \A i \in Nat \ {0} : RefOf(g, i) = RefOf(heap, i) - Hit(b, i)
    <3> HIDE DEF a, b
    <3> QED
      BY <2>4, <2>7, <2>8, <2>10
  <2>12. ASSUME NEW i \in DOMAIN heap, RefOf(heap, i) > Hit(b, i) PROVE Stays(heap, g, i)
    <3>1. i \in Nat \ {0}
      BY <1>1, HeapFields
    <3> HIDE DEF a, b
    <3>2. RefOf(h, i) > Hit(b, i) /\ RefOf(f, i) > Hit(a, i)
      BY <2>4, <2>7, <2>8, <2>12, <3>1
    <3>3. Stays(h, f, i) /\ i \in DOMAIN f
      BY <2>4, <2>7, <3>2 DEF Stays
    <3> QED
      BY <2>5, <2>10, <3>2, <3>3, StaysOn
  <2>13. ASSUME NEW k \in Keys, k # to
         PROVE  /\ dict[k] \in Held(g)
                /\ dict[k] # NULL => StringOf(g, dict[k]) = StringOf(heap, dict[k])
    <3>1. ASSUME NEW i \in DOMAIN heap, i = dict[k] PROVE Stays(heap, g, i)
      <4>1. i \in Nat \ {0}
        BY <1>1, HeapFields
      <4>2. Times(dict, i) >= Hit(b, i) + 1 /\ Times(dict, i) \in Nat
        BY <2>3, <2>13, <3>1, <4>1
      <4> HIDE DEF b
      <4>3. RefOf(heap, i) > Hit(b, i)
        BY <2>8, <4>1, <4>2
      <4> QED
        BY <2>12, <4>3
    <3>2. dict[k] \in Held(heap)
      BY <1>1
    <3> QED
      BY <1>1, <2>10, <3>1, <3>2, HeldStays
  <2>14. d \in [Keys -> Held(g)]
    <3>1. \A k \in Keys : d[k] \in Held(g)
      BY <1>1, <2>2, <2>13 DEF Held
    <3>2. d = [k \in Keys |-> d[k]]
      BY <1>1 DEF d, d1
    <3> QED
      BY <3>1, <3>2
  <2>15. Vals(g, d) = [vals EXCEPT ![to] = vals[key], ![key] = NULL]
    <3>1. \A k \in Keys : Value(g, d, k) = IF k = key THEN NULL
                                           ELSE IF k = to THEN Value(heap, dict, key)
                                           ELSE Value(heap, dict, k)
      BY <1>1, <1>5, <2>2, <2>13 DEF Value
    <3> HIDE DEF d
    <3> QED
      BY <1>1, <3>1 DEF Vals
  <2>16. \A i \in Nat \ {0} : RefOf(g, i) - Times(d, i) - Hit(NULL, i)
                                = RefOf(heap, i) - Times(dict, i) - Hit(NULL, i)
    <3> TAKE i \in Nat \ {0}
    <3>1. Hit(NULL, i) = 0
      BY HeldFacts
    <3> HIDE DEF a, b
    <3> QED
      BY <2>3, <2>8, <2>11, <3>1
  <2>17. \A i \in DOMAIN heap : RefOf(heap, i) > Times(dict, i) + Hit(NULL, i) => Stays(heap, g, i)
    <3> TAKE i \in DOMAIN heap
    <3>1. i \in Nat \ {0} /\ Hit(NULL, i) = 0
      BY <1>1, HeapFields, HeldFacts
    <3> HIDE DEF a, b
    <3> QED
      BY <2>3, <2>8, <2>12, <3>1
  <2> DEFINE r == Rename(cmd)
  <2>18. r.heap = g /\ r.dict = d /\ r.arg = NULL
    BY <2>1 DEF State
  <2>19. NULL \in Held(g)
    BY DEF Held
  <2> HIDE DEF r
  <2> DEFINE new == [vals EXCEPT ![to] = vals[key], ![key] = NULL]
  <2>20. Does(cmd, r, new)
    <3>1. Vals(r.heap, r.dict) = new
      BY <2>15, <2>18
    <3> HIDE DEF new, vals
    <3> QED
      BY <2>10, <2>14, <2>16, <2>17, <2>18, <2>19, <3>1 DEF Does
  <2> QED
    BY <1>2, <1>3, <1>5, <2>2, <2>18, <2>20 DEF r
<1> QED
  BY <1>4, <1>5
Names == {"set", "append", "incr", "del", "rename", "copy"}

\* A command that is to be run, and one that has been.
IsCommand(h, cmd) ==
  /\ cmd.name \in Names /\ cmd.key \in Keys
  /\ cmd.name \in {"set", "append"} => cmd.arg \in DOMAIN h /\ StringOf(h, cmd.arg) \in Texts
  /\ cmd.name \notin {"set", "append"} => cmd.arg = NULL
  /\ cmd.name \in {"rename", "copy"} => cmd.to \in Keys /\ cmd.to # cmd.key
WasRun(cmd) ==
  /\ cmd.name \in Names /\ cmd.key \in Keys
  /\ cmd.name \in {"set", "append"} => cmd.arg # NULL
  /\ cmd.name \in {"rename", "copy"} => cmd.to \in Keys

\* What the replica is sent for a command when the heap is h.
SentFrom(h, cmd) == [name |-> cmd.name, key |-> cmd.key, to |-> cmd.to,
                     text |-> IF cmd.arg = NULL THEN NULL ELSE StringOf(h, cmd.arg)]

LEMMA RefusedFacts ==
  ASSUME NEW cmd, Ready(cmd)
  PROVE  Does(cmd, Refused(cmd), Vals(heap, dict)) /\ ~Refused(cmd).done
<1>1. /\ Refused(cmd).heap = heap /\ Refused(cmd).dict = dict /\ Refused(cmd).arg = cmd.arg
      /\ ~Refused(cmd).done
  BY DEF Refused, State
<1>2. \A i \in DOMAIN heap : Stays(heap, heap, i)
  BY SameStays
<1> QED
  BY <1>1, <1>2 DEF Does, Ready

\* One of the commands of StringMap does to the values what was done.
Maps(cmd, r) ==
  \E c \in M!Commands :
    /\ Does(cmd, r, M!Applied(Vals(heap, dict), c))
    /\ r.done => Replayed(Vals(heap, dict), SentFrom(heap, cmd)) = M!Applied(Vals(heap, dict), c)

\* What the values may be shared with, after a command.
Private(cmd, r) ==
  /\ StoredAfter(cmd) \in [Keys -> BOOLEAN]
  /\ \A k \in Keys : r.dict[k] # NULL /\ IsShared(r.dict[k]) => StoredAfter(cmd)[k]

LEMMA CommandFacts ==
  /\ \A k \in Keys, t \in Texts : /\ [name |-> "set", key |-> k, text |-> t] \in M!Commands
                                  /\ [name |-> "append", key |-> k, text |-> t] \in M!Commands
  /\ \A k \in Keys : /\ [name |-> "incr", key |-> k] \in M!Commands
                     /\ [name |-> "del", key |-> k] \in M!Commands
  /\ \A k, l \in Keys : k # l => /\ [name |-> "rename", key |-> k, to |-> l] \in M!Commands
                                 /\ [name |-> "copy", key |-> k, to |-> l] \in M!Commands
  BY DEF M!Commands

LEMMA RunSet ==
  ASSUME NEW cmd, Ready(cmd), IsCommand(heap, cmd), cmd.name = "set", PrivateWhenNeeded,
         stored \in [Keys -> BOOLEAN]
  PROVE  Maps(cmd, Set(cmd)) /\ Set(cmd).done /\ Private(cmd, Set(cmd))
<1> DEFINE t == StringOf(heap, cmd.arg)
           c == [name |-> "set", key |-> cmd.key, text |-> t]
           r == Set(cmd)
           vals == Vals(heap, dict)
<1>1. /\ cmd.key \in Keys /\ cmd.arg \in DOMAIN heap /\ t \in Texts /\ heap \in Heaps
      /\ sharing \in BOOLEAN /\ DOMAIN dict = Keys
  BY DEF Ready, IsCommand
<1>2. c \in M!Commands
  BY <1>1, CommandFacts
<1>3. M!Applied(vals, c) = [vals EXCEPT ![cmd.key] = t]
  BY DEF M!Applied
<1>4. cmd.arg # NULL
  BY <1>1, HeapFields, NullAssumption
<1>5. Replayed(vals, SentFrom(heap, cmd)) = [vals EXCEPT ![cmd.key] = t]
  BY <1>4 DEF Replayed, SentFrom, M!Applied
<1>6. Does(cmd, r, [vals EXCEPT ![cmd.key] = t]) /\ (IsShared(r.dict[cmd.key]) => sharing)
  BY <1>1, SetFacts
<1>7. r.done /\ \A k \in Keys : k # cmd.key => r.dict[k] = dict[k]
  BY <1>1 DEF Set, State
<1>8. StoredAfter(cmd) = [stored EXCEPT ![cmd.key] = sharing]
  BY DEF StoredAfter
<1> HIDE DEF r
<1>9. Private(cmd, r)
  BY <1>1, <1>6, <1>7, <1>8 DEF Private, PrivateWhenNeeded
<1> HIDE DEF c, t, vals
<1>10. Maps(cmd, r)
  BY <1>2, <1>3, <1>5, <1>6 DEF Maps, vals
<1> QED
  BY <1>7, <1>9, <1>10 DEF r

LEMMA RunAppend ==
  ASSUME NEW cmd, Ready(cmd), IsCommand(heap, cmd), cmd.name = "append", PrivateWhenNeeded,
         stored \in [Keys -> BOOLEAN]
  PROVE  LET r == AppendTo(cmd)
         IN Maps(cmd, r) /\ (r.done => Private(cmd, r)) /\ (~r.done => r = Refused(cmd))
<1> DEFINE t == StringOf(heap, cmd.arg)
           c == [name |-> "append", key |-> cmd.key, text |-> t]
           r == AppendTo(cmd)
           vals == Vals(heap, dict)
           old == Value(heap, dict, cmd.key)
           new == [vals EXCEPT ![cmd.key] = M!AppendedText(old, t)]
<1>1. /\ cmd.key \in Keys /\ cmd.arg \in DOMAIN heap /\ t \in Texts /\ heap \in Heaps
      /\ sharing \in BOOLEAN /\ DOMAIN dict = Keys
  BY DEF Ready, IsCommand
<1>2. c \in M!Commands /\ vals[cmd.key] = old
  BY <1>1, CommandFacts DEF Vals
<1>3. M!Applied(vals, c) = IF M!MayAppend(old, t) THEN new ELSE vals
  BY <1>2 DEF M!Applied
<1>4. cmd.arg # NULL
  BY <1>1, HeapFields, NullAssumption
<1>5. Replayed(vals, SentFrom(heap, cmd)) = new
  BY <1>2, <1>4 DEF Replayed, SentFrom
<1>6. IF M!MayAppend(old, t)
        THEN Does(cmd, r, new) /\ (IsShared(r.dict[cmd.key]) => sharing)
        ELSE r = Refused(cmd)
  BY <1>1, AppendFacts
<1>7. M!MayAppend(old, t) => r.done /\ \A k \in Keys : k # cmd.key => r.dict[k] = dict[k]
  BY <1>1 DEF AppendTo, State
<1>8. StoredAfter(cmd) = [stored EXCEPT ![cmd.key] = sharing]
  BY DEF StoredAfter
<1>9. Does(cmd, Refused(cmd), vals) /\ ~Refused(cmd).done
  BY RefusedFacts
<1> HIDE DEF r
<1>10. r.done => Private(cmd, r)
  BY <1>1, <1>6, <1>7, <1>8, <1>9 DEF Private, PrivateWhenNeeded
<1> HIDE DEF c, t, vals, new, old
<1>11. Maps(cmd, r)
  BY <1>2, <1>3, <1>5, <1>6, <1>9 DEF Maps, vals
<1> QED
  BY <1>6, <1>7, <1>10, <1>11 DEF r

LEMMA RunIncrement ==
  ASSUME NEW cmd, Ready(cmd), IsCommand(heap, cmd), cmd.name = "incr", PrivateWhenNeeded,
         stored \in [Keys -> BOOLEAN]
  PROVE  LET r == Increment(cmd)
         IN Maps(cmd, r) /\ (r.done => Private(cmd, r)) /\ (~r.done => r = Refused(cmd))
<1> DEFINE c == [name |-> "incr", key |-> cmd.key]
           r == Increment(cmd)
           vals == Vals(heap, dict)
           old == Value(heap, dict, cmd.key)
           new == [vals EXCEPT ![cmd.key] = M!IncrementedText(old)]
<1>1. /\ cmd.key \in Keys /\ cmd.arg = NULL /\ heap \in Heaps
      /\ sharing \in BOOLEAN /\ DOMAIN dict = Keys
  BY DEF Ready, IsCommand
<1>2. c \in M!Commands /\ vals[cmd.key] = old
  BY <1>1, CommandFacts DEF Vals
<1>3. M!Applied(vals, c) = IF M!MayIncr(old) THEN new ELSE vals
  BY <1>2 DEF M!Applied
<1>5. M!MayIncr(old) => Replayed(vals, SentFrom(heap, cmd)) = new
  BY <1>2 DEF Replayed, SentFrom, M!Applied
<1>6. IF M!MayIncr(old)
        THEN Does(cmd, r, new) /\ (IsShared(r.dict[cmd.key]) => sharing)
        ELSE r = Refused(cmd)
  BY <1>1, IncrementFacts
<1>7. M!MayIncr(old) => r.done /\ \A k \in Keys : k # cmd.key => r.dict[k] = dict[k]
  BY <1>1 DEF Increment, State
<1>8. StoredAfter(cmd) = [stored EXCEPT ![cmd.key] = sharing]
  BY DEF StoredAfter
<1>9. Does(cmd, Refused(cmd), vals) /\ ~Refused(cmd).done
  BY RefusedFacts
<1> HIDE DEF r
<1>10. r.done => Private(cmd, r)
  BY <1>1, <1>6, <1>7, <1>8, <1>9 DEF Private, PrivateWhenNeeded
<1> HIDE DEF c, vals, new, old
<1>11. Maps(cmd, r)
  BY <1>2, <1>3, <1>5, <1>6, <1>9 DEF Maps, vals
<1> QED
  BY <1>6, <1>7, <1>10, <1>11 DEF r

LEMMA RunDelete ==
  ASSUME NEW cmd, Ready(cmd), IsCommand(heap, cmd), cmd.name = "del", PrivateWhenNeeded,
         stored \in [Keys -> BOOLEAN]
  PROVE  LET r == Delete(cmd)
         IN Maps(cmd, r) /\ (r.done => Private(cmd, r)) /\ (~r.done => r = Refused(cmd))
<1> DEFINE c == [name |-> "del", key |-> cmd.key]
           r == Delete(cmd)
           vals == Vals(heap, dict)
           new == [vals EXCEPT ![cmd.key] = NULL]
<1>1. cmd.key \in Keys /\ cmd.arg = NULL /\ heap \in Heaps /\ DOMAIN dict = Keys
  BY DEF Ready, IsCommand
<1>2. c \in M!Commands
  BY <1>1, CommandFacts
<1>3. M!Applied(vals, c) = new
  BY DEF M!Applied
<1>5. Replayed(vals, SentFrom(heap, cmd)) = new
  BY DEF Replayed, SentFrom, M!Applied
<1>6. Does(cmd, r, new) /\ r.dict[cmd.key] = NULL /\ (~r.done => r = Refused(cmd))
  BY <1>1, DeleteFacts
<1>7. \A k \in Keys : k # cmd.key => r.dict[k] = dict[k]
  BY <1>1 DEF Delete, State
<1>8. StoredAfter(cmd) = [stored EXCEPT ![cmd.key] = FALSE]
  BY DEF StoredAfter
<1> HIDE DEF r
<1>9. Private(cmd, r)
  BY <1>1, <1>6, <1>7, <1>8 DEF Private, PrivateWhenNeeded
<1> HIDE DEF c, vals, new
<1>10. Maps(cmd, r)
  BY <1>2, <1>3, <1>5, <1>6 DEF Maps, vals
<1> QED
  BY <1>6, <1>9, <1>10 DEF r

LEMMA RunRename ==
  ASSUME NEW cmd, Ready(cmd), IsCommand(heap, cmd), cmd.name = "rename", PrivateWhenNeeded,
         stored \in [Keys -> BOOLEAN]
  PROVE  LET r == Rename(cmd)
         IN Maps(cmd, r) /\ (r.done => Private(cmd, r)) /\ (~r.done => r = Refused(cmd))
<1> DEFINE c == [name |-> "rename", key |-> cmd.key, to |-> cmd.to]
           r == Rename(cmd)
           vals == Vals(heap, dict)
           new == [vals EXCEPT ![cmd.to] = vals[cmd.key], ![cmd.key] = NULL]
<1>1. /\ cmd.key \in Keys /\ cmd.arg = NULL /\ heap \in Heaps /\ DOMAIN dict = Keys
      /\ cmd.to \in Keys /\ cmd.to # cmd.key
  BY DEF Ready, IsCommand
<1>2. c \in M!Commands
  BY <1>1, CommandFacts
<1>3. M!Applied(vals, c) = IF vals[cmd.key] = NULL THEN vals ELSE new
  BY DEF M!Applied
<1>5. Replayed(vals, SentFrom(heap, cmd)) = M!Applied(vals, c)
  BY DEF Replayed, SentFrom, M!Applied
<1>6. IF vals[cmd.key] = NULL THEN r = Refused(cmd)
      ELSE Does(cmd, r, new) /\ r.dict[cmd.to] = dict[cmd.key] /\ r.dict[cmd.key] = NULL
  BY <1>1, RenameFacts
<1>7. vals[cmd.key] # NULL => r.done /\ \A k \in Keys \ {cmd.key, cmd.to} : r.dict[k] = dict[k]
  <2>1. vals[cmd.key] = NULL <=> dict[cmd.key] = NULL
    BY <1>1, KeyHeld DEF Vals
  <2> QED
    BY <1>1, <2>1 DEF Rename, State
<1>8. StoredAfter(cmd) = [stored EXCEPT ![cmd.to] = stored[cmd.key], ![cmd.key] = FALSE]
  BY DEF StoredAfter
<1>9. Does(cmd, Refused(cmd), vals) /\ ~Refused(cmd).done
  BY RefusedFacts
<1> HIDE DEF r
<1>10. r.done => Private(cmd, r)
  <2> SUFFICES ASSUME r.done PROVE Private(cmd, r)
    OBVIOUS
  <2>1. /\ r.dict[cmd.to] = dict[cmd.key] /\ r.dict[cmd.key] = NULL
        /\ \A k \in Keys \ {cmd.key, cmd.to} : r.dict[k] = dict[k]
    BY <1>6, <1>7, <1>9
  <2>2. StoredAfter(cmd) \in [Keys -> BOOLEAN]
    BY <1>1, <1>8
  <2>3. /\ StoredAfter(cmd)[cmd.to] = stored[cmd.key]
        /\ \A k \in Keys \ {cmd.key, cmd.to} : StoredAfter(cmd)[k] = stored[k]
    BY <1>1, <1>8
  <2> QED
    BY <1>1, <2>1, <2>2, <2>3 DEF Private, PrivateWhenNeeded
<1> HIDE DEF c, vals, new
<1>11. Maps(cmd, r)
  BY <1>2, <1>3, <1>5, <1>6, <1>9 DEF Maps, vals
<1> QED
  BY <1>6, <1>7, <1>10, <1>11 DEF r

LEMMA RunCopy ==
  ASSUME NEW cmd, Ready(cmd), IsCommand(heap, cmd), cmd.name = "copy", PrivateWhenNeeded,
         stored \in [Keys -> BOOLEAN]
  PROVE  LET r == Copy(cmd)
         IN Maps(cmd, r) /\ (r.done => Private(cmd, r)) /\ (~r.done => r = Refused(cmd))
<1> DEFINE c == [name |-> "copy", key |-> cmd.key, to |-> cmd.to]
           r == Copy(cmd)
           vals == Vals(heap, dict)
           new == [vals EXCEPT ![cmd.to] = vals[cmd.key]]
           idle == vals[cmd.key] = NULL \/ vals[cmd.to] # NULL
<1>1. /\ cmd.key \in Keys /\ cmd.arg = NULL /\ heap \in Heaps /\ DOMAIN dict = Keys
      /\ cmd.to \in Keys /\ cmd.to # cmd.key
  BY DEF Ready, IsCommand
<1>2. c \in M!Commands
  BY <1>1, CommandFacts
<1>3. M!Applied(vals, c) = IF idle THEN vals ELSE new
  BY DEF M!Applied
<1>5. Replayed(vals, SentFrom(heap, cmd)) = M!Applied(vals, c)
  BY DEF Replayed, SentFrom, M!Applied
<1>6. IF idle THEN r = Refused(cmd) ELSE Does(cmd, r, new) /\ ~IsShared(r.dict[cmd.to])
  BY <1>1, CopyFacts
<1>7. ~idle => r.done /\ \A k \in Keys \ {cmd.to} : r.dict[k] = dict[k]
  <2>1. /\ (vals[cmd.key] = NULL <=> dict[cmd.key] = NULL)
        /\ (vals[cmd.to] = NULL <=> dict[cmd.to] = NULL)
    BY <1>1, KeyHeld DEF Vals
  <2> QED
    BY <1>1, <2>1 DEF Copy, State
<1>8. StoredAfter(cmd) = [stored EXCEPT ![cmd.to] = FALSE]
  BY DEF StoredAfter
<1>9. Does(cmd, Refused(cmd), vals) /\ ~Refused(cmd).done
  BY RefusedFacts
<1> HIDE DEF r
<1>10. r.done => Private(cmd, r)
  BY <1>1, <1>6, <1>7, <1>8, <1>9 DEF Private, PrivateWhenNeeded
<1> HIDE DEF c, vals, new, idle
<1>11. Maps(cmd, r)
  BY <1>2, <1>3, <1>5, <1>6, <1>9 DEF Maps, vals
<1> QED
  BY <1>6, <1>7, <1>10, <1>11 DEF r

LEMMA RunFacts ==
  ASSUME NEW cmd, Ready(cmd), IsCommand(heap, cmd), PrivateWhenNeeded, stored \in [Keys -> BOOLEAN]
  PROVE  LET r == Result(cmd)
         IN Maps(cmd, r) /\ (r.done => Private(cmd, r)) /\ (~r.done => r = Refused(cmd))
<1>1. CASE cmd.name = "set"
  BY <1>1, RunSet DEF Result
<1>2. CASE cmd.name = "append"
  <2>1. Result(cmd) = AppendTo(cmd)
    BY <1>2 DEF Result
  <2> QED
    BY <1>2, <2>1, RunAppend
<1>3. CASE cmd.name = "incr"
  <2>1. Result(cmd) = Increment(cmd)
    BY <1>3 DEF Result
  <2> QED
    BY <1>3, <2>1, RunIncrement
<1>4. CASE cmd.name = "del"
  <2>1. Result(cmd) = Delete(cmd)
    BY <1>4 DEF Result
  <2> QED
    BY <1>4, <2>1, RunDelete
<1>5. CASE cmd.name = "rename"
  <2>1. Result(cmd) = Rename(cmd)
    BY <1>5 DEF Result
  <2> QED
    BY <1>5, <2>1, RunRename
<1>6. CASE cmd.name = "copy"
  <2>1. Result(cmd) = Copy(cmd)
    BY <1>6 DEF Result
  <2> QED
    BY <1>6, <2>1, RunCopy
<1> QED
  BY <1>1, <1>2, <1>3, <1>4, <1>5, <1>6 DEF IsCommand, Names
-----------------------------------------------------------------------------
(* The arguments of a list of commands released.                           *)

LEMMA ReleaseIsHeap ==
  ASSUME NEW h \in Heaps, NEW id
  PROVE  Release(h, id) \in Heaps
<1>1. DOMAIN h \subseteq Nat \ {0} /\ IsFiniteSet(DOMAIN h) /\ h \in [DOMAIN h -> Objects]
  BY HeapFields
<1>2. [i \in DOMAIN h \ {id} |-> h[i]] \in Heaps
  <2>1. IsFiniteSet(DOMAIN h \ {id}) /\ DOMAIN h \ {id} \subseteq Nat \ {0}
    BY <1>1, FS_RemoveElement
  <2> QED
    BY <1>1, <2>1, IsHeap
<1>3. id \notin DOMAIN h => [h EXCEPT ![id].ref = @ - 1] = h
  BY <1>1
<1>4. id \in DOMAIN h => Decr(h, id) \in Heaps
  BY <1>1, DecrFacts
<1> QED
  BY <1>2, <1>3, <1>4 DEF Release, Decr

LEMMA FreedRuns ==
  ASSUME NEW h \in Heaps, NEW S, NEW q \in Seq(S)
  PROVE  \E r : /\ r \in [0 .. Len(q) -> Heaps] /\ r[0] = h
                /\ \A k \in 1 .. Len(q) : r[k] = Release(r[k - 1], q[k].arg)
                /\ FoldLeft(LAMBDA acc, cmd : Release(acc, cmd.arg), h, q) = r[Len(q)]
<1> DEFINE n == Len(q)
           seq == q
           Op(w, k) == Release(w, q[k].arg)
           step == [p \in Heaps \X (1 .. n) |-> Op(p[1], p[2])]
           Eqn(f) == f = [s \in SUBSET (1 .. n) |->
                            IF s = {} THEN h ELSE Release(f[s \ {Max(s)}], seq[Max(s)].arg)]
           it == CHOOSE f : Eqn(f)
<1>0. n \in Nat /\ h \in Heaps
  OBVIOUS
<1>1. ASSUME NEW w \in Heaps, NEW k \in 1 .. n PROVE Op(w, k) \in Heaps
  BY ReleaseIsHeap
<1> HIDE DEF n, Op
<1>2. step \in [Heaps \X (1 .. n) -> Heaps]
  BY <1>1
<1>3. PICK f : IsFold(f, Heaps, h, n, step)
  <2> HIDE DEF step
  <2> QED
    BY <1>0, <1>2, FoldExists, Zenon
<1>4. ASSUME NEW s \in SUBSET (1 .. n), s # {}
      PROVE  Max(s) \in 1 .. n
  <2>1. Max(s) \in s
    BY <1>0, <1>4, LastPosition
  <2> QED
    BY <2>1
<1>5. ASSUME NEW g, NEW s \in SUBSET (1 .. n), s # {}
      PROVE  Release(g[s \ {Max(s)}], seq[Max(s)].arg) = Op(g[s \ {Max(s)}], Max(s))
  BY DEF Op
<1>6. Eqn(f)
  <2>1. ASSUME NEW s \in SUBSET (1 .. n), s # {}
        PROVE  f[s] = Op(f[s \ {Max(s)}], Max(s))
    <3>1. f[s \ {Max(s)}] \in Heaps /\ Max(s) \in 1 .. n
      BY <1>3, <1>4, <2>1 DEF IsFold
    <3> QED
      BY <1>3, <2>1, <3>1 DEF IsFold
  <2> HIDE DEF step, seq
  <2>2. \A s \in SUBSET (1 .. n) : f[s] = IF s = {} THEN h ELSE Release(f[s \ {Max(s)}], seq[Max(s)].arg)
    BY <1>3, <1>5, <2>1 DEF IsFold
  <2>3. f \in [SUBSET (1 .. n) -> Heaps]
    BY <1>3 DEF IsFold
  <2> QED
    BY <2>2, <2>3
<1>7. Eqn(it)
  <2> HIDE DEF Eqn
  <2> QED
    BY <1>6
<1>8. FoldLeft(LAMBDA acc, cmd : Release(acc, cmd.arg), h, q) = it[1 .. n]
  <2>1. DOMAIN seq = 1 .. n
    BY DEF n
  <2> HIDE DEF seq
  <2> QED
    BY <2>1 DEF FoldLeft, MapThenFoldSet, seq
<1> HIDE DEF it
<1> DEFINE r == [k \in 0 .. n |-> it[1 .. k]]
<1>9. IsRun(r, Heaps, h, n, step)
  <2>1. \A s \in SUBSET (1 .. n) :
          /\ s = {} => it[s] = h
          /\ s # {} /\ it[s \ {Max(s)}] \in Heaps => it[s] = step[<<it[s \ {Max(s)}], Max(s)>>]
    BY <1>4, <1>5, <1>7
  <2> HIDE DEF step, Eqn
  <2> QED
    BY <1>0, <1>2, <2>1, FoldRuns
<1>10. /\ r \in [0 .. n -> Heaps] /\ r[0] = h /\ r[n] = it[1 .. n]
       /\ \A k \in 1 .. n : r[k] = Op(r[k - 1], k)
  <2>1. r \in [0 .. n -> Heaps] /\ r[0] = h /\ \A k \in 1 .. n : r[k] = step[<<r[k - 1], k>>]
    BY <1>9 DEF IsRun
  <2>2. r[n] = it[1 .. n]
    BY <1>0
  <2> HIDE DEF r
  <2>3. \A k \in 1 .. n : r[k - 1] \in Heaps
    BY <1>0, <2>1
  <2> QED
    BY <2>1, <2>2, <2>3
<1> HIDE DEF r
<1> QED
  BY <1>8, <1>10 DEF n, Op

\* How often an object is held by the first k commands of a list.
Upto(q, k, i) == Cardinality({x \in 1 .. k : q[x].arg = i})

LEMMA UptoFacts ==
  ASSUME NEW S, NEW q \in Seq(S), NEW i
  PROVE  /\ Upto(q, 0, i) = 0 /\ Upto(q, Len(q), i) = Times(HeldArgs(q), i)
         /\ \A k \in 0 .. Len(q) : Upto(q, k, i) \in Nat /\ Upto(q, k, i) <= Times(HeldArgs(q), i)
         /\ \A k \in 1 .. Len(q) : Upto(q, k, i) = Upto(q, k - 1, i) + Hit(q[k].arg, i)
<1> DEFINE n == Len(q)
           U(k) == {x \in 1 .. k : q[x].arg = i}
<1>1. n \in Nat /\ DOMAIN q = 1 .. n
  OBVIOUS
<1>2. U(0) = {}
  OBVIOUS
<1>3. Times(HeldArgs(q), i) = Cardinality(U(n))
  <2>1. {x \in DOMAIN HeldArgs(q) : HeldArgs(q)[x] = i} = U(n)
    BY <1>1 DEF HeldArgs
  <2> QED
    BY <2>1 DEF Times
<1> HIDE DEF n
<1>4. ASSUME NEW k \in 0 .. n PROVE IsFiniteSet(U(k)) /\ U(k) \subseteq U(n)
  <2>1. IsFiniteSet(1 .. k)
    BY FS_Interval
  <2>2. IsFiniteSet(U(k))
    BY <2>1, FS_Subset
  <2>3. 1 .. k \subseteq 1 .. n
    BY <1>1
  <2> QED
    BY <2>2, <2>3
<1>5. ASSUME NEW k \in 1 .. n
      PROVE  Cardinality(U(k)) = Cardinality(U(k - 1)) + Hit(q[k].arg, i)
  <2>1. k - 1 \in 0 .. n /\ k \notin U(k - 1)
    BY <1>1
  <2>2. U(k) = IF q[k].arg = i THEN U(k - 1) \cup {k} ELSE U(k - 1)
    <3>1. \A x \in 1 .. k : x = k \/ x \in 1 .. k - 1
      BY <1>1
    <3>2. \A x \in 1 .. k - 1 : x \in 1 .. k /\ x # k
      BY <1>1
    <3>3. k \in 1 .. k
      BY <1>1
    <3> QED
      BY <3>1, <3>2, <3>3
  <2>3. IsFiniteSet(U(k - 1))
    BY <1>4, <2>1
  <2>4. Cardinality(U(k - 1)) \in Nat /\ Cardinality(U(k - 1) \cup {k}) = Cardinality(U(k - 1)) + 1
    BY <2>1, <2>3, FS_CardinalityType, FS_AddElement
  <2> HIDE DEF U
  <2> QED
    BY <2>2, <2>4 DEF Hit
<1>6. ASSUME NEW k \in 0 .. n
      PROVE  Cardinality(U(k)) \in Nat /\ Cardinality(U(k)) <= Cardinality(U(n))
  <2>1. n \in 0 .. n
    BY <1>1
  <2>2. IsFiniteSet(U(k)) /\ IsFiniteSet(U(n)) /\ U(k) \subseteq U(n)
    BY <1>4, <2>1
  <2> HIDE DEF U
  <2> QED
    BY <2>2, FS_CardinalityType, FS_Subset
<1>7. \A k : Upto(q, k, i) = Cardinality(U(k))
  BY DEF Upto
<1>8. Cardinality(U(0)) = 0
  BY <1>2, FS_EmptySet
<1> HIDE DEF U
<1> QED
  BY <1>3, <1>5, <1>6, <1>7, <1>8 DEF n

LEMMA FreedFacts ==
  ASSUME NEW h \in Heaps, NEW S, NEW q \in Seq(S), \A k \in DOMAIN q : q[k].arg \in Held(h),
         \A i \in Nat \ {0} : RefOf(h, i) >= Times(HeldArgs(q), i)
  PROVE  /\ Freed(h, q) \in Heaps
         /\ \A i \in Nat \ {0} : RefOf(Freed(h, q), i) = RefOf(h, i) - Times(HeldArgs(q), i)
         /\ \A i \in DOMAIN h : RefOf(h, i) > Times(HeldArgs(q), i) => Stays(h, Freed(h, q), i)
<1> DEFINE n == Len(q)
<1>0. n \in Nat /\ DOMAIN q = 1 .. n
  OBVIOUS
<1>1. PICK r : /\ r \in [0 .. n -> Heaps] /\ r[0] = h
               /\ \A k \in 1 .. n : r[k] = Release(r[k - 1], q[k].arg)
               /\ Freed(h, q) = r[n]
  BY FreedRuns DEF Freed
<1>2. \A i : /\ Upto(q, 0, i) = 0 /\ Upto(q, n, i) = Times(HeldArgs(q), i)
             /\ \A k \in 0 .. n : Upto(q, k, i) \in Nat /\ Upto(q, k, i) <= Times(HeldArgs(q), i)
             /\ \A k \in 1 .. n : Upto(q, k, i) = Upto(q, k - 1, i) + Hit(q[k].arg, i)
  BY UptoFacts
<1> HIDE DEF n
<1>3. \A i \in Nat \ {0} : RefOf(h, i) \in Nat /\ Times(HeldArgs(q), i) \in Nat
  <2>1. n \in 0 .. n
    BY <1>0
  <2> QED
    BY <1>2, <2>1, HeapFields
<1> DEFINE Good(k) == /\ \A i \in Nat \ {0} : RefOf(r[k], i) = RefOf(h, i) - Upto(q, k, i)
                      /\ \A i \in DOMAIN h : RefOf(h, i) > Upto(q, k, i) => Stays(h, r[k], i)
           P == {k \in Nat : k <= n => Good(k)}
<1>4. Good(0)
  <2>1. \A i \in DOMAIN h : Stays(h, h, i)
    BY SameStays
  <2> QED
    BY <1>1, <1>2, <1>3, <2>1
<1>5. ASSUME NEW l \in 1 .. n, Good(l - 1)
      PROVE  Good(l)
  <2> DEFINE id == q[l].arg
             f == r[l - 1]
             u(i) == Upto(q, l - 1, i)
  <2>1. l - 1 \in 0 .. n /\ l \in 0 .. n
    BY <1>0
  <2>2. r[l] = Release(f, id) /\ f \in Heaps /\ id \in Held(h)
    BY <1>0, <1>1, <2>1
  <2>3. /\ \A i \in Nat \ {0} : RefOf(f, i) = RefOf(h, i) - u(i)
        /\ \A i \in DOMAIN h : RefOf(h, i) > u(i) => Stays(h, f, i)
    BY <1>5
  <2>4. \A i : /\ Upto(q, l, i) = u(i) + Hit(id, i) /\ u(i) \in Nat
               /\ Upto(q, l, i) <= Times(HeldArgs(q), i) /\ Hit(id, i) \in {0, 1}
    <3> TAKE i
    <3>1. Hit(id, i) \in {0, 1}
      BY DEF Hit
    <3> QED
      BY <1>2, <2>1, <3>1
  <2> HIDE DEF id, f, u
  <2>5. ASSUME NEW i \in DOMAIN h, i = id PROVE Stays(h, f, i)
    <3>1. i \in Nat \ {0} /\ Hit(id, i) = 1
      BY <2>5, HeapFields DEF Hit
    <3>2. RefOf(h, i) > u(i)
      BY <1>3, <2>4, <3>1
    <3> QED
      BY <2>3, <3>2
  <2>6. id \in Held(f)
    BY <2>2, <2>5, HeldStays
  <2>7. /\ \A i \in Nat \ {0} : RefOf(r[l], i) = RefOf(f, i) - Hit(id, i)
        /\ \A i \in DOMAIN f : RefOf(f, i) > Hit(id, i) => Stays(f, r[l], i)
    BY <2>2, <2>6, ReleaseFacts
  <2>8. \A i \in Nat \ {0} : RefOf(r[l], i) = RefOf(h, i) - Upto(q, l, i)
    <3> TAKE i \in Nat \ {0}
    <3>1. RefOf(r[l], i) = RefOf(f, i) - Hit(id, i) /\ RefOf(f, i) = RefOf(h, i) - u(i)
      BY <2>3, <2>7
    <3>2. RefOf(h, i) \in Nat
      BY HeapFields
    <3>3. Upto(q, l, i) = u(i) + Hit(id, i) /\ u(i) \in Nat /\ Hit(id, i) \in {0, 1}
      BY <2>4
    <3> QED
      BY <3>1, <3>2, <3>3
  <2>9. ASSUME NEW i \in DOMAIN h, RefOf(h, i) > Upto(q, l, i)
        PROVE  Stays(h, r[l], i)
    <3>1. i \in Nat \ {0}
      BY HeapFields
    <3>2. RefOf(h, i) > u(i) /\ RefOf(f, i) > Hit(id, i)
      <4>1. /\ RefOf(h, i) \in Nat /\ u(i) \in Nat /\ Hit(id, i) \in {0, 1}
            /\ RefOf(h, i) > u(i) + Hit(id, i)
        BY <1>3, <2>4, <2>9, <3>1
      <4>2. RefOf(f, i) = RefOf(h, i) - u(i)
        BY <2>3, <3>1
      <4> QED
        BY <4>1, <4>2
    <3>3. Stays(h, f, i) /\ i \in DOMAIN f
      BY <2>3, <3>2 DEF Stays
    <3> QED
      BY <2>7, <3>2, <3>3, StaysOn
  <2> QED
    BY <2>8, <2>9
<1>6. Good(n)
  <2> HIDE DEF Good
  <2>1. 0 \in P
    BY <1>4
  <2>2. ASSUME NEW k \in Nat, k \in P PROVE k + 1 \in P
    <3> SUFFICES ASSUME k + 1 <= n PROVE Good(k + 1)
      OBVIOUS
    <3>1. k + 1 \in 1 .. n /\ (k + 1) - 1 = k /\ k <= n
      BY <1>0
    <3>2. Good(k)
      BY <2>2, <3>1
    <3>3. Good((k + 1) - 1)
      BY <3>1, <3>2
    <3> HIDE DEF P
    <3> QED
      BY <1>5, <3>1, <3>3
  <2>3. Nat \subseteq P
    <3> HIDE DEF P
    <3> QED
      BY <2>1, <2>2, InductionOver
  <2> QED
    BY <1>0, <2>3
<1> QED
  BY <1>0, <1>1, <1>2, <1>6
-----------------------------------------------------------------------------
(* What a replica makes of the commands it is sent.                        *)

Contents == [Keys -> {NULL} \cup Seq(Symbols)]

LEMMA ValsFacts ==
  ASSUME NEW h \in Heaps, NEW d \in [Keys -> Held(h)]
  PROVE  Vals(h, d) \in Contents
<1>1. \A k \in Keys : d[k] # NULL => StringOf(h, d[k]) \in Values
  BY HeldFacts
<1> QED
  BY <1>1 DEF Vals, Value, Contents, Values

LEMMA ReplayedFacts ==
  ASSUME NEW h \in Heaps, NEW cmd, WasRun(cmd), cmd.arg \in Held(h), NEW m \in Contents
  PROVE  Replayed(m, SentFrom(h, cmd)) \in Contents
<1> DEFINE c == SentFrom(h, cmd)
<1>1. c.name = cmd.name /\ c.key = cmd.key /\ c.to = cmd.to /\ cmd.key \in Keys
  BY DEF SentFrom, WasRun
<1>2. cmd.arg # NULL => c.text \in Seq(Symbols)
  BY HeldFacts DEF SentFrom, Values
<1> HIDE DEF c
<1>3. CASE cmd.name = "append"
  <2>1. Replayed(m, c) = [m EXCEPT ![c.key] = M!AppendedText(m[c.key], c.text)]
    BY <1>1, <1>3 DEF Replayed
  <2>2. c.text \in Seq(Symbols)
    BY <1>2, <1>3 DEF WasRun
  <2>3. M!AppendedText(m[c.key], c.text) \in Seq(Symbols)
    BY <1>1, <2>2 DEF M!AppendedText, Contents
  <2> QED
    BY <1>1, <2>1, <2>3 DEF Contents, c
<1>4. CASE cmd.name = "set"
  <2>1. Replayed(m, c) = [m EXCEPT ![c.key] = c.text]
    BY <1>1, <1>4 DEF Replayed, M!Applied
  <2>2. c.text \in Seq(Symbols)
    BY <1>2, <1>4 DEF WasRun
  <2> QED
    BY <1>1, <2>1, <2>2 DEF Contents, c
<1>5. CASE cmd.name = "incr"
  <2>1. Replayed(m, c) = IF M!MayIncr(m[c.key]) THEN [m EXCEPT ![c.key] = M!IncrementedText(m[c.key])]
                                                ELSE m
    BY <1>1, <1>5 DEF Replayed, M!Applied
  <2>2. ASSUME NEW n \in Nat PROVE M!NumberText(n) \in Seq(Symbols)
    <3>1. M!NumberText(n) \in [1 .. n -> Symbols]
      BY DEF M!NumberText, Symbols
    <3> QED
      BY <3>1
  <2>3. M!MayIncr(m[c.key]) => M!IncrementedText(m[c.key]) \in Seq(Symbols)
    <3>1. m[c.key] \in {NULL} \cup Seq(Symbols)
      BY <1>1 DEF Contents
    <3>2. M!IncrementedText(m[c.key]) \in Seq(Symbols)
      BY <2>2, <3>1 DEF M!IncrementedText
    <3> QED
      BY <3>2
  <2> QED
    BY <1>1, <2>1, <2>3 DEF Contents, c
<1>6. CASE cmd.name = "del"
  <2>1. Replayed(m, c) = [m EXCEPT ![c.key] = NULL]
    BY <1>1, <1>6 DEF Replayed, M!Applied
  <2> QED
    BY <1>1, <2>1 DEF Contents, c
<1>7. CASE cmd.name = "rename"
  <2>1. Replayed(m, c) = IF m[c.key] = NULL THEN m ELSE [m EXCEPT ![c.to] = m[c.key], ![c.key] = NULL]
    BY <1>1, <1>7 DEF Replayed, M!Applied
  <2>2. c.to \in Keys
    BY <1>1, <1>7 DEF WasRun
  <2> QED
    BY <1>1, <2>1, <2>2 DEF Contents, c
<1>8. CASE cmd.name = "copy"
  <2>1. Replayed(m, c) = IF m[c.key] = NULL \/ m[c.to] # NULL THEN m ELSE [m EXCEPT ![c.to] = m[c.key]]
    BY <1>1, <1>8 DEF Replayed, M!Applied
  <2>2. c.to \in Keys
    BY <1>1, <1>8 DEF WasRun
  <2> QED
    BY <1>1, <2>1, <2>2 DEF Contents, c
<1> QED
  BY <1>3, <1>4, <1>5, <1>6, <1>7, <1>8 DEF WasRun, Names

LEMMA PlayRuns ==
  ASSUME heap \in Heaps, NEW m0 \in Contents, NEW S, NEW q \in Seq(S),
         \A k \in DOMAIN q : WasRun(q[k]) /\ q[k].arg \in Held(heap)
  PROVE  \E r : /\ r \in [0 .. Len(q) -> Contents] /\ r[0] = m0
                /\ \A k \in 1 .. Len(q) : r[k] = Replayed(r[k - 1], Sent(q[k]))
                /\ FoldLeft(LAMBDA w, cmd : Replayed(w, Sent(cmd)), m0, q) = r[Len(q)]
<1> DEFINE n == Len(q)
           seq == q
           Op(w, k) == Replayed(w, Sent(q[k]))
           step == [p \in Contents \X (1 .. n) |-> Op(p[1], p[2])]
           Eqn(f) == f = [s \in SUBSET (1 .. n) |->
                            IF s = {} THEN m0 ELSE Replayed(f[s \ {Max(s)}], Sent(seq[Max(s)]))]
           it == CHOOSE f : Eqn(f)
<1>0. n \in Nat /\ m0 \in Contents
  OBVIOUS
<1>1. ASSUME NEW w \in Contents, NEW k \in 1 .. n PROVE Op(w, k) \in Contents
  BY ReplayedFacts DEF Sent, SentFrom
<1> HIDE DEF n, Op
<1>2. step \in [Contents \X (1 .. n) -> Contents]
  BY <1>1
<1>3. PICK f : IsFold(f, Contents, m0, n, step)
  <2> HIDE DEF step
  <2> QED
    BY <1>0, <1>2, FoldExists, Zenon
<1>4. ASSUME NEW s \in SUBSET (1 .. n), s # {}
      PROVE  Max(s) \in 1 .. n
  <2>1. Max(s) \in s
    BY <1>0, <1>4, LastPosition
  <2> QED
    BY <2>1
<1>5. ASSUME NEW g, NEW s \in SUBSET (1 .. n), s # {}
      PROVE  Replayed(g[s \ {Max(s)}], Sent(seq[Max(s)])) = Op(g[s \ {Max(s)}], Max(s))
  BY DEF Op
<1>6. Eqn(f)
  <2>1. ASSUME NEW s \in SUBSET (1 .. n), s # {}
        PROVE  f[s] = Op(f[s \ {Max(s)}], Max(s))
    <3>1. f[s \ {Max(s)}] \in Contents /\ Max(s) \in 1 .. n
      BY <1>3, <1>4, <2>1 DEF IsFold
    <3> QED
      BY <1>3, <2>1, <3>1 DEF IsFold
  <2> HIDE DEF step, seq
  <2>2. \A s \in SUBSET (1 .. n) : f[s] = IF s = {} THEN m0 ELSE Replayed(f[s \ {Max(s)}], Sent(seq[Max(s)]))
    BY <1>3, <1>5, <2>1 DEF IsFold
  <2>3. f \in [SUBSET (1 .. n) -> Contents]
    BY <1>3 DEF IsFold
  <2> QED
    BY <2>2, <2>3
<1>7. Eqn(it)
  <2> HIDE DEF Eqn
  <2> QED
    BY <1>6
<1>8. FoldLeft(LAMBDA w, cmd : Replayed(w, Sent(cmd)), m0, q) = it[1 .. n]
  <2>1. DOMAIN seq = 1 .. n
    BY DEF n
  <2> HIDE DEF seq
  <2> QED
    BY <2>1 DEF FoldLeft, MapThenFoldSet, seq
<1> HIDE DEF it
<1> DEFINE r == [k \in 0 .. n |-> it[1 .. k]]
<1>9. IsRun(r, Contents, m0, n, step)
  <2>1. \A s \in SUBSET (1 .. n) :
          /\ s = {} => it[s] = m0
          /\ s # {} /\ it[s \ {Max(s)}] \in Contents => it[s] = step[<<it[s \ {Max(s)}], Max(s)>>]
    BY <1>4, <1>5, <1>7
  <2> HIDE DEF step, Eqn
  <2> QED
    BY <1>0, <1>2, <2>1, FoldRuns
<1>10. /\ r \in [0 .. n -> Contents] /\ r[0] = m0 /\ r[n] = it[1 .. n]
       /\ \A k \in 1 .. n : r[k] = Op(r[k - 1], k)
  <2>1. r \in [0 .. n -> Contents] /\ r[0] = m0 /\ \A k \in 1 .. n : r[k] = step[<<r[k - 1], k>>]
    BY <1>9 DEF IsRun
  <2>2. r[n] = it[1 .. n]
    BY <1>0
  <2> HIDE DEF r
  <2>3. \A k \in 1 .. n : r[k - 1] \in Contents
    BY <1>0, <2>1
  <2> QED
    BY <2>1, <2>2, <2>3
<1> HIDE DEF r
<1> QED
  BY <1>8, <1>10 DEF n, Op

\* Replaying the commands of q, as a heap holds their arguments, leads from m to vals.
Follows(h, m, q, vals) ==
  \E r : /\ r \in [0 .. Len(q) -> Contents] /\ r[0] = m
         /\ \A k \in 1 .. Len(q) : r[k] = Replayed(r[k - 1], SentFrom(h, q[k]))
         /\ r[Len(q)] = vals

LEMMA NothingToFollow ==
  ASSUME NEW h, NEW m \in Contents
  PROVE  Follows(h, m, << >>, m)
<1> DEFINE r == [k \in 0 .. 0 |-> m]
<1>1. /\ r \in [0 .. Len(<< >>) -> Contents] /\ r[0] = m /\ r[Len(<< >>)] = m
      /\ 1 .. Len(<< >>) = {}
  OBVIOUS
<1> HIDE DEF r
<1>2. \A k \in 1 .. Len(<< >>) : r[k] = Replayed(r[k - 1], SentFrom(h, << >>[k]))
  BY <1>1
<1> QED
  BY <1>1, <1>2 DEF Follows

LEMMA FollowsStays ==
  ASSUME NEW g, NEW h, NEW m, NEW S, NEW q \in Seq(S), NEW vals, Follows(h, m, q, vals),
         \A k \in 1 .. Len(q) : SentFrom(g, q[k]) = SentFrom(h, q[k])
  PROVE  Follows(g, m, q, vals)
  BY DEF Follows

LEMMA FollowsOn ==
  ASSUME NEW h, NEW m, NEW S, NEW q \in Seq(S), NEW vals, Follows(h, m, q, vals), NEW c,
         NEW new \in Contents, new = Replayed(vals, SentFrom(h, c))
  PROVE  Follows(h, m, Append(q, c), new)
<1> DEFINE n == Len(q)
           l == Append(q, c)
<1>1. n \in Nat /\ Len(l) = n + 1 /\ l[n + 1] = c /\ \A k \in 1 .. n : l[k] = q[k]
  OBVIOUS
<1>2. PICK r : /\ r \in [0 .. n -> Contents] /\ r[0] = m
               /\ \A k \in 1 .. n : r[k] = Replayed(r[k - 1], SentFrom(h, q[k]))
               /\ r[n] = vals
  BY DEF Follows
<1> HIDE DEF n, l
<1> DEFINE f == [k \in 0 .. n + 1 |-> IF k = n + 1 THEN new ELSE r[k]]
<1>3. f \in [0 .. n + 1 -> Contents]
  <2>1. \A k \in 0 .. n + 1 : k # n + 1 => k \in 0 .. n
    BY <1>1
  <2> QED
    BY <1>2, <2>1
<1>4. f[0] = m /\ f[n + 1] = new
  BY <1>1, <1>2
<1>5. ASSUME NEW k \in 1 .. n + 1 PROVE f[k] = Replayed(f[k - 1], SentFrom(h, l[k]))
  <2>1. CASE k = n + 1
    <3>1. f[k] = new /\ f[k - 1] = vals /\ l[k] = c
      BY <1>1, <1>2, <2>1
    <3> QED
      BY <3>1
  <2>2. CASE k # n + 1
    <3>1. k \in 1 .. n /\ f[k] = r[k] /\ f[k - 1] = r[k - 1] /\ l[k] = q[k]
      BY <1>1, <2>2
    <3> QED
      BY <1>2, <3>1
  <2> QED
    BY <2>1, <2>2
<1> HIDE DEF f
<1>6. Follows(h, m, l, new)
  BY <1>1, <1>3, <1>4, <1>5 DEF Follows
<1> QED
  BY <1>6 DEF l

LEMMA PlayFacts ==
  ASSUME heap \in Heaps, NEW m \in Contents, NEW S, NEW q \in Seq(S), NEW vals,
         \A k \in DOMAIN q : WasRun(q[k]) /\ q[k].arg \in Held(heap),
         Follows(heap, m, q, vals)
  PROVE  FoldLeft(LAMBDA w, cmd : Replayed(w, Sent(cmd)), m, q) = vals
<1> DEFINE n == Len(q)
           fold == FoldLeft(LAMBDA w, cmd : Replayed(w, Sent(cmd)), m, q)
<1>0. n \in Nat
  OBVIOUS
<1>1. PICK r : /\ r \in [0 .. n -> Contents] /\ r[0] = m
               /\ \A k \in 1 .. n : r[k] = Replayed(r[k - 1], SentFrom(heap, q[k]))
               /\ r[n] = vals
  BY DEF Follows
<1>2. PICK f : /\ f \in [0 .. n -> Contents] /\ f[0] = m
               /\ \A k \in 1 .. n : f[k] = Replayed(f[k - 1], Sent(q[k]))
               /\ fold = f[n]
  BY PlayRuns
<1> HIDE DEF n, fold
<1> DEFINE P == {k \in Nat : k <= n => f[k] = r[k]}
<1>3. 0 \in P
  BY <1>1, <1>2
<1>4. ASSUME NEW k \in Nat, k \in P PROVE k + 1 \in P
  <2> SUFFICES ASSUME k + 1 <= n PROVE f[k + 1] = r[k + 1]
    OBVIOUS
  <2>1. k + 1 \in 1 .. n /\ (k + 1) - 1 = k /\ f[k] = r[k]
    BY <1>0, <1>4
  <2>2. Sent(q[k + 1]) = SentFrom(heap, q[k + 1])
    BY DEF Sent, SentFrom
  <2> QED
    BY <1>1, <1>2, <2>1, <2>2
<1>5. n \in P
  <2> HIDE DEF P
  <2>1. Nat \subseteq P
    BY <1>3, <1>4, InductionOver
  <2> QED
    BY <1>0, <2>1
<1>6. fold = vals
  BY <1>0, <1>1, <1>2, <1>5
<1> QED
  BY <1>6 DEF fold
-----------------------------------------------------------------------------
(* The invariant.                                                          *)

ArgIds == Int \cup {NULL}
Full == [name : Names, key : Keys, to : Keys \cup {NULL}, arg : ArgIds]
Slots == Full \cup [arg : ArgIds]
Clients == [phase : {"idle", "exec"}, queue : Seq(Slots), next : Nat, propagate : Seq(Full)]

\* The types; between transactions nothing is half done.
StoreTypes ==
  /\ heap \in Heaps /\ dict \in [Keys -> Held(heap)]
  /\ sharing \in BOOLEAN /\ stored \in [Keys -> BOOLEAN] /\ replica \in Contents
  /\ client \in Clients /\ client.next >= 1
  /\ client.phase = "idle" => client.next = 1 /\ client.propagate = << >>

\* What is queued and not yet run are commands; what was run can be replayed.
CommandsKept ==
  /\ \A i \in DOMAIN client.queue :
       /\ client.queue[i].arg \in Held(heap)
       /\ i >= client.next => client.queue[i] \in Full /\ IsCommand(heap, client.queue[i])
  /\ \A i \in DOMAIN client.propagate :
       client.propagate[i].arg \in Held(heap) /\ WasRun(client.propagate[i])

AllCounted == \A i \in Nat \ {0} : RefOf(heap, i) = Holders(i)

\* What is to be propagated leads from the replica's values to the master's.
WillFollow == Follows(heap, replica, client.propagate, Vals(heap, dict))

StoreInv == StoreTypes /\ CommandsKept /\ AllCounted /\ PrivateWhenNeeded /\ WillFollow

MapStep == \/ Vals(heap, dict)' = Vals(heap, dict)
           \/ \E c \in M!Commands : Vals(heap, dict)' = M!Applied(Vals(heap, dict), c)

\* What a command holds, and what the keys hold, when those objects stay.
LEMMA CommandStays ==
  ASSUME NEW h \in Heaps, NEW g \in Heaps, NEW cmd, cmd.arg \in Held(h),
         cmd.arg \in DOMAIN h => Stays(h, g, cmd.arg)
  PROVE  /\ cmd.arg \in Held(g) /\ SentFrom(g, cmd) = SentFrom(h, cmd)
         /\ IsCommand(h, cmd) => IsCommand(g, cmd)
<1>1. cmd.arg \in Held(g) /\ (cmd.arg # NULL => StringOf(g, cmd.arg) = StringOf(h, cmd.arg))
  BY HeldStays
<1>2. SentFrom(g, cmd) = SentFrom(h, cmd)
  BY <1>1 DEF SentFrom
<1>3. cmd.arg \in DOMAIN h => cmd.arg \in DOMAIN g /\ StringOf(g, cmd.arg) = StringOf(h, cmd.arg)
  BY DEF Stays
<1> QED
  BY <1>1, <1>2, <1>3 DEF IsCommand

LEMMA DictStays ==
  ASSUME NEW h \in Heaps, NEW g \in Heaps, NEW d \in [Keys -> Held(h)],
         \A k \in Keys : d[k] \in DOMAIN h => Stays(h, g, d[k])
  PROVE  d \in [Keys -> Held(g)] /\ Vals(g, d) = Vals(h, d)
<1>1. ASSUME NEW k \in Keys
      PROVE  d[k] \in Held(g) /\ (d[k] # NULL => StringOf(g, d[k]) = StringOf(h, d[k]))
  BY HeldStays
<1>2. d \in [Keys -> Held(g)]
  BY <1>1
<1>3. \A k \in Keys : Value(g, d, k) = Value(h, d, k)
  BY <1>1 DEF Value
<1> QED
  BY <1>2, <1>3 DEF Vals

\* The places that hold an object are among those it is counted for.
LEMMA HoldersFacts ==
  ASSUME StoreInv, NEW i \in Nat \ {0}
  PROVE  /\ Times(dict, i) \in Nat /\ Times(HeldArgs(client.queue), i) \in Nat
         /\ Times(HeldArgs(client.propagate), i) \in Nat
         /\ RefOf(heap, i) = Times(dict, i) + Times(HeldArgs(client.queue), i)
                               + Times(HeldArgs(client.propagate), i)
         /\ \A k \in Keys : dict[k] = i => Times(dict, i) >= 1
         /\ \A j \in DOMAIN client.queue : client.queue[j].arg = i => Times(HeldArgs(client.queue), i) >= 1
         /\ \A j \in DOMAIN client.propagate :
              client.propagate[j].arg = i => Times(HeldArgs(client.propagate), i) >= 1
<1>1. /\ dict \in [Keys -> Held(heap)] /\ client.queue \in Seq(Slots) /\ client.propagate \in Seq(Full)
  BY DEF StoreInv, StoreTypes, Clients
<1>2. IsFiniteSet(DOMAIN dict) /\ DOMAIN dict = Keys
  BY <1>1, StringStoreAssumption
<1>3. IsFiniteSet(DOMAIN HeldArgs(client.queue)) /\ IsFiniteSet(DOMAIN HeldArgs(client.propagate))
  <2>1. \A n \in Nat : IsFiniteSet(1 .. n)
    BY FS_Interval
  <2> QED
    BY <1>1, <2>1 DEF HeldArgs
<1>4. /\ Times(dict, i) \in Nat /\ Times(HeldArgs(client.queue), i) \in Nat
      /\ Times(HeldArgs(client.propagate), i) \in Nat
      /\ \A k \in Keys : dict[k] = i => Times(dict, i) >= 1
      /\ \A j \in DOMAIN HeldArgs(client.queue) : HeldArgs(client.queue)[j] = i => Times(HeldArgs(client.queue), i) >= 1
      /\ \A j \in DOMAIN HeldArgs(client.propagate) :
           HeldArgs(client.propagate)[j] = i => Times(HeldArgs(client.propagate), i) >= 1
  BY <1>2, <1>3, TimesFacts
<1>5. RefOf(heap, i) = Holders(i)
  BY DEF StoreInv, AllCounted
<1> QED
  BY <1>4, <1>5 DEF HeldArgs, Holders

\* The invariant is what the runs check, and more.
LEMMA InvImplies ==
  ASSUME StoreInv
  PROVE  HeapSound /\ PrivateWhenNeeded /\ ReplicaFollows
<1>1. StoreTypes /\ CommandsKept /\ AllCounted /\ PrivateWhenNeeded /\ WillFollow
  BY DEF StoreInv
<1>2. heap \in Heaps /\ dict \in [Keys -> Held(heap)]
  BY <1>1 DEF StoreTypes
<1>3. TypeOK
  <2>1. DOMAIN heap \subseteq Nat \ {0} /\ \A id \in DOMAIN heap : heap[id] \in Objects
    BY <1>2, HeapFields
  <2>2. \A i \in DOMAIN client.queue : client.queue[i].arg \in Held(heap)
    BY <1>1 DEF CommandsKept
  <2>3. \A i \in DOMAIN client.propagate : client.propagate[i].arg \in Held(heap)
    BY <1>1 DEF CommandsKept
  <2>4. sharing \in BOOLEAN /\ stored \in [Keys -> BOOLEAN]
    BY <1>1 DEF StoreTypes
  <2> QED
    BY <1>2, <2>1, <2>2, <2>3, <2>4 DEF TypeOK
<1>4. RefsAreHeld
  BY <1>1, <1>2, HeapFields DEF AllCounted, RefsAreHeld, RefOf
<1>5. ReplicaFollows
  <2> SUFFICES ASSUME client.phase = "idle" PROVE replica = Vals(heap, dict)
    BY DEF ReplicaFollows, Vals
  <2>1. client.propagate = << >>
    BY <1>1 DEF StoreTypes
  <2>2. Len(<< >>) = 0
    OBVIOUS
  <2> QED
    BY <1>1, <2>1, <2>2 DEF WillFollow, Follows
<1> QED
  BY <1>1, <1>3, <1>4, <1>5 DEF HeapSound

LEMMA NoTimes ==
  ASSUME NEW i
  PROVE  Times(HeldArgs(<< >>), i) = 0
<1>1. {x \in DOMAIN HeldArgs(<< >>) : HeldArgs(<< >>)[x] = i} = {}
  BY DEF HeldArgs
<1> QED
  BY <1>1, FS_EmptySet DEF Times

LEMMA InitInv ==
  ASSUME Init
  PROVE  StoreInv
<1>1. heap = << >> /\ dict = [k \in Keys |-> NULL] /\ client = Idle /\ replica = [k \in Keys |-> NULL]
  BY DEF Init
<1>2. heap \in Heaps /\ DOMAIN heap = {}
  <2>1. << >> \in [{} -> Objects] /\ {} \subseteq Nat \ {0} /\ IsFiniteSet({})
    BY FS_EmptySet
  <2> QED
    BY <1>1, <2>1, IsHeap
<1>3. client \in Clients /\ client.next = 1 /\ client.queue = << >> /\ client.propagate = << >>
  BY <1>1 DEF Idle, Clients
<1>4. StoreTypes
  BY <1>1, <1>2, <1>3 DEF Init, StoreTypes, Held, Contents
<1>5. CommandsKept
  BY <1>3 DEF CommandsKept
<1>6. AllCounted
  <2> SUFFICES ASSUME NEW i \in Nat \ {0} PROVE RefOf(heap, i) = Holders(i)
    BY DEF AllCounted
  <2>1. Times(HeldArgs(client.queue), i) = 0 /\ Times(HeldArgs(client.propagate), i) = 0
    BY <1>3, NoTimes
  <2>2. Times(dict, i) = 0
    <3>1. IsFiniteSet(DOMAIN dict) /\ \A k \in DOMAIN dict : dict[k] # i
      BY <1>1, StringStoreAssumption, NullAssumption
    <3> QED
      BY <3>1, TimesFacts
  <2> QED
    BY <1>2, <2>1, <2>2 DEF RefOf, Holders
<1>7. PrivateWhenNeeded
  BY <1>1 DEF PrivateWhenNeeded
<1>8. WillFollow
  <2>1. Vals(heap, dict) = replica /\ replica \in Contents
    BY <1>1, <1>4 DEF Vals, Value, StoreTypes
  <2> QED
    BY <1>3, <2>1, NothingToFollow DEF WillFollow
<1> QED
  BY <1>4, <1>5, <1>6, <1>7, <1>8 DEF StoreInv
-----------------------------------------------------------------------------
(* The steps.                                                              *)

\* A step that leaves the keys alone, and every object that is held.
LEMMA SameDict ==
  ASSUME StoreInv, heap' \in Heaps, UNCHANGED <<dict, stored>>,
         \A i \in DOMAIN heap : Times(dict, i) >= 1 => Stays(heap, heap', i)
  PROVE  /\ dict' \in [Keys -> Held(heap')] /\ Vals(heap, dict)' = Vals(heap, dict)
         /\ stored' \in [Keys -> BOOLEAN] /\ PrivateWhenNeeded'
<1>1. heap \in Heaps /\ dict \in [Keys -> Held(heap)] /\ stored \in [Keys -> BOOLEAN]
  BY DEF StoreInv, StoreTypes
<1>2. \A k \in Keys : dict[k] \in DOMAIN heap => Stays(heap, heap', dict[k])
  <2> TAKE k \in Keys
  <2> SUFFICES ASSUME NEW i \in DOMAIN heap, dict[k] = i PROVE Stays(heap, heap', i)
    OBVIOUS
  <2>1. i \in Nat \ {0}
    BY <1>1, HeapFields
  <2> QED
    BY <2>1, HoldersFacts
<1>3. dict \in [Keys -> Held(heap')] /\ Vals(heap', dict) = Vals(heap, dict)
  BY <1>1, <1>2, DictStays
<1>4. Vals(heap, dict)' = Vals(heap', dict)
  BY DEF Vals, Value
<1>5. PrivateWhenNeeded'
  BY DEF PrivateWhenNeeded, StoreInv
<1> QED
  BY <1>1, <1>3, <1>4, <1>5

LEMMA QueueStep ==
  ASSUME StoreInv, NEW c \in M!Commands, Queue(c)
  PROVE  StoreInv' /\ Vals(heap, dict)' = Vals(heap, dict)
<1> DEFINE o == IF "text" \in DOMAIN c THEN CreateString(heap, c.text) ELSE With(heap, NULL)
           to == IF "to" \in DOMAIN c THEN c.to ELSE NULL
           cmd == [name |-> c.name, key |-> c.key, to |-> to, arg |-> o.id]
           q == client.queue
<1>1. /\ heap \in Heaps /\ dict \in [Keys -> Held(heap)] /\ client \in Clients
      /\ q \in Seq(Slots) /\ CommandsKept /\ client.propagate = << >> /\ client.next = 1
      /\ client.phase = "idle"
  BY DEF StoreInv, StoreTypes, Clients, Queue
<1>2. /\ client' = [client EXCEPT !.queue = Append(@, cmd)] /\ heap' = o.heap
      /\ UNCHANGED <<dict, sharing, replica, stored>>
  BY DEF Queue
<1>3. /\ c.name \in Names /\ c.key \in Keys /\ to \in Keys \cup {NULL}
      /\ (c.name \in {"set", "append"} <=> "text" \in DOMAIN c)
      /\ c.name \in {"set", "append"} => c.text \in Texts
      /\ c.name \in {"rename", "copy"} => to \in Keys /\ to # c.key
  <2>1. CASE c \in [name : {"set", "append"}, key : Keys, text : Texts]
    BY <2>1 DEF Names
  <2>2. CASE c \in [name : {"incr", "del"}, key : Keys]
    BY <2>2 DEF Names
  <2>3. CASE c \in {d \in [name : {"rename", "copy"}, key : Keys, to : Keys] : d.key # d.to}
    BY <2>3 DEF Names
  <2> QED
    BY <2>1, <2>2, <2>3 DEF M!Commands
<1>4. /\ o.heap \in Heaps /\ o.id \in Held(o.heap)
      /\ \A i \in DOMAIN heap : Stays(heap, o.heap, i)
      /\ \A i \in Nat \ {0} : RefOf(o.heap, i) = RefOf(heap, i) + Hit(o.id, i)
      /\ c.name \in {"set", "append"} => o.id \in DOMAIN o.heap /\ StringOf(o.heap, o.id) = c.text
      /\ c.name \notin {"set", "append"} => o.id = NULL
  <2>1. CASE "text" \in DOMAIN c
    <3>1. c.text \in Values /\ c.name \in {"set", "append"} /\ o = CreateString(heap, c.text)
      BY <1>3, <2>1, TextsAreValues
    <3>2. Makes(heap, o, c.text) /\ o.id \in DOMAIN o.heap
      BY <1>1, <3>1, CreateStringFacts
    <3> HIDE DEF o
    <3>3. \A i \in DOMAIN heap : Stays(heap, o.heap, i)
      BY <3>2, SameStays DEF Makes
    <3> QED
      BY <3>1, <3>2, <3>3 DEF Makes, Held
  <2>2. CASE "text" \notin DOMAIN c
    <3>1. o.heap = heap /\ o.id = NULL /\ c.name \notin {"set", "append"}
      BY <1>3, <2>2 DEF With
    <3> HIDE DEF o
    <3>2. \A i \in DOMAIN heap : Stays(heap, heap, i)
      BY SameStays
    <3>3. \A i \in Nat \ {0} : RefOf(heap, i) \in Nat /\ Hit(NULL, i) = 0
      BY <1>1, HeapFields, HeldFacts
    <3> QED
      BY <1>1, <3>1, <3>2, <3>3 DEF Held
  <2> QED
    BY <2>1, <2>2
<1>5. o.id \in ArgIds
  BY <1>4, HeldFacts DEF ArgIds
<1> HIDE DEF o, to
<1>6. cmd \in Full /\ cmd.arg = o.id /\ IsCommand(o.heap, cmd)
  BY <1>3, <1>4, <1>5 DEF Full, IsCommand
<1> HIDE DEF cmd
<1>7. /\ client'.queue = Append(q, cmd) /\ client'.phase = "idle" /\ client'.next = 1
      /\ client'.propagate = << >> /\ client' \in Clients
  <2>1. Append(q, cmd) \in Seq(Slots)
    BY <1>1, <1>6 DEF Slots
  <2> QED
    BY <1>1, <1>2, <2>1 DEF Clients
<1>8. heap' \in Heaps /\ \A i \in DOMAIN heap : Stays(heap, heap', i)
  BY <1>2, <1>4
<1>9. /\ dict' \in [Keys -> Held(heap')] /\ Vals(heap, dict)' = Vals(heap, dict)
      /\ stored' \in [Keys -> BOOLEAN] /\ PrivateWhenNeeded'
  BY <1>2, <1>8, SameDict
<1>10. StoreTypes'
  BY <1>2, <1>7, <1>8, <1>9 DEF StoreTypes, StoreInv
<1>11. CommandsKept'
  <2>1. ASSUME NEW i \in DOMAIN Append(q, cmd)
        PROVE  /\ Append(q, cmd)[i].arg \in Held(heap')
               /\ Append(q, cmd)[i] \in Full /\ IsCommand(heap', Append(q, cmd)[i])
    <3>1. CASE i = Len(q) + 1
      <4>1. Append(q, cmd)[i] = cmd
        BY <1>1, <3>1
      <4> QED
        BY <1>2, <1>4, <1>6, <4>1
    <3>2. CASE i # Len(q) + 1
      <4>1. i \in DOMAIN q /\ Append(q, cmd)[i] = q[i] /\ i >= 1
        BY <1>1, <3>2
      <4>2. q[i].arg \in Held(heap) /\ q[i] \in Full /\ IsCommand(heap, q[i])
        BY <1>1, <4>1 DEF CommandsKept
      <4>3. q[i].arg \in Held(heap') /\ IsCommand(heap', q[i])
        BY <1>1, <1>8, <4>2, CommandStays
      <4> QED
        BY <4>1, <4>2, <4>3
    <3> QED
      BY <3>1, <3>2
  <2>2. DOMAIN client'.propagate = {}
    BY <1>7
  <2> QED
    BY <1>7, <2>1, <2>2 DEF CommandsKept
<1>12. AllCounted'
  <2> SUFFICES ASSUME NEW i \in Nat \ {0}
               PROVE  RefOf(heap', i) = Times(dict', i) + Times(HeldArgs(client'.queue), i)
                                          + Times(HeldArgs(client'.propagate), i)
    BY DEF AllCounted, Holders
  <2>1. /\ Times(dict, i) \in Nat /\ Times(HeldArgs(q), i) \in Nat /\ Times(HeldArgs(client.propagate), i) \in Nat
        /\ RefOf(heap, i) = Times(dict, i) + Times(HeldArgs(q), i) + Times(HeldArgs(client.propagate), i)
    BY HoldersFacts
  <2>2. Times(HeldArgs(Append(q, cmd)), i) = Times(HeldArgs(q), i) + Hit(cmd.arg, i)
    BY <1>1, TimesAppend
  <2>3. RefOf(heap', i) = RefOf(heap, i) + Hit(cmd.arg, i) /\ Hit(cmd.arg, i) \in Int
    BY <1>2, <1>4, <1>6 DEF Hit
  <2> QED
    BY <1>1, <1>2, <1>7, <2>1, <2>2, <2>3
<1>13. WillFollow'
  <2>1. Follows(heap, replica, << >>, Vals(heap, dict))
    BY <1>1 DEF StoreInv, WillFollow
  <2>2. Follows(heap', replica, << >>, Vals(heap, dict))
    BY <2>1 DEF Follows
  <2> QED
    BY <1>2, <1>7, <1>9, <2>2 DEF WillFollow
<1> QED
  BY <1>9, <1>10, <1>11, <1>12, <1>13 DEF StoreInv

LEMMA SetPolicyStep ==
  ASSUME StoreInv, SetPolicy
  PROVE  StoreInv' /\ Vals(heap, dict)' = Vals(heap, dict)
<1>1. sharing' \in BOOLEAN /\ UNCHANGED <<heap, dict, client, replica, stored>>
  BY DEF SetPolicy, StoreInv, StoreTypes
<1>2. Vals(heap, dict)' = Vals(heap, dict)
  BY <1>1 DEF Vals, Value
<1>3. StoreTypes'
  BY <1>1 DEF StoreTypes, StoreInv
<1>4. CommandsKept' /\ AllCounted' /\ PrivateWhenNeeded'
  BY <1>1 DEF StoreInv, CommandsKept, AllCounted, Holders, PrivateWhenNeeded
<1>5. WillFollow'
  BY <1>1, <1>2 DEF StoreInv, WillFollow
<1> QED
  BY <1>2, <1>3, <1>4, <1>5 DEF StoreInv
LEMMA ExecuteStep ==
  ASSUME StoreInv, Execute
  PROVE  StoreInv' /\ MapStep
<1> DEFINE q == client.queue
           n == client.next
           cmd == q[n]
           r == Result(cmd)
           ran == [cmd EXCEPT !.arg = r.arg]
           held == IF r.done /\ r.arg # NULL THEN Incr(r.heap, r.arg) ELSE r.heap
           slot == [arg |-> r.arg]
           vals == Vals(heap, dict)
<1>1. /\ heap \in Heaps /\ dict \in [Keys -> Held(heap)] /\ client \in Clients
      /\ q \in Seq(Slots) /\ CommandsKept /\ client.propagate \in Seq(Full) /\ n \in DOMAIN q
      /\ n \in Nat \ {0} /\ stored \in [Keys -> BOOLEAN] /\ sharing \in BOOLEAN /\ PrivateWhenNeeded
      /\ replica \in Contents
  BY DEF StoreInv, StoreTypes, Clients, Execute
<1>2. /\ heap' = held /\ dict' = r.dict /\ stored' = (IF r.done THEN StoredAfter(cmd) ELSE stored)
      /\ client' = [client EXCEPT !.phase = "exec", !.next = @ + 1, !.queue[client.next] = slot,
                                  !.propagate = IF r.done THEN Append(@, ran) ELSE @]
      /\ UNCHANGED <<sharing, replica>>
  BY DEF Execute
<1>3. cmd \in Full /\ IsCommand(heap, cmd) /\ cmd.arg \in Held(heap)
  BY <1>1 DEF CommandsKept
<1>4. \A i \in Nat \ {0} :
        /\ Times(dict, i) \in Nat /\ Times(HeldArgs(q), i) \in Nat /\ Times(HeldArgs(client.propagate), i) \in Nat
        /\ RefOf(heap, i) = Times(dict, i) + Times(HeldArgs(q), i) + Times(HeldArgs(client.propagate), i)
        /\ \A j \in DOMAIN client.propagate :
             client.propagate[j].arg = i => Times(HeldArgs(client.propagate), i) >= 1
  BY HoldersFacts
<1>5. \A i, v :
        /\ Times(HeldArgs([q EXCEPT ![n] = slot]), i) = Times(HeldArgs(q), i) - Hit(cmd.arg, i) + Hit(r.arg, i)
        /\ Times(HeldArgs(q), i) >= Hit(cmd.arg, i)
        /\ \A j \in DOMAIN q : j # n /\ q[j].arg = i => Times(HeldArgs(q), i) >= Hit(cmd.arg, i) + 1
  <2> TAKE i, v
  <2>1. HeldArgs([q EXCEPT ![n] = slot]) = [HeldArgs(q) EXCEPT ![n] = r.arg]
    <3>1. \A j \in DOMAIN q : [q EXCEPT ![n] = slot][j].arg = IF j = n THEN r.arg ELSE q[j].arg
      BY <1>1
    <3> HIDE DEF slot, r
    <3> QED
      BY <1>1, <3>1 DEF HeldArgs
  <2>2. DOMAIN HeldArgs(q) = DOMAIN q /\ IsFiniteSet(DOMAIN HeldArgs(q)) /\ n \in DOMAIN HeldArgs(q)
        /\ \A j \in DOMAIN q : HeldArgs(q)[j] = q[j].arg
    <3>1. IsFiniteSet(1 .. Len(q))
      BY <1>1, FS_Interval
    <3> QED
      BY <1>1, <3>1 DEF HeldArgs
  <2> HIDE DEF r, slot
  <2>3. /\ Times([HeldArgs(q) EXCEPT ![n] = r.arg], i) = Times(HeldArgs(q), i) - Hit(HeldArgs(q)[n], i) + Hit(r.arg, i)
        /\ Times(HeldArgs(q), i) >= Hit(HeldArgs(q)[n], i)
        /\ \A j \in DOMAIN HeldArgs(q) : j # n /\ HeldArgs(q)[j] = i => Times(HeldArgs(q), i) >= Hit(HeldArgs(q)[n], i) + 1
    BY <2>2, TimesPut
  <2> QED
    BY <1>1, <2>1, <2>2, <2>3
<1>6. Ready(cmd)
  <2>1. \A i \in Nat \ {0} : RefOf(heap, i) >= Times(dict, i) + Hit(cmd.arg, i)
    <3> TAKE i \in Nat \ {0}
    <3>1. Hit(cmd.arg, i) \in {0, 1}
      BY DEF Hit
    <3> HIDE DEF cmd
    <3> QED
      BY <1>4, <1>5, <3>1
  <2>2. cmd.key \in Keys
    BY <1>3 DEF IsCommand
  <2> HIDE DEF cmd
  <2> QED
    BY <1>1, <1>3, <2>1, <2>2 DEF Ready
<1> HIDE DEF cmd
<1>7. /\ Maps(cmd, r) /\ (r.done => Private(cmd, r)) /\ (~r.done => r = Refused(cmd))
  BY <1>1, <1>3, <1>6, RunFacts
<1> HIDE DEF r
<1>8. PICK c \in M!Commands :
        /\ Does(cmd, r, M!Applied(vals, c))
        /\ r.done => Replayed(vals, SentFrom(heap, cmd)) = M!Applied(vals, c)
  BY <1>7 DEF Maps
<1> HIDE DEF vals
<1>9. /\ r.heap \in Heaps /\ r.dict \in [Keys -> Held(r.heap)] /\ r.arg \in Held(r.heap)
      /\ r.arg = NULL <=> cmd.arg = NULL
      /\ r.arg # NULL => StringOf(r.heap, r.arg) = StringOf(heap, cmd.arg)
      /\ \A i \in Nat \ {0} : RefOf(r.heap, i) - Times(r.dict, i) - Hit(r.arg, i)
                                = RefOf(heap, i) - Times(dict, i) - Hit(cmd.arg, i)
      /\ \A i \in DOMAIN heap :
           RefOf(heap, i) > Times(dict, i) + Hit(cmd.arg, i) => Stays(heap, r.heap, i)
      /\ Vals(r.heap, r.dict) = M!Applied(vals, c)
  BY <1>8 DEF Does
<1>10. /\ held \in Heaps /\ DOMAIN held = DOMAIN r.heap
       /\ \A i \in DOMAIN r.heap : Stays(r.heap, held, i)
       /\ \A i \in Nat \ {0} : RefOf(held, i) = RefOf(r.heap, i) + (IF r.done THEN Hit(r.arg, i) ELSE 0)
  <2>1. \A i \in DOMAIN r.heap : i \in Int /\ Stays(r.heap, r.heap, i)
    BY <1>9, HeapFields, SameStays
  <2>2. \A i \in Nat \ {0} : RefOf(r.heap, i) \in Nat /\ Hit(NULL, i) = 0
    BY <1>9, HeapFields, HeldFacts
  <2>3. CASE r.done /\ r.arg # NULL
    <3>1. r.arg \in Int /\ (r.arg \in DOMAIN r.heap \/ IsShared(r.arg))
      BY <1>9, <2>3, HeldFacts
    <3> DEFINE g == Incr(r.heap, r.arg)
    <3>2. /\ g \in Heaps /\ DOMAIN g = DOMAIN r.heap
          /\ \A i \in Nat \ {0} : RefOf(g, i) = RefOf(r.heap, i) + Hit(r.arg, i)
          /\ \A i \in Int : StringOf(g, i) = StringOf(r.heap, i)
          /\ \A i \in DOMAIN r.heap : g[i].enc = r.heap[i].enc
      BY <1>9, <3>1, IncrFacts
    <3>3. held = g
      BY <2>3
    <3> HIDE DEF g, held
    <3> QED
      BY <2>1, <2>3, <3>2, <3>3 DEF Stays
  <2>4. CASE ~(r.done /\ r.arg # NULL)
    <3>1. held = r.heap
      BY <2>4
    <3> HIDE DEF held
    <3> QED
      BY <1>9, <2>1, <2>2, <2>4, <3>1
  <2> QED
    BY <2>3, <2>4
<1> HIDE DEF held
<1>11. \A id \in Held(r.heap) : id \in Held(held) /\ (id # NULL => StringOf(held, id) = StringOf(r.heap, id))
  BY <1>9, <1>10, HeldStays
<1>12. r.dict \in [Keys -> Held(held)] /\ Vals(held, r.dict) = M!Applied(vals, c)
  BY <1>9, <1>10, DictStays
<1>13. Vals(heap, dict)' = M!Applied(vals, c)
  BY <1>2, <1>12 DEF Vals, Value
<1>14. r.arg \in Held(held) /\ r.arg \in ArgIds /\ slot \in Slots
  <2>1. r.arg \in Held(held) /\ r.arg \in ArgIds
    BY <1>9, <1>11, HeldFacts DEF ArgIds
  <2> QED
    BY <2>1 DEF Slots
<1>15. /\ ran \in Full /\ ran.arg = r.arg /\ WasRun(ran)
       /\ SentFrom(held, ran) = SentFrom(heap, cmd)
  <2>1. ran \in Full /\ ran.arg = r.arg /\ ran.name = cmd.name /\ ran.key = cmd.key /\ ran.to = cmd.to
    BY <1>3, <1>14 DEF Full
  <2> HIDE DEF ran
  <2>2. cmd.name \in {"set", "append"} => cmd.arg # NULL
    BY <1>1, <1>3, HeapFields, NullAssumption DEF IsCommand
  <2>3. WasRun(ran)
    BY <1>3, <1>9, <2>1, <2>2 DEF IsCommand, WasRun
  <2>4. SentFrom(held, ran) = SentFrom(heap, cmd)
    BY <1>9, <1>11, <2>1 DEF SentFrom
  <2> QED
    BY <2>1, <2>3, <2>4
<1> HIDE DEF ran
<1> DEFINE newq == [q EXCEPT ![n] = slot]
           newp == IF r.done THEN Append(client.propagate, ran) ELSE client.propagate
<1>16. /\ newq \in Seq(Slots) /\ newp \in Seq(Full) /\ DOMAIN newq = DOMAIN q
       /\ newq[n] = slot /\ \A j \in DOMAIN q : j # n => newq[j] = q[j]
  BY <1>1, <1>14, <1>15
<1>17. /\ client'.queue = newq /\ client'.phase = "exec" /\ client'.next = n + 1
       /\ client'.propagate = newp /\ client' \in Clients
  <2> HIDE DEF slot
  <2>1. client' = [client EXCEPT !.phase = "exec", !.next = n + 1, !.queue = newq, !.propagate = newp]
    BY <1>1, <1>2 DEF Clients
  <2>2. newq \in Seq(Slots) /\ newp \in Seq(Full) /\ n + 1 \in Nat
    BY <1>1, <1>16
  <2> HIDE DEF newq, newp, n, q
  <2>3. PICK a \in Seq(Slots), b \in Seq(Full), l \in Nat : a = newq /\ b = newp /\ l = n + 1
    BY <2>2
  <2>4. client' = [client EXCEPT !.phase = "exec", !.next = l, !.queue = a, !.propagate = b]
    BY <2>1, <2>3
  <2>5. client \in Clients
    BY <1>1
  <2>6. /\ client'.queue = a /\ client'.phase = "exec" /\ client'.next = l
        /\ client'.propagate = b /\ client' \in Clients
    BY <2>4, <2>5 DEF Clients
  <2> QED
    BY <2>3, <2>6
<1> HIDE DEF newp, newq, q
<1>18. StoreTypes'
  BY <1>1, <1>2, <1>7, <1>10, <1>12, <1>17 DEF StoreTypes, Private
<1>19. ASSUME NEW i \in DOMAIN heap, Times(HeldArgs(q), i) + Times(HeldArgs(client.propagate), i) > Hit(cmd.arg, i)
       PROVE  Stays(heap, held, i)
  <2>1. i \in Nat \ {0} /\ Hit(cmd.arg, i) \in {0, 1}
    BY <1>1, HeapFields DEF Hit
  <2>2. RefOf(heap, i) > Times(dict, i) + Hit(cmd.arg, i)
    BY <1>4, <1>19, <2>1
  <2>3. Stays(heap, r.heap, i)
    BY <1>9, <2>2
  <2> QED
    BY <1>10, <2>3, StaysOn DEF Stays
<1>20. \A j \in DOMAIN q : j # n =>
         /\ q[j].arg \in Held(held)
         /\ j > n => q[j] \in Full /\ IsCommand(held, q[j])
  <2> TAKE j \in DOMAIN q
  <2> HAVE j # n
  <2>1. /\ q[j].arg \in Held(heap) /\ j \in Nat
        /\ j > n => q[j] \in Full /\ IsCommand(heap, q[j])
    BY <1>1 DEF CommandsKept, q
  <2>2. ASSUME NEW i \in DOMAIN heap, q[j].arg = i PROVE Stays(heap, held, i)
    <3>1. i \in Nat \ {0} /\ Hit(cmd.arg, i) \in {0, 1}
      BY <1>1, HeapFields DEF Hit
    <3>2. Times(HeldArgs(q), i) >= Hit(cmd.arg, i) + 1
      BY <1>5, <2>2
    <3> QED
      BY <1>4, <1>19, <3>1, <3>2
  <2>3. q[j].arg \in Held(held) /\ (IsCommand(heap, q[j]) => IsCommand(held, q[j]))
    BY <1>1, <1>10, <2>1, <2>2, CommandStays
  <2> QED
    BY <2>1, <2>3
<1>21. \A j \in DOMAIN client.propagate :
         /\ client.propagate[j].arg \in Held(held) /\ WasRun(client.propagate[j])
         /\ SentFrom(held, client.propagate[j]) = SentFrom(heap, client.propagate[j])
  <2> TAKE j \in DOMAIN client.propagate
  <2>1. client.propagate[j].arg \in Held(heap) /\ WasRun(client.propagate[j])
    BY <1>1 DEF CommandsKept
  <2>2. ASSUME NEW i \in DOMAIN heap, client.propagate[j].arg = i PROVE Stays(heap, held, i)
    <3>1. i \in Nat \ {0} /\ Hit(cmd.arg, i) \in {0, 1}
      BY <1>1, HeapFields DEF Hit
    <3>2. Times(HeldArgs(client.propagate), i) >= 1 /\ Times(HeldArgs(q), i) >= Hit(cmd.arg, i)
      BY <1>4, <1>5, <2>2, <3>1
    <3>3. Times(HeldArgs(client.propagate), i) \in Nat /\ Times(HeldArgs(q), i) \in Nat
      BY <1>4, <3>1
    <3> QED
      BY <1>19, <3>1, <3>2, <3>3
  <2> QED
    BY <1>1, <1>10, <2>1, <2>2, CommandStays
<1>22. CommandsKept'
  <2>1. \A j \in DOMAIN newq :
          /\ newq[j].arg \in Held(held)
          /\ j >= n + 1 => newq[j] \in Full /\ IsCommand(held, newq[j])
    <3> TAKE j \in DOMAIN newq
    <3>0. j \in Nat /\ n \in Nat /\ j \in DOMAIN q
      BY <1>1, <1>16 DEF q
    <3>1. CASE j = n
      <4>1. newq[j].arg = r.arg /\ ~(j >= n + 1)
        BY <1>16, <3>0, <3>1
      <4> QED
        BY <1>14, <4>1
    <3>2. CASE j # n
      <4>1. newq[j] = q[j] /\ (j >= n + 1 => j > n)
        BY <1>16, <3>0, <3>2
      <4> QED
        BY <1>20, <3>0, <3>2, <4>1
    <3> QED
      BY <3>1, <3>2
  <2>2. \A j \in DOMAIN newp : newp[j].arg \in Held(held) /\ WasRun(newp[j])
    <3>1. CASE r.done
      <4> DEFINE p == client.propagate
      <4>1. newp = Append(p, ran) /\ p \in Seq(Full)
        BY <1>1, <3>1 DEF newp
      <4>2. \A j \in DOMAIN Append(p, ran) : (j \in DOMAIN p /\ Append(p, ran)[j] = p[j])
                                          \/ Append(p, ran)[j] = ran
        BY <4>1
      <4> QED
        BY <1>14, <1>15, <1>21, <4>1, <4>2
    <3>2. CASE ~r.done
      BY <1>21, <3>2 DEF newp
    <3> QED
      BY <3>1, <3>2
  <2> QED
    BY <1>2, <1>17, <2>1, <2>2 DEF CommandsKept
<1>23. AllCounted'
  <2> SUFFICES ASSUME NEW i \in Nat \ {0}
               PROVE  RefOf(heap', i) = Times(dict', i) + Times(HeldArgs(client'.queue), i)
                                          + Times(HeldArgs(client'.propagate), i)
    BY DEF AllCounted, Holders
  <2>1. /\ Times(dict, i) \in Nat /\ Times(HeldArgs(q), i) \in Nat /\ Times(HeldArgs(client.propagate), i) \in Nat
        /\ RefOf(heap, i) = Times(dict, i) + Times(HeldArgs(q), i) + Times(HeldArgs(client.propagate), i)
    BY <1>4
  <2>2. Times(r.dict, i) \in Nat /\ RefOf(r.heap, i) \in Nat
    <3>1. IsFiniteSet(DOMAIN r.dict)
      BY <1>9, StringStoreAssumption
    <3> QED
      BY <1>9, <3>1, TimesFacts, HeapFields
  <2>3. Hit(cmd.arg, i) \in {0, 1} /\ Hit(r.arg, i) \in {0, 1}
    BY DEF Hit
  <2>4. Times(HeldArgs(newq), i) = Times(HeldArgs(q), i) - Hit(cmd.arg, i) + Hit(r.arg, i)
    BY <1>5 DEF newq
  <2>5. Times(HeldArgs(newp), i) = Times(HeldArgs(client.propagate), i) + (IF r.done THEN Hit(r.arg, i) ELSE 0)
    <3>1. Times(HeldArgs(Append(client.propagate, ran)), i)
            = Times(HeldArgs(client.propagate), i) + Hit(ran.arg, i)
      BY <1>1, TimesAppend
    <3> QED
      BY <1>15, <2>1, <3>1 DEF newp
  <2>6. RefOf(r.heap, i) - Times(r.dict, i) - Hit(r.arg, i) = RefOf(heap, i) - Times(dict, i) - Hit(cmd.arg, i)
    BY <1>9
  <2>7. RefOf(held, i) = RefOf(r.heap, i) + (IF r.done THEN Hit(r.arg, i) ELSE 0)
    BY <1>10
  <2>8. RefOf(held, i) = Times(r.dict, i) + Times(HeldArgs(newq), i) + Times(HeldArgs(newp), i)
    <3> HIDE DEF n, slot
    <3>1. CASE r.done
      BY <2>1, <2>2, <2>3, <2>4, <2>5, <2>6, <2>7, <3>1
    <3>2. CASE ~r.done
      BY <2>1, <2>2, <2>3, <2>4, <2>5, <2>6, <2>7, <3>2
    <3> QED
      BY <3>1, <3>2
  <2> QED
    BY <1>2, <1>17, <2>8
<1>24. PrivateWhenNeeded'
  <2>1. CASE r.done
    BY <1>2, <1>7, <2>1 DEF PrivateWhenNeeded, Private
  <2>2. CASE ~r.done
    <3>1. r.dict = dict
      BY <1>7, <2>2 DEF Refused, State
    <3> QED
      BY <1>1, <1>2, <2>2, <3>1 DEF PrivateWhenNeeded
  <2> QED
    BY <2>1, <2>2
<1>25. WillFollow'
  <2> DEFINE p == client.propagate
  <2>0. p \in Seq(Full) /\ DOMAIN p = 1 .. Len(p)
    BY <1>1
  <2>1. Follows(heap, replica, p, vals)
    BY DEF StoreInv, WillFollow, vals
  <2>2. Follows(held, replica, p, vals)
    BY <1>21, <2>0, <2>1, FollowsStays
  <2>3. CASE r.done
    <3>1. M!Applied(vals, c) = Replayed(vals, SentFrom(held, ran)) /\ M!Applied(vals, c) \in Contents
      BY <1>8, <1>10, <1>12, <1>15, <2>3, ValsFacts
    <3>2. Follows(held, replica, Append(p, ran), M!Applied(vals, c))
      <4> DEFINE new == M!Applied(vals, c)
      <4>1. new \in Contents /\ new = Replayed(vals, SentFrom(held, ran))
        BY <3>1
      <4> HIDE DEF new
      <4>2. Follows(held, replica, Append(p, ran), new)
        BY <2>0, <2>2, <4>1, FollowsOn
      <4> QED
        BY <4>2 DEF new
    <3> QED
      BY <1>2, <1>13, <1>17, <2>3, <3>2 DEF WillFollow, newp
  <2>4. CASE ~r.done
    <3>1. r.dict = dict /\ r.heap = heap
      BY <1>7, <2>4 DEF Refused, State
    <3>2. M!Applied(vals, c) = vals
      BY <1>9, <3>1 DEF vals
    <3> QED
      BY <1>2, <1>13, <1>17, <2>2, <2>4, <3>2 DEF WillFollow, newp
  <2> QED
    BY <2>3, <2>4
<1>26. MapStep
  BY <1>13 DEF MapStep, vals
<1> QED
  BY <1>18, <1>22, <1>23, <1>24, <1>25, <1>26 DEF StoreInv

\* A step that releases all a transaction holds, with the replica up to date.
LEMMA EndStep ==
  ASSUME StoreInv, heap' \in Heaps, client' = Idle, UNCHANGED <<dict, sharing, stored>>,
         \A i \in Nat \ {0} : RefOf(heap', i) = Times(dict, i),
         \A i \in DOMAIN heap : Times(dict, i) >= 1 => Stays(heap, heap', i),
         replica' = Vals(heap, dict)
  PROVE  StoreInv' /\ Vals(heap, dict)' = Vals(heap, dict)
<1>1. /\ dict' \in [Keys -> Held(heap')] /\ Vals(heap, dict)' = Vals(heap, dict)
      /\ stored' \in [Keys -> BOOLEAN] /\ PrivateWhenNeeded'
  BY SameDict
<1>2. /\ client' \in Clients /\ client'.next = 1 /\ client'.queue = << >> /\ client'.propagate = << >>
      /\ client'.phase = "idle"
  BY DEF Idle, Clients
<1>3. Vals(heap, dict) \in Contents
  BY ValsFacts DEF StoreInv, StoreTypes
<1>4. StoreTypes'
  BY <1>1, <1>2, <1>3 DEF StoreTypes, StoreInv
<1>5. CommandsKept'
  BY <1>2 DEF CommandsKept
<1>6. AllCounted'
  <2> SUFFICES ASSUME NEW i \in Nat \ {0}
               PROVE  RefOf(heap', i) = Times(dict', i) + Times(HeldArgs(client'.queue), i)
                                          + Times(HeldArgs(client'.propagate), i)
    BY DEF AllCounted, Holders
  <2>1. Times(HeldArgs(<< >>), i) = 0
    BY NoTimes
  <2>2. Times(dict, i) \in Nat
    BY HoldersFacts
  <2> QED
    BY <1>2, <2>1, <2>2
<1>7. WillFollow'
  <2>1. Follows(heap', replica', << >>, replica')
    BY <1>3, NothingToFollow
  <2> QED
    BY <1>1, <1>2, <2>1 DEF WillFollow
<1> QED
  BY <1>1, <1>4, <1>5, <1>6, <1>7 DEF StoreInv

LEMMA DiscardStep ==
  ASSUME StoreInv, Discard
  PROVE  StoreInv' /\ Vals(heap, dict)' = Vals(heap, dict)
<1> DEFINE q == client.queue
<1>1. /\ heap \in Heaps /\ q \in Seq(Slots) /\ CommandsKept /\ client.propagate = << >>
      /\ heap' = Freed(heap, q) /\ client' = Idle /\ UNCHANGED <<dict, sharing, replica, stored>>
      /\ client.phase = "idle"
  BY DEF StoreInv, StoreTypes, Clients, Discard
<1>2. \A k \in DOMAIN q : q[k].arg \in Held(heap)
  BY <1>1 DEF CommandsKept
<1>3. \A i \in Nat \ {0} : /\ Times(dict, i) \in Nat /\ Times(HeldArgs(q), i) \in Nat
                           /\ RefOf(heap, i) = Times(dict, i) + Times(HeldArgs(q), i)
  <2> TAKE i \in Nat \ {0}
  <2>1. Times(HeldArgs(client.propagate), i) = 0
    BY <1>1, NoTimes
  <2> QED
    BY <2>1, HoldersFacts
<1>4. /\ Freed(heap, q) \in Heaps
      /\ \A i \in Nat \ {0} : RefOf(Freed(heap, q), i) = RefOf(heap, i) - Times(HeldArgs(q), i)
      /\ \A i \in DOMAIN heap : RefOf(heap, i) > Times(HeldArgs(q), i) => Stays(heap, Freed(heap, q), i)
  <2>1. \A i \in Nat \ {0} : RefOf(heap, i) >= Times(HeldArgs(q), i)
    BY <1>3
  <2> QED
    BY <1>1, <1>2, <2>1, FreedFacts
<1>5. \A i \in Nat \ {0} : RefOf(heap', i) = Times(dict, i)
  BY <1>1, <1>3, <1>4
<1>6. ASSUME NEW i \in DOMAIN heap, Times(dict, i) >= 1
      PROVE  Stays(heap, heap', i)
  <2>1. i \in Nat \ {0}
    BY <1>1, HeapFields
  <2> QED
    BY <1>1, <1>3, <1>4, <1>6, <2>1, SMTT(30)
<1>7. replica' = Vals(heap, dict)
  BY <1>1, InvImplies DEF ReplicaFollows, Vals
<1> QED
  BY <1>1, <1>4, <1>5, <1>6, <1>7, EndStep

LEMMA FinishStep ==
  ASSUME StoreInv, Finish
  PROVE  StoreInv' /\ Vals(heap, dict)' = Vals(heap, dict)
<1> DEFINE q == client.queue
           p == client.propagate
           mid == Freed(heap, p)
<1>1. /\ heap \in Heaps /\ q \in Seq(Slots) /\ p \in Seq(Full) /\ CommandsKept /\ replica \in Contents
      /\ heap' = Freed(mid, q) /\ client' = Idle /\ UNCHANGED <<dict, sharing, stored>>
      /\ replica' = FoldLeft(LAMBDA m, cmd : Replayed(m, Sent(cmd)), replica, p)
  BY DEF StoreInv, StoreTypes, Clients, Finish
<1>2. /\ \A k \in DOMAIN q : q[k].arg \in Held(heap)
      /\ \A k \in DOMAIN p : p[k].arg \in Held(heap) /\ WasRun(p[k])
  BY <1>1 DEF CommandsKept
<1>3. \A i \in Nat \ {0} : /\ Times(dict, i) \in Nat /\ Times(HeldArgs(q), i) \in Nat
                           /\ Times(HeldArgs(p), i) \in Nat
                           /\ RefOf(heap, i) = Times(dict, i) + Times(HeldArgs(q), i) + Times(HeldArgs(p), i)
                           /\ \A j \in DOMAIN q : q[j].arg = i => Times(HeldArgs(q), i) >= 1
  BY HoldersFacts
<1>4. /\ mid \in Heaps
      /\ \A i \in Nat \ {0} : RefOf(mid, i) = RefOf(heap, i) - Times(HeldArgs(p), i)
      /\ \A i \in DOMAIN heap : RefOf(heap, i) > Times(HeldArgs(p), i) => Stays(heap, mid, i)
  <2>1. \A i \in Nat \ {0} : RefOf(heap, i) >= Times(HeldArgs(p), i)
    BY <1>3
  <2> QED
    BY <1>1, <1>2, <2>1, FreedFacts
<1> HIDE DEF mid
<1>5. ASSUME NEW k \in DOMAIN q
      PROVE  q[k].arg \in Held(mid)
  <2>1. q[k].arg \in Held(heap)
    BY <1>2
  <2>2. ASSUME NEW i \in DOMAIN heap, q[k].arg = i PROVE Stays(heap, mid, i)
    <3>1. i \in Nat \ {0}
      BY <1>1, HeapFields
    <3> QED
      BY <1>3, <1>4, <2>2, <3>1
  <2>3. \A id \in Held(heap) : (id \in DOMAIN heap => Stays(heap, mid, id)) => id \in Held(mid)
    BY <1>1, <1>4, HeldStays
  <2> QED
    BY <2>1, <2>2, <2>3
<1>6. /\ Freed(mid, q) \in Heaps
      /\ \A i \in Nat \ {0} : RefOf(Freed(mid, q), i) = RefOf(mid, i) - Times(HeldArgs(q), i)
      /\ \A i \in DOMAIN mid : RefOf(mid, i) > Times(HeldArgs(q), i) => Stays(mid, Freed(mid, q), i)
  <2>1. \A i \in Nat \ {0} : RefOf(mid, i) >= Times(HeldArgs(q), i)
    BY <1>3, <1>4
  <2> QED
    BY <1>1, <1>4, <1>5, <2>1, FreedFacts
<1>7. ASSUME NEW i \in Nat \ {0} PROVE RefOf(heap', i) = Times(dict, i)
  <2>1. RefOf(heap', i) = RefOf(mid, i) - Times(HeldArgs(q), i)
    BY <1>1, <1>6
  <2>2. RefOf(mid, i) = RefOf(heap, i) - Times(HeldArgs(p), i)
    BY <1>4
  <2> QED
    BY <1>3, <2>1, <2>2
<1>8. ASSUME NEW i \in DOMAIN heap, Times(dict, i) >= 1
      PROVE  Stays(heap, heap', i)
  <2>1. i \in Nat \ {0}
    BY <1>1, HeapFields
  <2>2. Stays(heap, mid, i) /\ RefOf(mid, i) > Times(HeldArgs(q), i)
    BY <1>3, <1>4, <1>8, <2>1
  <2>3. i \in DOMAIN mid
    BY <2>2 DEF Stays
  <2>4. Stays(mid, heap', i)
    BY <1>1, <1>6, <2>2, <2>3
  <2> QED
    BY <2>2, <2>4 DEF Stays
<1>9. replica' = Vals(heap, dict)
  <2>1. Follows(heap, replica, p, Vals(heap, dict))
    BY DEF StoreInv, WillFollow
  <2>2. FoldLeft(LAMBDA m, cmd : Replayed(m, Sent(cmd)), replica, p) = Vals(heap, dict)
    BY <1>1, <1>2, <2>1, PlayFacts
  <2> QED
    BY <1>1, <2>2
<1> QED
  BY <1>1, <1>6, <1>7, <1>8, <1>9, EndStep
-----------------------------------------------------------------------------
(* Through the dump and back.                                              *)

LEMMA DumpTextFacts ==
  ASSUME NEW s \in Values
  PROVE  /\ IsText(DumpText(s))
         /\ M!IsNumber(s) => DumpText(s) = IntText(Len(s)) /\ DumpText(s).int /\ DumpText(s).val = Len(s)
         /\ ~M!IsNumber(s) => /\ ~DumpText(s).int
                              /\ s = IF DumpText(s).len = 0 THEN << >> ELSE DumpText(s).val
<1>1. PICK n \in Nat, m \in Nat : n = Len(s) /\ m = MaxText /\ n <= m
  <2>1. Len(s) \in Nat /\ Len(s) <= MaxText /\ MaxText \in Nat
    BY TextsAssumption DEF Values
  <2> QED
    BY <2>1
<1>2. PICK p \in Nat \ {0} : p = Power[4]
  BY PowerFacts
<1>3. PICK x \in Int, y \in Int, u \in Int, v \in Int :
        /\ x = Quo(n, p) /\ n = p * x + u /\ u \in 0 .. p - 1
        /\ y = Quo(m, p) /\ m = p * y + v /\ v \in 0 .. p - 1
  <2>1. PICK x, u : x = Quo(n, p) /\ Parts(n, p, x, u)
    BY <1>1, <1>2, DivFacts
  <2>2. PICK y, v : y = Quo(m, p) /\ Parts(m, p, y, v)
    BY <1>1, <1>2, DivFacts
  <2>3. x \in Int /\ n = p * x + u /\ u \in 0 .. p - 1 /\ y \in Int /\ m = p * y + v /\ v \in 0 .. p - 1
    BY <2>1, <2>2 DEF Parts
  <2>4. u \in Int /\ v \in Int
    BY <2>3
  <2> QED
    BY <2>1, <2>2, <2>3, <2>4
<1>4. x <= y
  <2> SUFFICES ASSUME y < x PROVE FALSE
    BY <1>3
  <2>1. p * y + p <= p * x
    BY <1>2, <1>3, MulMono
  <2>2. PICK a \in Int, b \in Int : /\ a = p * x /\ b = p * y /\ b + p <= a
                                    /\ n = a + u /\ m = b + v /\ u \in 0 .. p - 1 /\ v \in 0 .. p - 1
    <3>1. p * x \in Int /\ p * y \in Int
      OBVIOUS
    <3> QED
      BY <1>3, <2>1, <3>1
  <2> QED
    BY <1>1, <2>2
<1>5. IsLength64(Len(s))
  <2>1. y < p
    BY <1>1, <1>2, <1>3, TextsAssumption DEF Quo
  <2>2. x < p
    BY <1>3, <1>4, <2>1
  <2> QED
    BY <1>1, <1>2, <1>3, <2>2 DEF IsLength64, Quo
<1>6. IsLength64(0)
  <2>1. Size(0)
    BY SmallSize
  <2> QED
    BY <2>1 DEF Size, IsLength64, Quo
<1>7. CASE M!IsNumber(s)
  <2>1. DumpText(s) = IntText(Len(s)) /\ Len(s) \in Int
    BY <1>1, <1>7 DEF DumpText
  <2>2. IntText(Len(s)).int = TRUE /\ IntText(Len(s)).val = Len(s)
    BY <2>1, IntTextSize
  <2> QED
    BY <1>7, <2>1, <2>2 DEF IsText
<1>8. CASE ~M!IsNumber(s) /\ s = << >>
  <2>1. DumpText(s) = EmptyText
    BY <1>8 DEF DumpText
  <2>2. EmptyText.int = FALSE /\ EmptyText.len = 0 /\ EmptyText.packed = 0
    BY DEF EmptyText, Text
  <2> QED
    BY <1>6, <1>8, <2>1, <2>2 DEF IsText
<1>9. CASE ~M!IsNumber(s) /\ s # << >>
  <2>1. DumpText(s) = Text(s, Len(s), 0)
    BY <1>9 DEF DumpText
  <2>2. /\ DumpText(s).int = FALSE /\ DumpText(s).len = Len(s) /\ DumpText(s).packed = 0
        /\ DumpText(s).val = s
    BY <2>1 DEF Text
  <2>3. Len(s) # 0
    BY <1>9 DEF Values
  <2> QED
    BY <1>5, <1>6, <1>9, <2>2, <2>3 DEF IsText
<1> QED
  BY <1>7, <1>8, <1>9

\* What the dump gives back of a value.
Back(s, number) == [str |-> DumpText(s), encoding |-> IF number THEN "int" ELSE "raw"]

LEMMA RereadFacts ==
  ASSUME NEW s \in Values, NEW enc, enc = "int" => M!IsNumber(s)
  PROVE  \E number \in BOOLEAN : (number => M!IsNumber(s)) /\ Reread(s, enc) = Back(s, number)
<1> DEFINE o == [encoding |-> enc, str |-> DumpText(s)]
<1>1. o.str = DumpText(s) /\ o.encoding = enc
  OBVIOUS
<1>2. /\ IsText(DumpText(s)) /\ (M!IsNumber(s) => DumpText(s).int)
      /\ ~M!IsNumber(s) => ~DumpText(s).int
  BY DumpTextFacts
<1>3. IsText(o.str) /\ (o.encoding = "int" => o.str.int)
  BY <1>1, <1>2
<1>4. Reread(s, enc) = LoadString(SaveString(o, FALSE), "enc").val
  BY DEF Reread
<1> HIDE DEF o
<1>5. PICK number \in BOOLEAN : (number => o.str.int) /\ ComesBack(SaveString(o, FALSE), o.str, "enc", number)
  BY <1>3, StringBack
<1>6. LoadString(SaveString(o, FALSE), "enc") = Read(Loaded(o.str, "enc", number), << >>)
  BY <1>5 DEF ComesBack
<1>7. Read(Loaded(o.str, "enc", number), << >>).val = Loaded(o.str, "enc", number)
  BY DEF Read
<1>8. Loaded(o.str, "enc", number) = Back(s, number)
  BY <1>1 DEF Loaded, Back
<1> QED
  BY <1>1, <1>2, <1>4, <1>5, <1>6, <1>7, <1>8

\* An object made by loading a dump: the text of the value, and held by nothing yet.
IsMade(e, s) ==
  /\ e.heap \in Heaps /\ e.id \in DOMAIN e.heap \cup SharedIds
  /\ IsShared(e.id) => sharing
  /\ StringOf(e.heap, e.id) = s
  /\ ~IsShared(e.id) => e.id \in DOMAIN e.heap /\ e.heap[e.id] \in Objects /\ e.heap[e.id].ref = 1

LEMMA EmptyHeap ==
  << >> \in Heaps /\ \A i \in Nat \ {0} : RefOf(<< >>, i) = 0
<1>1. << >> \in [{} -> Objects] /\ {} \subseteq Nat \ {0} /\ IsFiniteSet({}) /\ DOMAIN << >> = {}
  BY FS_EmptySet
<1> QED
  BY <1>1, IsHeap DEF RefOf

LEMMA EncodedIsMade ==
  ASSUME sharing \in BOOLEAN, NEW s, NEW c, Makes(<< >>, c, s), IsShared(c.id) => sharing,
         ~IsShared(c.id) => c.id \in DOMAIN c.heap
  PROVE  IsMade(TryEncode(c.heap, c.id), s)
<1>1. /\ c.heap \in Heaps /\ c.id \in Int /\ c.id \in DOMAIN c.heap \cup SharedIds
      /\ StringOf(c.heap, c.id) = s
      /\ \A i \in Nat \ {0} : RefOf(c.heap, i) = Hit(c.id, i)
  BY EmptyHeap DEF Makes, Hit
<1>2. CASE IsShared(c.id)
  <2>1. TryEncode(c.heap, c.id) = With(c.heap, c.id)
    BY <1>2 DEF TryEncode
  <2> QED
    BY <1>1, <1>2, <2>1 DEF IsMade, With
<1>3. CASE ~IsShared(c.id)
  <2> DEFINE e == TryEncode(c.heap, c.id)
  <2>1. Encodes(c.heap, c.id, e)
    BY <1>1, <1>3, TryEncodeFacts
  <2> HIDE DEF e
  <2>2. /\ e.heap \in Heaps /\ e.id \in Int /\ e.id \in DOMAIN e.heap \cup SharedIds
        /\ IsShared(e.id) => sharing
        /\ StringOf(e.heap, e.id) = s /\ Passed(c.heap, e.heap, c.id, e.id)
    BY <1>1, <2>1 DEF Encodes
  <2>3. ASSUME ~IsShared(e.id)
        PROVE  e.id \in DOMAIN e.heap /\ e.heap[e.id] \in Objects /\ e.heap[e.id].ref = 1
    <3>1. e.id \in DOMAIN e.heap /\ e.heap[e.id] \in Objects /\ e.id \in Nat \ {0}
      BY <2>2, <2>3, SharedFacts, HeapFields
    <3>2. RefOf(e.heap, e.id) = Hit(c.id, e.id) - Hit(c.id, e.id) + Hit(e.id, e.id)
      BY <1>1, <2>2, <3>1 DEF Passed
    <3>3. Hit(c.id, e.id) \in Int /\ Hit(e.id, e.id) = 1
      BY DEF Hit
    <3>4. RefOf(e.heap, e.id) = 1
      BY <3>2, <3>3
    <3> QED
      BY <3>1, <3>4 DEF RefOf
  <2> QED
    BY <2>2, <2>3 DEF IsMade, e
<1> QED
  BY <1>2, <1>3

LEMMA ReloadedFacts ==
  ASSUME sharing \in BOOLEAN, NEW s \in Values, NEW number \in BOOLEAN, number => M!IsNumber(s)
  PROVE  IsMade(Reloaded(Back(s, number)), s)
<1> DEFINE b == Back(s, number)
           text == IF b.str.int THEN M!NumberText(b.str.val)
                   ELSE IF b.str.len = 0 THEN << >> ELSE b.str.val
           new == IF b.encoding = "int" THEN CreateForValue(<< >>, b.str.val)
                  ELSE CreateString(<< >>, text)
<1>1. Reloaded(b) = TryEncode(new.heap, new.id)
  BY DEF Reloaded
<1>2. b.str = DumpText(s) /\ b.encoding = IF number THEN "int" ELSE "raw"
  BY DEF Back
<1>3. text = s /\ (number => b.str.val = Len(s))
  <2>1. CASE M!IsNumber(s)
    <3>1. b.str.int /\ b.str.val = Len(s)
      BY <1>2, <2>1, DumpTextFacts
    <3>2. M!NumberText(Len(s)) = s
      BY <2>1, NumberFacts
    <3> QED
      BY <3>1, <3>2
  <2>2. CASE ~M!IsNumber(s)
    <3>1. ~b.str.int /\ s = IF b.str.len = 0 THEN << >> ELSE b.str.val
      BY <1>2, <2>2, DumpTextFacts
    <3> QED
      BY <2>2, <3>1
  <2> QED
    BY <2>1, <2>2
<1> HIDE DEF b, text
<1>4. /\ Makes(<< >>, new, s) /\ (IsShared(new.id) => sharing)
      /\ ~IsShared(new.id) => new.id \in DOMAIN new.heap
  <2>1. CASE number
    <3> DEFINE n == Len(s)
    <3>1. n \in 1 .. MaxText /\ M!NumberText(n) = s
      BY <2>1, NumberFacts
    <3>2. new = CreateInt(<< >>, n, sharing)
      BY <1>2, <1>3, <2>1 DEF CreateForValue
    <3> HIDE DEF n, new
    <3> QED
      BY <3>1, <3>2, EmptyHeap, CreateIntFacts
  <2>2. CASE ~number
    <3>1. new = CreateString(<< >>, s)
      BY <1>2, <1>3, <2>2
    <3> HIDE DEF new
    <3> QED
      BY <3>1, EmptyHeap, CreateStringFacts
  <2> QED
    BY <2>1, <2>2
<1> HIDE DEF new
<1> QED
  BY <1>1, <1>4, EncodedIsMade DEF b

LEMMA MadeFacts ==
  ASSUME heap \in Heaps, dict \in [Keys -> Held(heap)], sharing \in BOOLEAN,
         NEW k \in Keys, dict[k] # NULL
  PROVE  IsMade(Made(k), StringOf(heap, dict[k]))
<1> DEFINE id == dict[k]
           s == StringOf(heap, id)
           enc == IF IsShared(id) THEN "int" ELSE heap[id].enc
<1>1. id \in DOMAIN heap \/ id \in SharedIds
  BY DEF Held
<1>2. s \in Values /\ (enc = "int" => M!IsNumber(s))
  <2>1. CASE id \in SharedIds
    <3>1. IsShared(id) /\ -id \in 1 .. MaxText
      BY <2>1, SharedFacts
    <3>2. s = M!NumberText(-id)
      BY <3>1 DEF StringOf
    <3>3. \A n \in 1 .. MaxText : n \in 0 .. MaxText
      OBVIOUS
    <3> QED
      BY <3>1, <3>2, <3>3, NumberFacts
  <2>2. CASE id \in DOMAIN heap
    <3>1. ~IsShared(id) /\ heap[id] \in Objects
      BY <2>2, HeapFields DEF IsShared
    <3>2. s \in Values
      BY <2>2, TextsAreValues
    <3>3. heap[id].enc = "int" => M!IsNumber(s)
      BY <3>1, NumberFacts DEF Objects, StringOf
    <3> QED
      BY <3>1, <3>2, <3>3
  <2> QED
    BY <1>1, <2>1, <2>2
<1>3. Made(k) = Reloaded(Reread(s, enc))
  BY DEF Made
<1> HIDE DEF s, enc
<1>4. PICK number \in BOOLEAN : (number => M!IsNumber(s)) /\ Reread(s, enc) = Back(s, number)
  BY <1>2, RereadFacts
<1>5. IsMade(Reloaded(Back(s, number)), s)
  BY <1>2, <1>4, ReloadedFacts
<1> QED
  BY <1>3, <1>4, <1>5 DEF s

\* The keys get their objects back, each its own.
LEMMA RestartStep ==
  ASSUME StoreInv, Restart
  PROVE  StoreInv' /\ Vals(heap, dict)' = Vals(heap, dict)
<1> DEFINE W == WithObject
<1>1. PICK place \in Places :
        /\ heap' = [i \in {place[k] : k \in W} |->
                      Made(CHOOSE k \in W : place[k] = i).heap[Made(CHOOSE k \in W : place[k] = i).id]]
        /\ dict' = [k \in Keys |-> IF dict[k] = NULL THEN NULL
                                   ELSE IF k \in W THEN place[k] ELSE Made(k).id]
  BY DEF Restart
<1>2. /\ heap \in Heaps /\ dict \in [Keys -> Held(heap)] /\ sharing \in BOOLEAN
      /\ client = Idle /\ sharing' = sharing /\ client' = client /\ replica' = replica
      /\ stored' = [k \in Keys |-> dict[k] # NULL /\ sharing]
  BY DEF StoreInv, StoreTypes, Restart
<1>3. W \subseteq Keys /\ \A k \in W : dict[k] # NULL /\ ~IsShared(Made(k).id)
  BY DEF WithObject
<1>3a. \A k \in Keys : dict[k] # NULL /\ k \notin W => IsShared(Made(k).id)
  BY DEF WithObject
<1>4. \A k \in Keys : dict[k] # NULL => IsMade(Made(k), StringOf(heap, dict[k]))
  BY <1>2, MadeFacts
<1>5. /\ \A k \in Keys : place[k] \in Nat \ {0}
      /\ \A k, l \in Keys : place[k] = place[l] => k = l
  BY <1>1 DEF Places
<1> HIDE DEF W
<1> DEFINE D == {place[k] : k \in W}
<1>6. DOMAIN heap' = D /\ \A k \in W : heap'[place[k]] = Made(k).heap[Made(k).id]
  <2>1. DOMAIN heap' = D
    BY <1>1
  <2>2. ASSUME NEW k \in W PROVE heap'[place[k]] = Made(k).heap[Made(k).id]
    <3>1. (CHOOSE l \in W : place[l] = place[k]) = k
      BY <1>3, <1>5
    <3>2. place[k] \in D
      OBVIOUS
    <3> QED
      BY <1>1, <3>1, <3>2
  <2> QED
    BY <2>1, <2>2
<1>7. ASSUME NEW k \in W
      PROVE  /\ heap'[place[k]] \in Objects /\ heap'[place[k]].ref = 1
             /\ StringOf(heap', place[k]) = StringOf(heap, dict[k])
  <2>1. IsMade(Made(k), StringOf(heap, dict[k])) /\ ~IsShared(Made(k).id)
    BY <1>3, <1>4
  <2>2. heap'[place[k]] = Made(k).heap[Made(k).id]
    BY <1>6
  <2>3. ~IsShared(place[k])
    BY <1>3, <1>5 DEF IsShared
  <2>4. StringOf(heap', place[k]) = StringOf(Made(k).heap, Made(k).id)
    BY <2>1, <2>2, <2>3 DEF StringOf
  <2> QED
    BY <2>1, <2>2, <2>4 DEF IsMade
<1>8. heap' \in Heaps
  <2>1. IsFiniteSet(D)
    <3>1. Cardinality(Keys) \in Nat
      BY StringStoreAssumption, FS_CardinalityType
    <3>2. IsFiniteSet(1 .. Cardinality(Keys))
      BY <3>1, FS_Interval
    <3>3. D \subseteq 1 .. Cardinality(Keys)
      BY <1>1, <1>3 DEF Places
    <3> QED
      BY <3>2, <3>3, FS_Subset
  <2>2. D \subseteq Nat \ {0}
    BY <1>3, <1>5
  <2>3. heap' \in [D -> Objects]
    <3>1. \A i \in D : heap'[i] \in Objects
      BY <1>7
    <3>2. heap' = [i \in D |-> heap'[i]]
      BY <1>1
    <3> HIDE DEF D
    <3> QED
      BY <3>1, <3>2
  <2> HIDE DEF D
  <2> QED
    BY <2>1, <2>2, <2>3, IsHeap
<1>9. /\ \A k \in Keys : dict[k] = NULL => dict'[k] = NULL
      /\ \A k \in W : dict'[k] = place[k]
      /\ \A k \in Keys : dict[k] # NULL /\ k \notin W => dict'[k] = Made(k).id
      /\ DOMAIN dict' = Keys
  BY <1>1, <1>3
<1>10. ASSUME NEW k \in Keys, dict[k] # NULL, k \notin W
       PROVE  /\ dict'[k] \in SharedIds /\ IsShared(dict'[k]) /\ sharing
              /\ StringOf(heap', dict'[k]) = StringOf(heap, dict[k])
  <2>1. dict'[k] = Made(k).id /\ IsShared(Made(k).id) /\ IsMade(Made(k), StringOf(heap, dict[k]))
    BY <1>3a, <1>4, <1>9, <1>10
  <2>2. Made(k).id \in SharedIds
    <3>1. Made(k).heap \in Heaps /\ Made(k).id \in DOMAIN Made(k).heap \cup SharedIds
      BY <2>1 DEF IsMade
    <3>2. DOMAIN Made(k).heap \subseteq Nat \ {0}
      BY <3>1, HeapFields
    <3> QED
      BY <2>1, <3>1, <3>2 DEF IsShared
  <2>3. StringOf(heap', Made(k).id) = StringOf(Made(k).heap, Made(k).id)
    BY <2>1 DEF StringOf
  <2> QED
    BY <2>1, <2>2, <2>3 DEF IsMade
<1>11. dict' \in [Keys -> Held(heap')]
  <2>1. ASSUME NEW k \in Keys PROVE dict'[k] \in Held(heap')
    <3>1. CASE dict[k] = NULL
      BY <1>9, <3>1 DEF Held
    <3>2. CASE dict[k] # NULL /\ k \in W
      BY <1>6, <1>9, <3>2 DEF Held
    <3>3. CASE dict[k] # NULL /\ k \notin W
      BY <1>10, <3>3 DEF Held
    <3> QED
      BY <3>1, <3>2, <3>3
  <2>2. dict' = [k \in Keys |-> dict'[k]]
    BY <1>1
  <2> QED
    BY <2>1, <2>2
<1>12. Vals(heap', dict') = Vals(heap, dict)
  <2>1. ASSUME NEW k \in Keys PROVE Value(heap', dict', k) = Value(heap, dict, k)
    <3>1. CASE dict[k] = NULL
      BY <1>9, <3>1 DEF Value
    <3>2. CASE dict[k] # NULL /\ k \in W
      <4>1. dict'[k] = place[k] /\ place[k] # NULL
        BY <1>3, <1>5, <1>9, <3>2, NullAssumption
      <4> QED
        BY <1>7, <3>2, <4>1 DEF Value
    <3>3. CASE dict[k] # NULL /\ k \notin W
      <4>1. dict'[k] \in Int /\ dict'[k] # NULL
        BY <1>10, <3>3, SharedFacts, NullAssumption
      <4> QED
        BY <1>10, <3>3, <4>1 DEF Value
    <3> QED
      BY <3>1, <3>2, <3>3
  <2> QED
    BY <2>1 DEF Vals
<1>13. /\ client' \in Clients /\ client'.next = 1 /\ client'.queue = << >> /\ client'.propagate = << >>
       /\ client'.phase = "idle" /\ client.phase = "idle"
  BY <1>2 DEF Idle, Clients
<1>14. replica = Vals(heap, dict)
  BY <1>13, InvImplies DEF ReplicaFollows, Vals
<1>15. StoreTypes'
  <2>1. Vals(heap, dict) \in Contents
    BY <1>2, ValsFacts
  <2>2. stored' \in [Keys -> BOOLEAN]
    BY <1>2
  <2> QED
    BY <1>2, <1>8, <1>11, <1>13, <1>14, <2>1, <2>2 DEF StoreTypes
<1>16. CommandsKept'
  BY <1>13 DEF CommandsKept
<1>17. AllCounted'
  <2> SUFFICES ASSUME NEW i \in Nat \ {0}
               PROVE  RefOf(heap', i) = Times(dict', i) + Times(HeldArgs(client'.queue), i)
                                          + Times(HeldArgs(client'.propagate), i)
    BY DEF AllCounted, Holders
  <2>1. Times(HeldArgs(<< >>), i) = 0
    BY NoTimes
  <2>2. \A k \in Keys : dict'[k] = i => k \in W /\ i = place[k]
    <3> TAKE k \in Keys
    <3>1. CASE dict[k] = NULL
      BY <1>9, <3>1, NullAssumption
    <3>2. CASE dict[k] # NULL /\ k \in W
      BY <1>9, <3>2
    <3>3. CASE dict[k] # NULL /\ k \notin W
      BY <1>10, <3>3 DEF IsShared
    <3> QED
      BY <3>1, <3>2, <3>3
  <2>3. CASE i \notin D
    <3>1. \A k \in DOMAIN dict' : dict'[k] # i
      BY <1>9, <2>2, <2>3
    <3>2. Times(dict', i) = 0
      BY <1>9, <3>1, StringStoreAssumption, TimesFacts
    <3>3. RefOf(heap', i) = 0
      BY <1>6, <2>3 DEF RefOf
    <3> QED
      BY <1>13, <2>1, <3>2, <3>3
  <2>4. CASE i \in D
    <3>1. PICK k \in W : i = place[k]
      BY <2>4
    <3>2. {x \in DOMAIN dict' : dict'[x] = i} = {k}
      BY <1>3, <1>5, <1>9, <2>2, <3>1
    <3>3. Times(dict', i) = 1
      BY <3>2, FS_Singleton DEF Times
    <3>4. RefOf(heap', i) = 1
      BY <1>6, <1>7, <2>4, <3>1 DEF RefOf
    <3> QED
      BY <1>13, <2>1, <3>3, <3>4
  <2> QED
    BY <2>3, <2>4
<1>18. PrivateWhenNeeded'
  <2> SUFFICES ASSUME NEW k \in Keys, dict'[k] # NULL, IsShared(dict'[k]) PROVE stored'[k]
    BY DEF PrivateWhenNeeded
  <2>1. dict[k] # NULL
    BY <1>9
  <2>2. k \notin W
    BY <1>3, <1>5, <1>9 DEF IsShared
  <2>3. sharing
    BY <1>10, <2>1, <2>2
  <2> QED
    BY <1>2, <2>1, <2>3
<1>19. WillFollow'
  <2>1. replica \in Contents
    BY <1>2, <1>14, ValsFacts
  <2>2. Follows(heap', replica, << >>, replica)
    BY <2>1, NothingToFollow
  <2> QED
    BY <1>2, <1>12, <1>13, <1>14, <2>2 DEF WillFollow
<1> QED
  BY <1>12, <1>15, <1>16, <1>17, <1>18, <1>19 DEF StoreInv
-----------------------------------------------------------------------------
(* The theorems.                                                           *)

LEMMA StoreStep ==
  ASSUME StoreInv, [Next]_vars
  PROVE  StoreInv' /\ MapStep
<1>1. CASE UNCHANGED vars
  <2>1. UNCHANGED <<heap, dict, sharing, client, replica, stored>>
    BY <1>1 DEF vars
  <2>2. StoreInv'
    BY <2>1 DEF StoreInv, StoreTypes, CommandsKept, AllCounted, Holders, PrivateWhenNeeded, WillFollow
  <2> QED
    BY <2>1, <2>2 DEF MapStep
<1>2. ASSUME NEW c \in M!Commands, Queue(c) PROVE StoreInv' /\ MapStep
  BY <1>2, QueueStep DEF MapStep
<1>3. CASE Execute
  BY <1>3, ExecuteStep
<1>4. CASE Finish
  BY <1>4, FinishStep DEF MapStep
<1>5. CASE Discard
  BY <1>5, DiscardStep DEF MapStep
<1>6. CASE SetPolicy
  BY <1>6, SetPolicyStep DEF MapStep
<1>7. CASE Restart
  BY <1>7, RestartStep DEF MapStep
<1> QED
  BY <1>1, <1>2, <1>3, <1>4, <1>5, <1>6, <1>7 DEF Next

LEMMA StoreInvariant == Spec => []StoreInv
<1>1. Init => StoreInv
  BY InitInv
<1>2. StoreInv /\ [Next]_vars => StoreInv'
  BY StoreStep
<1> QED
  BY <1>1, <1>2, PTL DEF Spec

(***************************************************************************)
(* Whatever is queued, run, propagated, shared, encoded, released and      *)
(* reloaded, every object has its type and is counted as often as the keys,*)
(* the queued arguments and the arguments to propagate hold it             *)
(* (object.c:43-443).                                                      *)
(***************************************************************************)
THEOREM HeapSoundCorrect == Spec => []HeapSound
<1>1. StoreInv => HeapSound
  BY InvImplies
<1> QED
  BY <1>1, StoreInvariant, PTL

(***************************************************************************)
(* No key whose value was given under a policy with access data of its own *)
(* holds a shared integer (object.c:204-219, 694-702).                     *)
(***************************************************************************)
THEOREM PrivateWhenNeededCorrect == Spec => []PrivateWhenNeeded
<1>1. StoreInv => PrivateWhenNeeded
  BY InvImplies
<1> QED
  BY <1>1, StoreInvariant, PTL

(***************************************************************************)
(* Between transactions the replica, sent the arguments as they are when   *)
(* the transaction ends, has the values of the master (db.c:455-463).      *)
(***************************************************************************)
THEOREM ReplicaFollowsCorrect == Spec => []ReplicaFollows
<1>1. StoreInv => ReplicaFollows
  BY InvImplies
<1> QED
  BY <1>1, StoreInvariant, PTL

(***************************************************************************)
(* The objects implement the map of StringMap: seen through the ids and    *)
(* the encodings, every step changes the values as one command does, or    *)
(* not at all (object.c:43-707, db.c:455-463).                             *)
(***************************************************************************)
THEOREM StoreIsMap == Spec => MapSpec
<1>1. Init => V!Init
  <2> SUFFICES ASSUME Init PROVE V!Init
    OBVIOUS
  <2>1. \A k \in Keys : Value(heap, dict, k) = NULL
    BY DEF Init, Value
  <2> QED
    BY <2>1 DEF V!Init
<1>2. StoreInv /\ [Next]_vars => [V!Next]_([k \in Keys |-> Value(heap, dict, k)])
  <2> SUFFICES ASSUME StoreInv, [Next]_vars
               PROVE  [V!Next]_([k \in Keys |-> Value(heap, dict, k)])
    OBVIOUS
  <2>1. MapStep
    BY StoreStep
  <2>2. CASE Vals(heap, dict)' = Vals(heap, dict)
    BY <2>2 DEF Vals
  <2>3. ASSUME NEW c \in M!Commands, Vals(heap, dict)' = M!Applied(Vals(heap, dict), c)
        PROVE  V!Next
    BY <2>3 DEF Vals, V!Next, V!Commands, M!Commands, V!Applied, M!Applied, V!MayAppend, M!MayAppend,
                V!AppendedText, M!AppendedText, V!MayIncr, M!MayIncr, V!IncrementedText,
                M!IncrementedText, V!NumberText, M!NumberText, V!IsNumber, M!IsNumber
  <2> QED
    BY <2>1, <2>2, <2>3 DEF MapStep
<1> QED
  BY <1>1, <1>2, StoreInvariant, PTL DEF Spec, MapSpec, V!Spec
=============================================================================
