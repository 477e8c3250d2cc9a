---------------------------- MODULE RankingProofs ----------------------------
(***************************************************************************)
(* How keys are ranked for eviction: the pool that keeps the best of them, *)
(* the score of the histogram policy, and the counter of LFU.              *)
(*                                                                         *)
(* The eviction pool keeps its shape under every sequence of insertions,   *)
(* picks and policy changes, for every pool size; on a server whose policy *)
(* is not changed it is also ordered and never loses a candidate that is   *)
(* better than one it keeps.                                               *)
(*                                                                         *)
(* The statistics, the windows and the ranking of the histogram policy are *)
(* proved for any number of samples, any size of the history and any ages. *)
(* The ranking is about folds over histories of any length.  Induction is  *)
(* taken from the well-foundedness of the naturals (LeastOf), and a fold   *)
(* is a recursive function that is shown to exist (FoldExists).            *)
(*                                                                         *)
(* The counter of LFU decays no faster than its time, for any width of the *)
(* time and the counter and any decay time.                                *)
(***************************************************************************)
EXTENDS AccessHistory, EvictionPool, ServerFunctions, HistogramScore, WellFoundedInduction, TLAPS

-----------------------------------------------------------------------------
(* The score of the histogram policy.                                      *)

USE ParametersAssumption

StatsType == [min : Nat, max : Nat, sum : Nat, squares : Nat, count : Nat]

\* The square of an integer, and the product of a positive one.
LEMMA SquareIsNat == ASSUME NEW x \in Int PROVE x * x >= 0
  BY SMT

LEMMA CancelPositive ==
  ASSUME NEW c \in Nat, c > 0, NEW x \in Int, NEW y \in Int, c * x <= c * y
  PROVE  x <= y
<1>1. SUFFICES ASSUME x >= y + 1 PROVE FALSE
  OBVIOUS
<1>2. c * x >= c * (y + 1)
  BY <1>1, SMT
<1>3. c * (y + 1) = c * y + c
  BY SMT
<1> QED
  BY <1>2, <1>3

LEMMA Monotone ==
  ASSUME NEW c \in Nat, NEW x \in Int, NEW y \in Int, x <= y
  PROVE  c * x <= c * y
  BY SMT

\* One more age keeps the variance of a population from being negative.
LEMMA VarianceStays ==
  ASSUME NEW c \in Nat, c > 0, NEW S \in Nat, NEW Q \in Nat, NEW a \in Nat,
         c * Q - S * S >= 0
  PROVE  (c + 1) * (Q + a * a) - (S + a) * (S + a) >= 0
<1> DEFINE V == (c + 1) * (Q + a * a) - (S + a) * (S + a)
           d == S - c * a
<1>1. V \in Int /\ d \in Int
  OBVIOUS
<1>2. c * V = c * (c * Q - S * S) + (c * Q - S * S) + d * d
  BY SMT
<1>3. c * (c * Q - S * S) >= 0
  BY Monotone
<1>4. d * d >= 0
  BY <1>1, SquareIsNat
<1>5. c * 0 <= c * V
  <2> HIDE DEF V, d
  <2> QED
    BY <1>1, <1>2, <1>3, <1>4
<1>6. 0 <= V
  <2> HIDE DEF V, d
  <2> QED
    BY <1>1, <1>5, CancelPositive
<1> QED
  BY <1>6

\* What one turn of calculateStatistics() does to a population.
LEMMA ObservedPopulation ==
  ASSUME NEW s \in StatsType, NEW a \in Ages, Population(s),
         s.count = 0 => s = NoStats
  PROVE  LET t == Observed(s, a)
         IN  /\ t \in StatsType /\ t.count > 0 /\ Population(t)
             /\ a <= t.max /\ s.max <= t.max
<1> DEFINE t == Observed(s, a)
<1>0. a \in Nat /\ a <= MaxAge /\ a * a \in Nat
  BY SquareIsNat DEF Ages
<1>1. /\ s.min \in Nat /\ s.max \in Nat /\ s.sum \in Nat
      /\ s.squares \in Nat /\ s.count \in Nat
  BY DEF StatsType
<1>2. /\ t.count = s.count + 1 /\ t.sum = s.sum + a
      /\ t.squares = s.squares + a * a
      /\ t.min = IF a < s.min THEN a ELSE s.min
      /\ t.max = IF a > s.max THEN a ELSE s.max
  BY DEF Observed
<1>3. t \in StatsType
  BY <1>0, <1>1 DEF Observed, StatsType
<1>4. t.count > 0 /\ a <= t.max /\ s.max <= t.max /\ t.min <= a /\ t.min <= s.min
  BY <1>0, <1>1, <1>2
<1>5. Population(t)
  <2>1. CASE s.count = 0
    <3>1. s.sum = 0 /\ s.squares = 0 /\ s.max = 0 /\ s.min = MaxAge + 1
      BY <2>1 DEF NoStats
    <3>2. t.count = 1 /\ t.sum = a /\ t.squares = a * a /\ t.min = a /\ t.max = a
      BY <1>0, <2>1, <1>2, <3>1
    <3> QED
      BY <1>0, <3>2 DEF Population, Variance
  <2>2. CASE s.count > 0
    <3>1. /\ s.min <= s.max /\ s.count * s.min <= s.sum
          /\ s.sum <= s.count * s.max /\ s.count * s.squares - s.sum * s.sum >= 0
      BY <2>2 DEF Population, Variance
    <3>2. t.min \in Nat /\ t.max \in Nat
      BY <1>3 DEF StatsType
    <3>3. s.count * t.min <= s.count * s.min /\ s.count * s.max <= s.count * t.max
      BY <1>1, <1>4, <3>2, Monotone
    <3>4. /\ (s.count + 1) * t.min = s.count * t.min + t.min
          /\ (s.count + 1) * t.max = s.count * t.max + t.max
      BY <1>1, <3>2, SMT
    <3>5. /\ t.count * t.min <= t.sum /\ t.sum <= t.count * t.max
          /\ t.min <= t.max
      <4>1. /\ s.count * t.min \in Int /\ s.count * s.min \in Int
            /\ s.count * s.max \in Int /\ s.count * t.max \in Int
        BY <1>1, <3>2
      <4> QED
        BY <1>0, <1>1, <1>2, <1>4, <3>1, <3>2, <3>3, <3>4, <4>1
    <3>6. Variance(t) >= 0
      BY <1>0, <1>1, <1>2, <2>2, <3>1, VarianceStays DEF Variance
    <3> QED
      BY <3>5, <3>6 DEF Population
  <2> QED
    BY <1>1, <2>1, <2>2
<1> QED
  BY <1>3, <1>4, <1>5

\* The four boundaries of a population ascend.
LEMMA BoundariesAscend ==
  ASSUME NEW s \in StatsType, s.count > 0, Population(s),
         NEW age \in Ages, NEW w \in 1 .. 3, AtMost(s, w, age)
  PROVE  AtMost(s, w + 1, age)
<1>0. /\ s.min \in Nat /\ s.max \in Nat /\ s.sum \in Nat
      /\ s.squares \in Nat /\ s.count \in Nat /\ age \in Nat
  BY DEF StatsType, Ages
<1>1. /\ s.min <= s.max /\ s.count * s.min <= s.sum /\ s.sum <= s.count * s.max
  BY DEF Population
<1>2. s.count * age <= s.sum => age <= s.max
  <2>1. SUFFICES ASSUME s.count * age <= s.sum PROVE age <= s.max
    OBVIOUS
  <2>2. s.count * age \in Int /\ s.count * s.max \in Int
    BY <1>0
  <2>3. s.count * age <= s.count * s.max
    BY <1>0, <1>1, <2>1, <2>2
  <2> QED
    BY <1>0, <2>3, CancelPositive
<1>3. age <= s.min => s.count * age <= s.sum
  <2>1. SUFFICES ASSUME age <= s.min PROVE s.count * age <= s.sum
    OBVIOUS
  <2>2. s.count * age <= s.count * s.min
    BY <1>0, <2>1, Monotone
  <2>3. s.count * age \in Int /\ s.count * s.min \in Int
    BY <1>0
  <2> QED
    BY <1>0, <1>1, <2>2, <2>3
<1>4. CASE w = 1
  <2>1. age <= s.min \/ s.count * age <= s.sum
    BY <1>4 DEF AtMost, BelowSpread
  <2>2. AtMost(s, 2, age)
    BY <1>2, <2>1 DEF AtMost
  <2> QED
    BY <1>4, <2>2
<1>5. CASE w = 2
  <2>1. age <= s.min \/ (age <= s.max /\ s.count * age <= s.sum)
    BY <1>5 DEF AtMost
  <2>2. age <= s.max /\ s.count * age <= s.sum
    BY <1>0, <1>1, <1>3, <2>1
  <2>3. AtMost(s, 3, age)
    BY <2>2 DEF AtMost, WithinSpread
  <2> QED
    BY <1>5, <2>3
<1>6. CASE w = 3
  <2>1. AtMost(s, 4, age)
    BY <1>6 DEF AtMost
  <2> QED
    BY <1>6, <2>1
<1> QED
  BY <1>4, <1>5, <1>6

-----------------------------------------------------------------------------
(* The loops.  An access is behind the counters when calculateStatistics()  *)
(* has seen it.                                                            *)
Behind(n, m) == n < j \/ (n = j /\ m < i)

AgesCovered ==
  \A n \in Samples : \A m \in 1 .. Len(ages[n]) :
    pc # "observe" \/ Behind(n, m) => stats.count > 0 /\ ages[n][m] <= stats.max

ScoreInv == /\ ScoreTypeOK
            /\ stats.count = 0 => stats = NoStats
            /\ PopulationStats
            /\ EveryAccessCounted
            /\ AgesCovered

LEMMA HistoryAges ==
  ASSUME NEW h \in Histories
  PROVE  Len(h) \in 0 .. HistorySize /\ \A m \in 1 .. Len(h) : h[m] \in Ages
<1>1. PICK n \in 0 .. HistorySize : h \in [1 .. n -> Ages]
  BY DEF Histories
<1>2. h \in Seq(Ages) /\ Len(h) = n
  BY <1>1
<1> QED
  BY <1>1, <1>2

LEMMA InitScoreInv == ScoreInit => ScoreInv
<1> SUFFICES ASSUME ScoreInit PROVE ScoreInv
  OBVIOUS
<1>1. stats \in StatsType /\ stats.count = 0
  BY DEF ScoreInit, NoStats, StatsType
<1>2. windows \in [Samples -> Seq(1 .. 5)] /\ \A n \in Samples : Len(windows[n]) = 0
  BY DEF ScoreInit
<1>3. EveryAccessCounted
  BY <1>2 DEF EveryAccessCounted
<1>4. AgesCovered
  <2> SUFFICES ASSUME NEW n \in Samples, NEW m \in 1 .. Len(ages[n])
               PROVE  pc = "observe" /\ ~Behind(n, m)
    BY DEF AgesCovered
  <2> QED
    BY DEF ScoreInit, Behind, Samples
<1>5. ScoreTypeOK
  BY <1>1, <1>2 DEF ScoreInit, ScoreTypeOK, StatsType
<1> QED
  BY <1>1, <1>3, <1>4, <1>5 DEF ScoreInit, ScoreInv, PopulationStats, Population

LEMMA ObserveScoreInv == ScoreInv /\ Observe => ScoreInv'
<1> SUFFICES ASSUME ScoreInv, Observe PROVE ScoreInv'
  OBVIOUS
<1>1. /\ ages[j] \in Histories /\ Len(ages[j]) \in 0 .. HistorySize
      /\ i \in 1 .. Len(ages[j]) /\ ages[j][i] \in Ages
  BY HistoryAges DEF ScoreInv, ScoreTypeOK, Observe
<1>2. stats \in StatsType
  BY DEF ScoreInv, ScoreTypeOK, StatsType
<1>3. /\ stats' \in StatsType /\ stats'.count > 0 /\ Population(stats')
      /\ ages[j][i] <= stats'.max /\ stats.max <= stats'.max
  BY <1>1, <1>2, ObservedPopulation DEF ScoreInv, PopulationStats, Observe
<1>4. ScoreTypeOK'
  BY <1>1, <1>3 DEF ScoreInv, ScoreTypeOK, Observe, StatsType
<1>5. PopulationStats' /\ (stats.count = 0 => stats = NoStats)'
  BY <1>3 DEF PopulationStats
<1>6. EveryAccessCounted'
  BY DEF ScoreInv, EveryAccessCounted, Observe
<1>7. AgesCovered'
  <2> SUFFICES ASSUME NEW n \in Samples, NEW m \in 1 .. Len(ages[n]), Behind(n, m)'
               PROVE  ages[n][m] <= stats'.max
    BY <1>3 DEF AgesCovered, Observe
  <2>1. CASE n = j /\ m = i
    BY <1>3, <2>1
  <2>2. CASE ~(n = j /\ m = i)
    <3>1. Behind(n, m)
      BY <1>1, <2>2 DEF Behind, Observe, Samples
    <3>2. ages[n][m] <= stats.max
      BY <3>1 DEF ScoreInv, AgesCovered
    <3>3. ages[n][m] \in Ages
      BY HistoryAges DEF ScoreInv, ScoreTypeOK
    <3> QED
      BY <1>2, <1>3, <3>2, <3>3 DEF StatsType, Ages
  <2> QED
    BY <2>1, <2>2
<1> QED
  BY <1>4, <1>5, <1>6, <1>7 DEF ScoreInv

\* An age the statistics have seen falls in one of the four windows.
LEMMA WindowOfSeen ==
  ASSUME NEW s, NEW age, age <= s.max PROVE Window(s, age) \in 1 .. 4
<1>1. AtMost(s, 4, age)
  BY DEF AtMost
<1> QED
  BY <1>1 DEF Window

LEMMA ClassifyScoreInv == ScoreInv /\ Classify => ScoreInv'
<1> SUFFICES ASSUME ScoreInv, Classify PROVE ScoreInv'
  OBVIOUS
<1> DEFINE w == Window(stats, ages[j][i])
<1>1. /\ ages[j] \in Histories /\ Len(ages[j]) \in 0 .. HistorySize
      /\ i \in 1 .. Len(ages[j]) /\ j \in Samples
  BY HistoryAges DEF ScoreInv, ScoreTypeOK, Classify
<1>2. w \in 1 .. 4
  <2>1. ages[j][i] <= stats.max
    BY <1>1 DEF ScoreInv, AgesCovered, Classify
  <2> QED
    BY <2>1, WindowOfSeen
<1> HIDE DEF w
<1>3. /\ windows \in [Samples -> Seq(1 .. 5)]
      /\ windows' = [windows EXCEPT ![j] = Append(windows[j], w)]
  BY DEF ScoreInv, ScoreTypeOK, Classify, w
<1>4. windows' \in [Samples -> Seq(1 .. 5)]
  <2>1. Append(windows[j], w) \in Seq(1 .. 5)
    BY <1>1, <1>2, <1>3
  <2> QED
    BY <1>3, <2>1
<1>5. EveryAccessCounted'
  <2> SUFFICES ASSUME NEW n \in Samples, NEW m \in 1 .. Len(windows'[n])
               PROVE  windows'[n][m] \in 1 .. 4
    BY DEF EveryAccessCounted
  <2>1. CASE n = j
    <3>1. windows'[n] = Append(windows[j], w) /\ windows[j] \in Seq(1 .. 5)
      BY <1>1, <1>3, <2>1
    <3>2. CASE m = Len(windows[j]) + 1
      BY <1>2, <3>1, <3>2
    <3>3. CASE m # Len(windows[j]) + 1
      <4>1. m \in 1 .. Len(windows[j]) /\ windows'[n][m] = windows[j][m]
        BY <3>1, <3>3
      <4> QED
        BY <1>1, <4>1 DEF ScoreInv, EveryAccessCounted
    <3> QED
      BY <3>2, <3>3
  <2>2. CASE n # j
    <3>1. windows'[n] = windows[n]
      BY <1>3, <2>2
    <3> QED
      BY <3>1 DEF ScoreInv, EveryAccessCounted
  <2> QED
    BY <2>1, <2>2
<1>6. ScoreTypeOK'
  BY <1>1, <1>4 DEF ScoreInv, ScoreTypeOK, Classify
<1>7. AgesCovered' /\ PopulationStats' /\ (stats.count = 0 => stats = NoStats)'
  BY DEF ScoreInv, AgesCovered, PopulationStats, Classify
<1> QED
  BY <1>5, <1>6, <1>7 DEF ScoreInv

LEMMA CountersScoreInv == ScoreInv /\ (NextSample \/ NextLoop) => ScoreInv'
<1> SUFFICES ASSUME ScoreInv, NextSample \/ NextLoop PROVE ScoreInv'
  OBVIOUS
<1>1. UNCHANGED <<ages, stats, windows>>
  BY DEF NextSample, NextLoop
<1>2. ScoreTypeOK'
  BY <1>1 DEF ScoreInv, ScoreTypeOK, NextSample, NextLoop, Samples
<1>3. EveryAccessCounted' /\ PopulationStats' /\ (stats.count = 0 => stats = NoStats)'
  BY <1>1 DEF ScoreInv, EveryAccessCounted, PopulationStats
<1>4. AgesCovered'
  <2> SUFFICES ASSUME NEW n \in Samples, NEW m \in 1 .. Len(ages[n]),
                      (pc # "observe" \/ Behind(n, m))'
               PROVE  pc # "observe" \/ Behind(n, m)
    BY <1>1 DEF ScoreInv, AgesCovered
  <2>1. Len(ages[n]) \in Nat /\ j \in 1 .. SampleCount + 1 /\ i \in Nat
    BY HistoryAges DEF ScoreInv, ScoreTypeOK
  <2>2. CASE NextSample
    BY <2>1, <2>2 DEF NextSample, Behind, Samples
  <2>3. CASE NextLoop
    BY <2>1, <2>3 DEF NextLoop, Behind, Samples
  <2> QED
    BY <2>2, <2>3
<1> QED
  BY <1>2, <1>3, <1>4 DEF ScoreInv

\* ScoreInv is an invariant.
LEMMA ScoreInvCorrect == ScoreSpec => []ScoreInv
<1>1. ScoreInv /\ UNCHANGED scoreVars => ScoreInv'
  BY DEF ScoreInv, ScoreTypeOK, PopulationStats, EveryAccessCounted, AgesCovered, Behind, scoreVars
<1>2. ScoreInv /\ [ScoreNext]_scoreVars => ScoreInv'
  BY <1>1, ObserveScoreInv, ClassifyScoreInv, CountersScoreInv DEF ScoreNext
<1> QED
  BY InitScoreInv, <1>2, PTL DEF ScoreSpec

\* The counters stay in their loops and the windows have numbers.
THEOREM ScoreTypeCorrect == ScoreSpec => []ScoreTypeOK
<1>1. ScoreInv => ScoreTypeOK
  BY DEF ScoreInv
<1> QED
  BY <1>1, ScoreInvCorrect, PTL

(***************************************************************************)
(* How far the sums get: no sample has more than HistorySize accesses, and *)
(* none is older than MaxAge.                                              *)
(***************************************************************************)
SumsBounded ==
  /\ stats.sum <= stats.count * MaxAge
  /\ stats.squares <= stats.count * (MaxAge * MaxAge)
  /\ stats.count <= SampleCount * HistorySize
  /\ pc = "observe" => stats.count <= (j - 1) * HistorySize + (i - 1)

LEMMA SumsBoundedInit == ScoreInit => SumsBounded
<1> SUFFICES ASSUME ScoreInit PROVE SumsBounded
  OBVIOUS
<1>1. stats.sum = 0 /\ stats.squares = 0 /\ stats.count = 0 /\ i = 1 /\ j = 1
  BY DEF ScoreInit, NoStats
<1>2. MaxAge * MaxAge \in Nat /\ HistorySize * 0 <= HistorySize * SampleCount
  BY SquareIsNat, Monotone
<1>3. /\ \A n \in Nat : 0 * n = 0 /\ n * 0 = 0
      /\ SampleCount * HistorySize = HistorySize * SampleCount
  <2>1. \A n \in Nat : 0 * n = 0 /\ n * 0 = 0
    OBVIOUS
  <2>2. SampleCount * HistorySize = HistorySize * SampleCount
    BY SMT
  <2> QED
    BY <2>1, <2>2
<1>4. 0 <= SampleCount * HistorySize
  <2>1. HistorySize * 0 = 0
    BY <1>3
  <2> QED
    BY <1>2, <1>3, <2>1
<1>5. (1 - 1) * HistorySize + (1 - 1) = 0
  <2>1. 1 - 1 = 0 /\ 0 * HistorySize = 0
    BY <1>3
  <2> QED
    BY <2>1
<1>6. stats.count * MaxAge = 0 /\ stats.count * (MaxAge * MaxAge) = 0
  BY <1>1, <1>2, <1>3
<1>7. (j - 1) * HistorySize + (i - 1) = 0
  BY <1>1, <1>5
<1> QED
  BY <1>1, <1>4, <1>6, <1>7 DEF SumsBounded

LEMMA OneMore ==
  ASSUME NEW n \in Nat, NEW m \in Nat
  PROVE  (n + 1) * m = n * m + m /\ n * m \in Int
  BY SMT

LEMMA SumsBoundedStep == ScoreInv /\ SumsBounded /\ [ScoreNext]_scoreVars => SumsBounded'
<1> SUFFICES ASSUME ScoreInv, SumsBounded, [ScoreNext]_scoreVars PROVE SumsBounded'
  OBVIOUS
<1>1. /\ stats.sum \in Nat /\ stats.squares \in Nat /\ stats.count \in Nat
      /\ i \in 1 .. HistorySize + 1 /\ j \in 1 .. SampleCount + 1
      /\ MaxAge * MaxAge \in Nat
  BY SquareIsNat DEF ScoreInv, ScoreTypeOK
<1>2. CASE Observe
  <2> DEFINE a == ages[j][i]
  <2>1. /\ ages[j] \in Histories /\ Len(ages[j]) \in 0 .. HistorySize
        /\ i \in 1 .. Len(ages[j]) /\ a \in Ages /\ j \in 1 .. SampleCount
    BY <1>2, HistoryAges DEF ScoreInv, ScoreTypeOK, Observe, Samples
  <2>2. a \in Nat /\ a <= MaxAge /\ a * a \in Nat
    BY <2>1, SquareIsNat DEF Ages
  <2>3. a * a <= MaxAge * MaxAge
    <3>1. a * a <= a * MaxAge /\ MaxAge * a <= MaxAge * MaxAge
      BY <2>2, Monotone
    <3>2. a * MaxAge = MaxAge * a /\ a * MaxAge \in Int
      BY <2>2, SMT
    <3> QED
      BY <1>1, <2>2, <3>1, <3>2
  <2>4. /\ stats'.sum = stats.sum + a /\ stats'.squares = stats.squares + a * a
        /\ stats'.count = stats.count + 1 /\ i' = i + 1 /\ j' = j /\ pc' = pc /\ pc = "observe"
    BY <1>2 DEF Observe, Observed
  <2> HIDE DEF a
  <2>5. /\ (stats.count + 1) * MaxAge = stats.count * MaxAge + MaxAge
        /\ (stats.count + 1) * (MaxAge * MaxAge) = stats.count * (MaxAge * MaxAge) + MaxAge * MaxAge
        /\ stats.count * MaxAge \in Int /\ stats.count * (MaxAge * MaxAge) \in Int
    BY <1>1, OneMore
  <2>6. (j - 1) * HistorySize + i <= SampleCount * HistorySize
    <3>1. HistorySize * j <= HistorySize * SampleCount
      BY <2>1, Monotone
    <3>2. /\ (j - 1) * HistorySize = HistorySize * j - HistorySize
          /\ SampleCount * HistorySize = HistorySize * SampleCount
          /\ HistorySize * j \in Int /\ HistorySize * SampleCount \in Int
      BY <1>1, SMT
    <3> QED
      BY <1>1, <2>1, <3>1, <3>2
  <2>7. /\ stats.sum <= stats.count * MaxAge /\ stats.squares <= stats.count * (MaxAge * MaxAge)
        /\ stats.count <= (j - 1) * HistorySize + (i - 1)
    BY <2>4 DEF SumsBounded
  <2>8. (j - 1) * HistorySize \in Int /\ SampleCount * HistorySize \in Int
    BY <1>1, SMT
  <2>9. stats'.sum <= stats'.count * MaxAge /\ stats'.squares <= stats'.count * (MaxAge * MaxAge)
    BY <1>1, <2>2, <2>3, <2>4, <2>5, <2>7
  <2>10. /\ stats'.count <= SampleCount * HistorySize
         /\ stats'.count <= (j' - 1) * HistorySize + (i' - 1)
    BY <1>1, <2>4, <2>6, <2>7, <2>8
  <2> QED
    BY <2>9, <2>10 DEF SumsBounded
<1>3. CASE Classify \/ UNCHANGED scoreVars
  BY <1>3 DEF SumsBounded, Classify, scoreVars
<1>4. CASE NextSample
  <2>1. /\ stats' = stats /\ pc' = pc /\ j' = j + 1 /\ i' = 1
    BY <1>4 DEF NextSample
  <2>2. (j' - 1) * HistorySize + (i' - 1) = (j - 1) * HistorySize + HistorySize
    BY <1>1, <2>1, SMT
  <2>3. (j - 1) * HistorySize \in Int
    BY <1>1, SMT
  <2> QED
    BY <1>1, <2>1, <2>2, <2>3 DEF SumsBounded
<1>5. CASE NextLoop
  <2>1. stats' = stats /\ pc' # "observe"
    BY <1>5 DEF NextLoop
  <2> QED
    BY <2>1 DEF SumsBounded
<1> QED
  BY <1>2, <1>3, <1>4, <1>5 DEF ScoreNext

\* A sum within a bound that is below the width.
LEMMA SumsBoundedFit ==
  ASSUME NEW width \in Nat, SampleCount * HistorySize * (MaxAge * MaxAge) < width,
         ScoreInv, SumsBounded
  PROVE  SumsFit(width)
<1> DEFINE n == SampleCount * HistorySize
           q == MaxAge * MaxAge
<1>1. /\ stats.sum \in Nat /\ stats.squares \in Nat /\ stats.count \in Nat
      /\ q \in Nat /\ n \in Nat
  BY SquareIsNat, SMT DEF ScoreInv, ScoreTypeOK
<1>2. /\ stats.sum <= stats.count * MaxAge /\ stats.squares <= stats.count * q
      /\ stats.count <= n /\ n * q < width
  BY DEF SumsBounded
<1>3. MaxAge <= q
  <2>1. CASE MaxAge = 0
    BY <1>1, <2>1
  <2>2. CASE MaxAge # 0
    <3>1. MaxAge * 1 <= MaxAge * MaxAge
      BY <2>2, Monotone
    <3> QED
      BY <3>1
  <2> QED
    BY <2>1, <2>2
<1> HIDE DEF n, q
<1>4. stats.count * MaxAge <= stats.count * q
  BY <1>1, <1>3, Monotone
<1>5. q * stats.count <= q * n
  BY <1>1, <1>2, Monotone
<1>6. /\ q * stats.count = stats.count * q /\ q * n = n * q
      /\ stats.count * q \in Int /\ n * q \in Int /\ stats.count * MaxAge \in Int
  BY <1>1, SMT
<1> QED
  BY <1>1, <1>2, <1>4, <1>5, <1>6 DEF SumsFit

(***************************************************************************)
(* calculateStatistics() yields the statistics of a population, so that    *)
(* sqrt() is not taken of a negative number, and its unsigned sums do not  *)
(* wrap: provided that the ages are true ones, of at most MaxAge, and that *)
(* the square of the greatest, taken for every access of every sample, is  *)
(* below the width.  With 24 bits of age, 4 accesses a key and 64 bits of  *)
(* sum this is so up to 2^14 sampled keys; maxmemory-samples is 5 unless   *)
(* configured.  It is not so of an age that is negative, as after a wrap   *)
(* of the clock: the difference of evict.c:312 is then close to 2^64.  The *)
(* mean and the variance are exact here, in the code they are doubles.     *)
(***************************************************************************)
THEOREM PopulationCorrect ==
  ASSUME NEW width \in Nat, SampleCount * HistorySize * (MaxAge * MaxAge) < width
  PROVE  ScoreSpec => [](PopulationStats /\ SumsFit(width))
<1>1. ScoreInv /\ SumsBounded => PopulationStats /\ SumsFit(width)
  BY SumsBoundedFit DEF ScoreInv
<1> QED
  BY ScoreInvCorrect, SumsBoundedInit, SumsBoundedStep, <1>1, PTL DEF ScoreSpec

\* The boundaries defineWindowBoundaries() returns ascend.
THEOREM NestedCorrect == ScoreSpec => []NestedWindows
<1>1. ScoreInv => NestedWindows
  BY BoundariesAscend
     DEF ScoreInv, NestedWindows, ScoreTypeOK, PopulationStats, StatsType
<1> QED
  BY <1>1, ScoreInvCorrect, PTL

\* estimateObjectEvictionScore() never reads window_boundaries[5] and leaves
\* no access out.
THEOREM EveryAccessCountedCorrect == ScoreSpec => []EveryAccessCounted
<1>1. ScoreInv => EveryAccessCounted
  BY DEF ScoreInv
<1> QED
  BY <1>1, ScoreInvCorrect, PTL

\* The windows of every pair of histories: sound statistics, nested
\* boundaries, and one window for every access.
THEOREM WindowsAreSoundCorrect == ScoreSpec => []WindowsAreSound
<1>1. ScoreInv => PopulationStats
  BY DEF ScoreInv
<1> QED
  BY <1>1, ScoreInvCorrect, NestedCorrect, EveryAccessCountedCorrect, PTL DEF WindowsAreSound

-----------------------------------------------------------------------------
(* Induction and folds.                                                    *)

\* Induction over the naturals, for a set instead of a predicate.
LEMMA LeastOf ==
  ASSUME NEW T, T \subseteq Nat, T # {}
  PROVE  \E n \in T : \A m \in T : ~(m < n)
<1> DEFINE R == OpToRel(<, Nat)
<1>1. IsWellFoundedOn(R, Nat)
  BY NatLessThanWellFounded, Zenon
<1>2. \E n \in T : \A m \in T : ~(<<m, n>> \in R)
  BY <1>1, WFMin
<1> QED
  BY <1>2 DEF OpToRel

LEMMA InductionOver ==
  ASSUME NEW P, 0 \in P, \A n \in Nat : n \in P => n + 1 \in P
  PROVE  Nat \subseteq P
<1> SUFFICES ASSUME Nat \ P # {} PROVE FALSE
  OBVIOUS
<1>1. PICK n \in Nat \ P : \A m \in Nat \ P : ~(m < n)
  <2> Nat \ P \subseteq Nat
    OBVIOUS
  <2> QED
    BY LeastOf
<1>2. n # 0 /\ n - 1 \in Nat /\ n - 1 \in P /\ n = (n - 1) + 1
  BY <1>1
<1> QED
  BY <1>1, <1>2

\* A set of positions of a sequence has a last one.
LEMMA LastPosition ==
  ASSUME NEW n \in Nat, NEW s \in SUBSET (1 .. n), s # {}
  PROVE  Max(s) \in s /\ \A x \in s : x <= Max(s)
<1> DEFINE T == {n - x : x \in s}
<1>1. T \subseteq Nat /\ T # {}
  <2>1. \A x \in s : x \in 1 .. n /\ n - x \in Nat
    OBVIOUS
  <2>2. PICK x \in s : TRUE
    OBVIOUS
  <2> QED
    BY <2>1, <2>2
<1>2. PICK k \in T : \A m \in T : ~(m < k)
  BY <1>1, LeastOf
<1>3. PICK x \in s : k = n - x
  OBVIOUS
<1>4. \A y \in s : y <= x
  <2> TAKE y \in s
  <2>1. n - y \in T /\ ~(n - y < n - x)
    BY <1>2, <1>3
  <2> QED
    BY <2>1
<1>5. \E z \in s : \A y \in s : z >= y
  BY <1>4
<1> QED
  BY <1>5 DEF Max

(***************************************************************************)
(* A fold over the n positions of a sequence, as the community modules     *)
(* define it, is a recursive function on sets of positions: it exists.     *)
(***************************************************************************)
IsFold(it, X, base, n, step) ==
  /\ it \in [SUBSET (1 .. n) -> X]
  /\ \A s \in SUBSET (1 .. n) :
       it[s] = IF s = {} THEN base ELSE step[<<it[s \ {Max(s)}], Max(s)>>]

LEMMA FoldExists ==
  ASSUME NEW X, NEW base \in X, NEW n \in Nat, NEW step \in [X \X (1 .. n) -> X]
  PROVE  \E it : IsFold(it, X, base, n, step)
<1> DEFINE D == SUBSET (1 .. n)
           Body(g, s) == IF s = {} THEN base ELSE step[<<g[s \ {Max(s)}], Max(s)>>]
           P == {k \in Nat : \E g \in [D -> X] :
                   \A s \in D : s \subseteq 1 .. k => g[s] = Body(g, s)}
<1>1. ASSUME NEW g \in [D -> X], NEW s \in D
      PROVE  Body(g, s) \in X
  BY LastPosition
<1>2. 0 \in P
  <2> DEFINE g == [s \in D |-> base]
  <2>1. g \in [D -> X]
    OBVIOUS
  <2>2. ASSUME NEW s \in D, s \subseteq 1 .. 0
        PROVE  g[s] = Body(g, s)
    <3>1. s = {}
      BY <2>2
    <3> QED
      BY <3>1
  <2> HIDE DEF Body, g
  <2> QED
    BY <2>1, <2>2
<1>3. ASSUME NEW k \in Nat, k \in P
      PROVE  k + 1 \in P
  <2>1. PICK g \in [D -> X] : \A s \in D : s \subseteq 1 .. k => g[s] = Body(g, s)
    BY <1>3
  <2> DEFINE h == [s \in D |-> Body(g, s)]
  <2>2. h \in [D -> X]
    BY <1>1
  <2>3. ASSUME NEW s \in D, s \subseteq 1 .. k + 1
        PROVE  h[s] = Body(h, s)
    <3>1. CASE s = {}
      BY <3>1
    <3>2. CASE s # {}
      <4> DEFINE r == s \ {Max(s)}
      <4>1. r \in D /\ r \subseteq 1 .. k
        <5>1. Max(s) \in s /\ \A x \in s : x <= Max(s)
          BY <3>2, LastPosition
        <5> HIDE DEF D
        <5>2. ASSUME NEW x \in r PROVE x \in 1 .. k
          <6>1. x \in 1 .. k + 1 /\ Max(s) \in 1 .. k + 1 /\ x <= Max(s) /\ x # Max(s)
            BY <2>3, <5>1
          <6> QED
            BY <6>1
        <5> QED
          BY <5>2 DEF D
      <4>2. h[r] = Body(g, r) /\ g[r] = Body(g, r)
        BY <2>1, <4>1
      <4>3. h[s] = step[<<g[r], Max(s)>>] /\ Body(h, s) = step[<<h[r], Max(s)>>]
        BY <3>2
      <4> QED
        BY <4>2, <4>3
    <3> QED
      BY <3>1, <3>2
  <2> HIDE DEF Body, h, D
  <2>4. \E g_1 \in [D -> X] : \A s \in D : s \subseteq 1 .. k + 1 => g_1[s] = Body(g_1, s)
    BY <2>2, <2>3
  <2> QED
    BY <2>4
<1>4. n \in P
  <2> HIDE DEF P
  <2>1. Nat \subseteq P
    BY <1>2, <1>3, InductionOver
  <2> QED
    BY <2>1
<1>5. PICK g \in [D -> X] : \A s \in D : s \subseteq 1 .. n => g[s] = Body(g, s)
  BY <1>4
<1> QED
  BY <1>5 DEF IsFold

LEMMA FirstPositions ==
  ASSUME NEW n \in Nat, NEW k \in 1 .. n
  PROVE  /\ 1 .. k # {} /\ Max(1 .. k) = k /\ (1 .. k) \ {k} = 1 .. k - 1
         /\ 1 .. k \in SUBSET (1 .. n) /\ 1 .. k - 1 \in SUBSET (1 .. n)
<1>1. 1 .. k \in SUBSET (1 .. n) /\ k \in 1 .. k
  OBVIOUS
<1>2. Max(1 .. k) \in 1 .. k /\ \A x \in 1 .. k : x <= Max(1 .. k)
  BY <1>1, LastPosition
<1> QED
  BY <1>1, <1>2

-----------------------------------------------------------------------------
(* Scores and windows.                                                     *)

\* The score of a key from the running total of its weights.
IsTotal(t, ws) ==
  /\ t \in [0 .. Len(ws) -> Int] /\ t[0] = 0
  /\ \A k \in 1 .. Len(ws) : t[k] = t[k - 1] + WeightOf(ws[k])

LEMMA WeightFacts ==
  ASSUME NEW v \in 1 .. 4, NEW w \in 1 .. 4
  PROVE  /\ WeightOf(v) \in Nat
         /\ v <= w => WeightOf(w) <= WeightOf(v)
  BY DEF WeightOf, WINDOW_WEIGHTS

LEMMA ScoreIsTotal ==
  ASSUME NEW ws \in Seq(1 .. 4)
  PROVE  \E t : IsTotal(t, ws) /\ Score(ws) = -(t[Len(ws)] + Len(ws))
<1> DEFINE n == Len(ws)
           D == SUBSET (1 .. n)
           step == [p \in Int \X (1 .. n) |-> p[1] + WeightOf(ws[p[2]])]
           Eqn(it) == it = [s \in D |-> IF s = {} THEN 0
                                        ELSE it[s \ {Max(s)}] + WeightOf(ws[Max(s)])]
           it == CHOOSE f : Eqn(f)
<1>1. /\ n \in Nat /\ DOMAIN ws = 1 .. n
      /\ \A k \in 1 .. n : ws[k] \in 1 .. 4 /\ WeightOf(ws[k]) \in Int
  BY WeightFacts
<1>2. step \in [Int \X (1 .. n) -> Int]
  BY <1>1
<1>3. PICK f : IsFold(f, Int, 0, n, step)
  <2> HIDE DEF step, n
  <2>1. n \in Nat /\ 0 \in Int
    BY <1>1
  <2> QED
    BY <1>2, <2>1, FoldExists, Zenon
<1>4. Eqn(f)
  <2>1. ASSUME NEW s \in D, s # {}
        PROVE  step[<<f[s \ {Max(s)}], Max(s)>>] = f[s \ {Max(s)}] + WeightOf(ws[Max(s)])
    BY <1>1, <1>3, <2>1, LastPosition DEF IsFold
  <2> HIDE DEF step
  <2>2. \A s \in D : f[s] = IF s = {} THEN 0 ELSE f[s \ {Max(s)}] + WeightOf(ws[Max(s)])
    BY <1>3, <2>1 DEF IsFold
  <2>3. f \in [D -> Int]
    BY <1>3 DEF IsFold
  <2> QED
    BY <2>2, <2>3
<1>5. Eqn(it)
  <2> HIDE DEF Eqn
  <2> QED
    BY <1>4
<1>6. Score(ws) = -(it[1 .. n] + n)
  BY <1>1 DEF Score, FoldLeft, MapThenFoldSet
<1> DEFINE t == [k \in 0 .. n |-> it[1 .. k]]
<1>7. ASSUME NEW k \in 1 .. n PROVE it[1 .. k] = it[1 .. k - 1] + WeightOf(ws[k])
  <2> HIDE DEF it
  <2>1. \A s \in D : it[s] = IF s = {} THEN 0 ELSE it[s \ {Max(s)}] + WeightOf(ws[Max(s)])
    BY <1>5
  <2> QED
    BY <1>1, <2>1, FirstPositions
<1>8. it[1 .. 0] = 0
  <2>1. 1 .. 0 = {}
    OBVIOUS
  <2> HIDE DEF it
  <2> QED
    BY <1>5, <2>1
<1> HIDE DEF it
<1>9. ASSUME NEW k \in 0 .. n PROVE it[1 .. k] \in Int
  <2> DEFINE P == {m \in Nat : m <= n => it[1 .. m] \in Int}
  <2>1. 0 \in P
    BY <1>8
  <2>2. ASSUME NEW m \in Nat, m \in P PROVE m + 1 \in P
    <3>1. CASE m + 1 <= n
      <4>1. m + 1 \in 1 .. n /\ (m + 1) - 1 = m
        BY <1>1, <3>1
      <4>2. it[1 .. m + 1] = it[1 .. m] + WeightOf(ws[m + 1])
        BY <1>7, <4>1
      <4> QED
        BY <1>1, <2>2, <4>1, <4>2
    <3>2. CASE ~(m + 1 <= n)
      BY <3>2
    <3> QED
      BY <3>1, <3>2
  <2>3. k \in P
    <3> HIDE DEF P
    <3>1. Nat \subseteq P
      BY <2>1, <2>2, InductionOver
    <3> QED
      BY <1>1, <3>1
  <2> QED
    BY <1>1, <2>3
<1>10. IsTotal(t, ws)
  <2>1. t \in [0 .. n -> Int] /\ t[0] = 0
    BY <1>1, <1>8, <1>9
  <2>2. ASSUME NEW k \in 1 .. n PROVE t[k] = t[k - 1] + WeightOf(ws[k])
    BY <1>1, <1>7
  <2> QED
    BY <2>1, <2>2 DEF IsTotal
<1>11. Score(ws) = -(t[n] + n)
  BY <1>1, <1>6
<1> QED
  BY <1>10, <1>11

\* Two keys with as many accesses, one in later windows than the other.
LEMMA LaterWindowsScoreMore ==
  ASSUME NEW ws \in Seq(1 .. 4), NEW vs \in Seq(1 .. 4), Len(ws) = Len(vs),
         \A m \in 1 .. Len(ws) : ws[m] >= vs[m]
  PROVE  Score(ws) >= Score(vs)
<1> DEFINE n == Len(ws)
<1>1. PICK t : IsTotal(t, ws) /\ Score(ws) = -(t[n] + n)
  BY ScoreIsTotal
<1>2. PICK u : IsTotal(u, vs) /\ Score(vs) = -(u[n] + n)
  BY ScoreIsTotal
<1>3. n \in Nat /\ t \in [0 .. n -> Int] /\ u \in [0 .. n -> Int]
  BY <1>1, <1>2 DEF IsTotal
<1> DEFINE P == {k \in Nat : k <= n => t[k] <= u[k]}
<1>4. 0 \in P
  BY <1>1, <1>2 DEF IsTotal
<1>5. ASSUME NEW k \in Nat, k \in P PROVE k + 1 \in P
  <2>1. SUFFICES ASSUME k + 1 <= n PROVE t[k + 1] <= u[k + 1]
    OBVIOUS
  <2>2. k + 1 \in 1 .. n /\ (k + 1) - 1 = k /\ k \in 0 .. n
    BY <1>3, <2>1
  <2>3. /\ t[k + 1] = t[k] + WeightOf(ws[k + 1])
        /\ u[k + 1] = u[k] + WeightOf(vs[k + 1])
    BY <1>1, <1>2, <2>2 DEF IsTotal
  <2>4. ws[k + 1] \in 1 .. 4 /\ vs[k + 1] \in 1 .. 4 /\ vs[k + 1] <= ws[k + 1]
    BY <2>2
  <2>5. /\ WeightOf(ws[k + 1]) \in Nat /\ WeightOf(vs[k + 1]) \in Nat
        /\ WeightOf(ws[k + 1]) <= WeightOf(vs[k + 1])
    BY <2>4, WeightFacts
  <2>6. t[k] <= u[k] /\ t[k] \in Int /\ u[k] \in Int
    BY <1>3, <1>5, <2>1, <2>2
  <2> QED
    BY <2>3, <2>5, <2>6
<1>6. n \in P
  <2> HIDE DEF P, n
  <2>1. Nat \subseteq P
    BY <1>4, <1>5, InductionOver
  <2> QED
    BY <1>3, <2>1
<1>7. t[n] <= u[n] /\ t[n] \in Int /\ u[n] \in Int
  BY <1>3, <1>6
<1> QED
  BY <1>1, <1>2, <1>3, <1>7

\* A key with all the accesses of another one, and others before them.
LEMMA MoreAccessesScoreLess ==
  ASSUME NEW ws \in Seq(1 .. 4), NEW vs \in Seq(1 .. 4), Len(ws) < Len(vs),
         \A m \in 1 .. Len(ws) : vs[Len(vs) - Len(ws) + m] = ws[m]
  PROVE  Score(vs) < Score(ws)
<1> DEFINE n == Len(ws)
           d == Len(vs) - Len(ws)
<1>0. /\ n \in Nat /\ d \in Nat /\ d > 0 /\ Len(ws) = n /\ Len(vs) = d + n
      /\ \A m \in 1 .. n : vs[d + m] = ws[m]
  OBVIOUS
<1> HIDE DEF n, d
<1>1. PICK t : IsTotal(t, ws) /\ Score(ws) = -(t[n] + n)
  BY <1>0, ScoreIsTotal
<1>2. PICK u : IsTotal(u, vs) /\ Score(vs) = -(u[d + n] + (d + n))
  BY <1>0, ScoreIsTotal
<1>3. t \in [0 .. n -> Int] /\ u \in [0 .. d + n -> Int]
  BY <1>0, <1>1, <1>2 DEF IsTotal
<1> DEFINE P == {k \in Nat : k <= d => u[k] >= 0}
           Q == {k \in Nat : k <= n => u[d + k] >= t[k]}
<1>4. d \in P
  <2>1. 0 \in P
    BY <1>2 DEF IsTotal
  <2>2. ASSUME NEW k \in Nat, k \in P PROVE k + 1 \in P
    <3>1. SUFFICES ASSUME k + 1 <= d PROVE u[k + 1] >= 0
      OBVIOUS
    <3>2. k + 1 \in 1 .. Len(vs) /\ k <= d /\ (k + 1) - 1 = k /\ k \in 0 .. d + n
      BY <1>0, <3>1
    <3>3. u[k + 1] = u[k] + WeightOf(vs[k + 1]) /\ vs[k + 1] \in 1 .. 4
      BY <1>2, <3>2 DEF IsTotal
    <3>4. WeightOf(vs[k + 1]) \in Nat /\ u[k] \in Int /\ u[k] >= 0
      BY <1>0, <1>3, <2>2, <3>1, <3>2, <3>3, WeightFacts
    <3> QED
      BY <3>3, <3>4
  <2> HIDE DEF P
  <2>3. Nat \subseteq P
    BY <2>1, <2>2, InductionOver
  <2> QED
    BY <1>0, <2>3
<1>5. n \in Q
  <2>1. 0 \in Q
    BY <1>0, <1>1, <1>4 DEF IsTotal
  <2>2. ASSUME NEW k \in Nat, k \in Q PROVE k + 1 \in Q
    <3>1. SUFFICES ASSUME k + 1 <= n PROVE u[d + (k + 1)] >= t[k + 1]
      OBVIOUS
    <3>2. /\ k + 1 \in 1 .. n /\ (k + 1) - 1 = k /\ k \in 0 .. n
          /\ d + (k + 1) \in 1 .. Len(vs) /\ (d + (k + 1)) - 1 = d + k
          /\ d + k \in 0 .. d + n
      BY <1>0, <3>1
    <3>3. t[k + 1] = t[k] + WeightOf(ws[k + 1]) /\ ws[k + 1] \in 1 .. 4
      BY <1>0, <1>1, <3>2 DEF IsTotal
    <3>4. u[d + (k + 1)] = u[d + k] + WeightOf(vs[d + (k + 1)])
      BY <1>2, <3>2 DEF IsTotal
    <3>5. vs[d + (k + 1)] = ws[k + 1]
      BY <1>0, <3>2
    <3>6. WeightOf(ws[k + 1]) \in Nat
      BY <3>3, WeightFacts
    <3>7. u[d + k] \in Int /\ t[k] \in Int /\ k <= n
      BY <1>0, <1>3, <3>1, <3>2
    <3>8. u[d + k] >= t[k]
      BY <2>2, <3>7
    <3> QED
      BY <3>3, <3>4, <3>5, <3>6, <3>7, <3>8
  <2> HIDE DEF Q
  <2>3. Nat \subseteq Q
    BY <2>1, <2>2, InductionOver
  <2> QED
    BY <1>0, <2>3
<1>6. u[d + n] >= t[n] /\ u[d + n] \in Int /\ t[n] \in Int
  BY <1>0, <1>3, <1>5
<1> QED
  BY <1>0, <1>1, <1>2, <1>6

LEMMA SquaresGrow ==
  ASSUME NEW x \in Int, NEW y \in Int, 0 <= x, x <= y
  PROVE  x * x <= y * y
<1>1. x * x <= x * y
  BY Monotone
<1>2. y * x <= y * y
  BY Monotone
<1>3. x * y = y * x /\ x * x \in Int /\ x * y \in Int /\ y * y \in Int
  OBVIOUS
<1> QED
  BY <1>1, <1>2, <1>3

\* An older access falls in the same or a later window.
LEMMA OlderIsLater ==
  ASSUME NEW s \in StatsType, NEW a \in Nat, NEW b \in Nat, a <= b
  PROVE  Window(s, a) <= Window(s, b)
<1>0. /\ s.min \in Nat /\ s.max \in Nat /\ s.sum \in Nat
      /\ s.squares \in Nat /\ s.count \in Nat
  BY DEF StatsType
<1> DEFINE c == s.count
           S == s.sum
           V == Variance(s)
           ca == c * a
           cb == c * b
<1>1. c \in Nat /\ S \in Nat /\ V \in Int /\ ca \in Int /\ cb \in Int /\ ca <= cb
  BY <1>0, Monotone DEF Variance
<1>2. BelowSpread(s, b) => BelowSpread(s, a)
  <2>1. SUFFICES ASSUME V >= 0, cb <= S, (S - cb) * (S - cb) >= V
                 PROVE  V >= 0 /\ ca <= S /\ (S - ca) * (S - ca) >= V
    BY DEF BelowSpread
  <2> HIDE DEF ca, cb, S, V
  <2>2. 0 <= S - cb /\ S - cb <= S - ca /\ S - cb \in Int /\ S - ca \in Int
    BY <1>1, <2>1
  <2>3. (S - cb) * (S - cb) <= (S - ca) * (S - ca)
    BY <2>2, SquaresGrow
  <2> DEFINE p == (S - cb) * (S - cb)
             q == (S - ca) * (S - ca)
  <2>4. p \in Int /\ q \in Int /\ p <= q /\ p >= V
    BY <1>1, <2>1, <2>3
  <2> HIDE DEF p, q
  <2>5. q >= V
    BY <1>1, <2>4
  <2> QED
    BY <1>1, <2>1, <2>5 DEF q
<1>3. WithinSpread(s, b) => WithinSpread(s, a)
  <2>1. SUFFICES ASSUME V >= 0, ca > S, cb <= S \/ (cb - S) * (cb - S) <= V
                 PROVE  (ca - S) * (ca - S) <= V
    BY <1>1 DEF WithinSpread
  <2> HIDE DEF ca, cb, S, V
  <2>2. 0 <= ca - S /\ ca - S <= cb - S /\ cb - S \in Int /\ ca - S \in Int /\ ~(cb <= S)
    BY <1>1, <2>1
  <2>3. (ca - S) * (ca - S) <= (cb - S) * (cb - S)
    BY <2>2, SquaresGrow
  <2> DEFINE p == (ca - S) * (ca - S)
             q == (cb - S) * (cb - S)
  <2>4. p \in Int /\ q \in Int /\ p <= q /\ q <= V
    BY <1>1, <2>1, <2>2, <2>3
  <2> HIDE DEF p, q
  <2>5. p <= V
    BY <1>1, <2>4
  <2> QED
    BY <2>5 DEF p
<1>4. ASSUME NEW w \in 1 .. 4, AtMost(s, w, b) PROVE AtMost(s, w, a)
  <2>1. CASE w = 1
    BY <1>0, <1>2, <1>4, <2>1 DEF AtMost
  <2>2. CASE w = 2
    BY <1>0, <1>1, <1>4, <2>2 DEF AtMost
  <2>3. CASE w = 3
    BY <1>0, <1>3, <1>4, <2>3 DEF AtMost
  <2>4. CASE w = 4
    BY <1>0, <1>4, <2>4 DEF AtMost
  <2> QED
    BY <2>1, <2>2, <2>3, <2>4
<1> QED
  BY <1>4 DEF Window

(***************************************************************************)
(* The statistics of the same accesses a tick later: no access at all, or  *)
(* every age one more.                                                     *)
(***************************************************************************)
TickLater(s, t) ==
  /\ s \in StatsType /\ t \in StatsType /\ t.count = s.count
  /\ IF s.count = 0 THEN s = NoStats /\ t = NoStats
     ELSE t.min = s.min + 1 /\ t.max = s.max + 1
  /\ t.sum = s.sum + s.count
  /\ t.squares = s.squares + 2 * s.sum + s.count

LEMMA ObservedLater ==
  ASSUME NEW s, NEW t, TickLater(s, t), NEW age \in Ages
  PROVE  TickLater(Observed(s, age), Observed(t, age + 1))
<1>1. /\ s \in StatsType /\ t \in StatsType /\ age \in Nat /\ age <= MaxAge
      /\ age * age \in Nat /\ (age + 1) * (age + 1) = age * age + 2 * age + 1
  BY SquareIsNat DEF TickLater, Ages
<1>2. /\ s.min \in Nat /\ s.max \in Nat /\ s.sum \in Nat
      /\ s.squares \in Nat /\ s.count \in Nat
      /\ t.min \in Nat /\ t.max \in Nat /\ t.sum \in Nat
      /\ t.squares \in Nat /\ t.count \in Nat
  BY <1>1 DEF StatsType
<1> DEFINE o == Observed(s, age)
           p == Observed(t, age + 1)
<1>3. /\ o.count = s.count + 1 /\ p.count = t.count + 1
      /\ o.sum = s.sum + age /\ p.sum = t.sum + age + 1
      /\ o.squares = s.squares + age * age
      /\ p.squares = t.squares + (age * age + 2 * age + 1)
      /\ o.min = IF age < s.min THEN age ELSE s.min
      /\ o.max = IF age > s.max THEN age ELSE s.max
      /\ p.min = IF age + 1 < t.min THEN age + 1 ELSE t.min
      /\ p.max = IF age + 1 > t.max THEN age + 1 ELSE t.max
  BY <1>1, <1>2 DEF Observed
<1>4. o \in StatsType /\ p \in StatsType
  BY <1>1, <1>2 DEF Observed, StatsType
<1>5. p.min = o.min + 1 /\ p.max = o.max + 1
  <2>1. CASE s.count = 0
    <3>1. s.min = MaxAge + 1 /\ t.min = MaxAge + 1 /\ s.max = 0 /\ t.max = 0
      BY <2>1 DEF TickLater, NoStats
    <3> QED
      BY <1>1, <1>3, <3>1
  <2>2. CASE s.count # 0
    <3>1. t.min = s.min + 1 /\ t.max = s.max + 1
      BY <2>2 DEF TickLater
    <3> QED
      BY <1>1, <1>2, <1>3, <3>1
  <2> QED
    BY <2>1, <2>2
<1>6. p.count = o.count /\ o.count # 0
  BY <1>2, <1>3 DEF TickLater
<1>7. /\ p.sum = o.sum + o.count
      /\ p.squares = o.squares + 2 * o.sum + o.count
  <2>1. t.sum = s.sum + s.count /\ t.squares = s.squares + 2 * s.sum + s.count
    BY DEF TickLater
  <2> DEFINE sq == age * age
  <2>2. sq \in Nat
    BY <1>1
  <2> HIDE DEF sq
  <2>3. o.squares = s.squares + sq /\ p.squares = t.squares + (sq + 2 * age + 1)
    BY <1>3 DEF sq
  <2> HIDE DEF o, p
  <2> QED
    BY <1>1, <1>2, <1>3, <2>1, <2>2, <2>3
<1> HIDE DEF o, p
<1>8. TickLater(o, p)
  BY <1>4, <1>5, <1>6, <1>7 DEF TickLater
<1> QED
  BY <1>8 DEF o, p

LEMMA WindowLater ==
  ASSUME NEW s, NEW t, TickLater(s, t), s.count > 0, NEW age \in Ages
  PROVE  Window(t, age + 1) = Window(s, age)
<1> DEFINE c == s.count
           S == s.sum
           Q == s.squares
           x == c * age
           y == t.count * (age + 1)
<1>1. /\ c \in Nat /\ S \in Nat /\ Q \in Nat /\ age \in Nat
      /\ s.min \in Nat /\ s.max \in Nat
  BY DEF TickLater, StatsType, Ages
<1>2. /\ t.count = c /\ t.sum = S + c /\ t.squares = Q + 2 * S + c
      /\ t.min = s.min + 1 /\ t.max = s.max + 1
  BY <1>1 DEF TickLater
<1>3. x \in Int /\ y = x + c
  BY <1>1, <1>2
<1>4. Variance(t) = Variance(s) /\ Variance(s) \in Int
  <2> HIDE DEF c, S, Q
  <2>1. Variance(t) = c * (Q + 2 * S + c) - (S + c) * (S + c)
    BY <1>2 DEF Variance
  <2>2. c * (Q + 2 * S + c) - (S + c) * (S + c) = c * Q - S * S
    BY <1>1
  <2>3. Variance(s) = c * Q - S * S /\ c * Q - S * S \in Int
    BY <1>1 DEF Variance, c, Q, S
  <2> QED
    BY <2>1, <2>2, <2>3
<1>5. /\ t.sum - y = S - x /\ y - t.sum = x - S
      /\ y <= t.sum <=> x <= S
  <2> HIDE DEF x, y, S, c
  <2> QED
    BY <1>1, <1>2, <1>3
<1>6. BelowSpread(t, age + 1) <=> BelowSpread(s, age)
  BY <1>4, <1>5 DEF BelowSpread
<1>7. WithinSpread(t, age + 1) <=> WithinSpread(s, age)
  BY <1>4, <1>5 DEF WithinSpread
<1>8. (age + 1 <= t.min <=> age <= s.min) /\ (age + 1 <= t.max <=> age <= s.max)
  BY <1>1, <1>2
<1>9. \A w \in 1 .. 4 : AtMost(t, w, age + 1) <=> AtMost(s, w, age)
  BY <1>5, <1>6, <1>7, <1>8 DEF AtMost
<1> QED
  BY <1>9 DEF Window

-----------------------------------------------------------------------------
(* The statistics of all accesses.                                         *)

\* The statistics after each of a sequence of ages.
IsRun(r, s) ==
  /\ r \in [0 .. Len(s) -> StatsType] /\ r[0] = NoStats
  /\ \A k \in 1 .. Len(s) : r[k] = Observed(r[k - 1], s[k])

LEMMA NoStatsType == NoStats \in StatsType
  BY DEF NoStats, StatsType

LEMMA ObservedType ==
  ASSUME NEW s \in StatsType, NEW age \in Nat
  PROVE  Observed(s, age) \in StatsType
<1>1. /\ s.min \in Nat /\ s.max \in Nat /\ s.sum \in Nat
      /\ s.squares \in Nat /\ s.count \in Nat /\ age * age \in Nat
  BY SquareIsNat DEF StatsType
<1> QED
  BY <1>1 DEF Observed, StatsType

LEMMA FoldIsRun ==
  ASSUME NEW ws \in Seq(Nat)
  PROVE  \E r : IsRun(r, ws) /\ FoldLeft(Observed, NoStats, ws) = r[Len(ws)]
<1> DEFINE n == Len(ws)
           D == SUBSET (1 .. n)
           step == [p \in StatsType \X (1 .. n) |-> Observed(p[1], ws[p[2]])]
           Eqn(it) == it = [s \in D |-> IF s = {} THEN NoStats
                                        ELSE Observed(it[s \ {Max(s)}], ws[Max(s)])]
           it == CHOOSE f : Eqn(f)
<1>1. n \in Nat /\ DOMAIN ws = 1 .. n /\ \A k \in 1 .. n : ws[k] \in Nat
  OBVIOUS
<1>2. step \in [StatsType \X (1 .. n) -> StatsType]
  BY <1>1, ObservedType
<1>3. PICK f : IsFold(f, StatsType, NoStats, n, step)
  <2> HIDE DEF step, n
  <2>1. n \in Nat
    BY <1>1
  <2> QED
    BY <1>2, <2>1, NoStatsType, FoldExists, Zenon
<1>4. Eqn(f)
  <2>1. ASSUME NEW s \in D, s # {}
        PROVE  step[<<f[s \ {Max(s)}], Max(s)>>] = Observed(f[s \ {Max(s)}], ws[Max(s)])
    BY <1>1, <1>3, <2>1, LastPosition DEF IsFold
  <2> HIDE DEF step
  <2>2. \A s \in D : f[s] = IF s = {} THEN NoStats ELSE Observed(f[s \ {Max(s)}], ws[Max(s)])
    BY <1>3, <2>1 DEF IsFold
  <2>3. f \in [D -> StatsType]
    BY <1>3 DEF IsFold
  <2> QED
    BY <2>2, <2>3
<1>5. Eqn(it)
  <2> HIDE DEF Eqn
  <2> QED
    BY <1>4
<1>6. FoldLeft(Observed, NoStats, ws) = it[1 .. n]
  BY <1>1 DEF FoldLeft, MapThenFoldSet
<1> DEFINE r == [k \in 0 .. n |-> it[1 .. k]]
<1> HIDE DEF it
<1>7. ASSUME NEW k \in 1 .. n PROVE it[1 .. k] = Observed(it[1 .. k - 1], ws[k])
  <2>1. \A s \in D : it[s] = IF s = {} THEN NoStats ELSE Observed(it[s \ {Max(s)}], ws[Max(s)])
    BY <1>5
  <2> QED
    BY <1>1, <2>1, FirstPositions
<1>8. it[1 .. 0] = NoStats
  <2>1. 1 .. 0 = {}
    OBVIOUS
  <2> QED
    BY <1>5, <2>1
<1>9. ASSUME NEW k \in 0 .. n PROVE it[1 .. k] \in StatsType
  <2> DEFINE P == {m \in Nat : m <= n => it[1 .. m] \in StatsType}
  <2>1. 0 \in P
    BY <1>8, NoStatsType
  <2>2. ASSUME NEW m \in Nat, m \in P PROVE m + 1 \in P
    <3>1. CASE m + 1 <= n
      <4>1. m + 1 \in 1 .. n /\ (m + 1) - 1 = m
        BY <1>1, <3>1
      <4>2. it[1 .. m + 1] = Observed(it[1 .. m], ws[m + 1])
        BY <1>7, <4>1
      <4>3. it[1 .. m] \in StatsType
        BY <1>1, <2>2, <3>1
      <4> QED
        BY <1>1, <4>1, <4>2, <4>3, ObservedType
    <3>2. CASE ~(m + 1 <= n)
      BY <3>2
    <3> QED
      BY <3>1, <3>2
  <2>3. k \in P
    <3> HIDE DEF P
    <3>1. Nat \subseteq P
      BY <2>1, <2>2, InductionOver
    <3> QED
      BY <1>1, <3>1
  <2> QED
    BY <1>1, <2>3
<1>10. IsRun(r, ws)
  <2>1. r \in [0 .. n -> StatsType] /\ r[0] = NoStats
    BY <1>1, <1>8, <1>9
  <2>2. ASSUME NEW k \in 1 .. n PROVE r[k] = Observed(r[k - 1], ws[k])
    BY <1>1, <1>7
  <2> QED
    BY <2>1, <2>2 DEF IsRun
<1> QED
  BY <1>1, <1>6, <1>10

\* u is s and then t.
Joined(s, t, u) ==
  /\ Len(u) = Len(s) + Len(t) /\ Len(s) \in Nat /\ Len(t) \in Nat
  /\ \A k \in 1 .. Len(s) : k \in 1 .. Len(u) /\ u[k] = s[k]
  /\ \A k \in 1 .. Len(t) : Len(s) + k \in 1 .. Len(u) /\ u[Len(s) + k] = t[k]
  /\ \A k \in 1 .. Len(u) :
       k \in 1 .. Len(s) \/ \E m \in 1 .. Len(t) : k = Len(s) + m

LEMMA Concatenated ==
  ASSUME NEW s \in Seq(Nat), NEW t \in Seq(Nat)
  PROVE  Joined(s, t, s \o t)
<1> DEFINE u == s \o t
<1>1. u \in Seq(Nat) /\ Len(u) = Len(s) + Len(t) /\ Len(s) \in Nat /\ Len(t) \in Nat
  OBVIOUS
<1>2. \A k \in 1 .. Len(s) : u[k] = s[k]
  OBVIOUS
<1>3. \A k \in 1 .. Len(t) : u[Len(s) + k] = t[k]
  OBVIOUS
<1>4. ASSUME NEW k \in 1 .. Len(u), k \notin 1 .. Len(s)
      PROVE  \E m \in 1 .. Len(t) : k = Len(s) + m
  <2>1. k - Len(s) \in 1 .. Len(t) /\ k = Len(s) + (k - Len(s))
    BY <1>1, <1>4
  <2> QED
    BY <2>1
<1> HIDE DEF u
<1>5. Joined(s, t, u)
  <2>1. \A k \in 1 .. Len(s) : k \in 1 .. Len(u)
    BY <1>1
  <2>2. \A k \in 1 .. Len(t) : Len(s) + k \in 1 .. Len(u)
    BY <1>1
  <2>3. \A k \in 1 .. Len(u) : k \in 1 .. Len(s) \/ \E m \in 1 .. Len(t) : k = Len(s) + m
    BY <1>4
  <2> QED
    BY <1>1, <1>2, <1>3, <2>1, <2>2, <2>3 DEF Joined
<1> QED
  BY <1>5 DEF u

\* The accesses of the samples, one sample after the other.
IsFlat(f, a) ==
  /\ f \in [0 .. SampleCount -> Seq(Nat)] /\ f[0] = << >>
  /\ \A n \in Samples : f[n] = f[n - 1] \o a[n]

LEMMA FlattenIsFlat ==
  ASSUME NEW a \in [Samples -> Seq(Nat)], SampleCount > 0
  PROVE  \E f : IsFlat(f, a) /\ FlattenSeq(a) = f[SampleCount]
<1> DEFINE N == SampleCount
           Body(g, n) == IF n = 1 THEN a[n] ELSE g[n - 1] \o a[n]
           Eqn(g) == g = [n \in 1 .. N |-> Body(g, n)]
           D == [1 .. N -> Seq(Nat)]
           P == {k \in Nat : \E g \in D :
                   \A n \in 1 .. N : n <= k => g[n] = Body(g, n)}
           flatten == CHOOSE g : Eqn(g)
<1>1. N \in Nat /\ N > 0 /\ Len(a) = N /\ Samples = 1 .. N /\ \A n \in 1 .. N : a[n] \in Seq(Nat)
  BY DEF Samples
<1>2. ASSUME NEW g \in D, NEW n \in 1 .. N
      PROVE  Body(g, n) \in Seq(Nat)
  BY <1>1
<1>3. 0 \in P
  BY <1>1
<1>4. ASSUME NEW k \in Nat, k \in P PROVE k + 1 \in P
  <2>1. PICK g \in D : \A n \in 1 .. N : n <= k => g[n] = Body(g, n)
    BY <1>4
  <2> DEFINE h == [n \in 1 .. N |-> Body(g, n)]
  <2>2. h \in D
    BY <1>2
  <2>3. ASSUME NEW n \in 1 .. N, n <= k + 1
        PROVE  h[n] = Body(h, n)
    <3>1. CASE n = 1
      BY <3>1
    <3>2. CASE n # 1
      <4>1. n - 1 \in 1 .. N /\ n - 1 <= k
        BY <1>1, <2>3, <3>2
      <4>2. h[n - 1] = g[n - 1]
        BY <2>1, <4>1
      <4>3. h[n] = g[n - 1] \o a[n] /\ Body(h, n) = h[n - 1] \o a[n]
        BY <3>2
      <4> QED
        BY <4>2, <4>3
    <3> QED
      BY <3>1, <3>2
  <2> HIDE DEF Body, h, D
  <2>4. \E g_1 \in D : \A n \in 1 .. N : n <= k + 1 => g_1[n] = Body(g_1, n)
    BY <2>2, <2>3
  <2> QED
    BY <2>4
<1>5. N \in P
  <2> HIDE DEF P
  <2>1. Nat \subseteq P
    BY <1>3, <1>4, InductionOver
  <2> QED
    BY <1>1, <2>1
<1>6. PICK g \in D : \A n \in 1 .. N : n <= N => g[n] = Body(g, n)
  BY <1>5
<1>7. Eqn(g)
  <2> HIDE DEF Body
  <2>1. \A n \in 1 .. N : g[n] = Body(g, n)
    BY <1>1, <1>6
  <2> QED
    BY <2>1
<1>8. Eqn(flatten)
  <2> HIDE DEF Eqn
  <2> QED
    BY <1>7
<1>9. FlattenSeq(a) = flatten[N]
  BY <1>1 DEF FlattenSeq
<1> DEFINE f == [n \in 0 .. N |-> IF n = 0 THEN << >> ELSE flatten[n]]
<1> HIDE DEF flatten
<1>10. \A n \in 1 .. N : flatten[n] = IF n = 1 THEN a[n] ELSE flatten[n - 1] \o a[n]
  BY <1>8
<1>11. ASSUME NEW n \in 1 .. N PROVE flatten[n] \in Seq(Nat)
  <2> DEFINE R == {m \in Nat : m + 1 <= N => flatten[m + 1] \in Seq(Nat)}
  <2>1. 0 \in R
    BY <1>1, <1>10
  <2>2. ASSUME NEW m \in Nat, m \in R PROVE m + 1 \in R
    <3>1. SUFFICES ASSUME (m + 1) + 1 <= N PROVE flatten[(m + 1) + 1] \in Seq(Nat)
      OBVIOUS
    <3>2. (m + 1) + 1 \in 1 .. N /\ (m + 1) + 1 # 1 /\ ((m + 1) + 1) - 1 = m + 1 /\ m + 1 <= N
      BY <1>1, <3>1
    <3>3. flatten[(m + 1) + 1] = flatten[m + 1] \o a[(m + 1) + 1]
      BY <1>10, <3>2
    <3> QED
      BY <1>1, <2>2, <3>2, <3>3
  <2>3. n - 1 \in R
    <3> HIDE DEF R
    <3>1. Nat \subseteq R
      BY <2>1, <2>2, InductionOver
    <3> QED
      BY <3>1
  <2> QED
    BY <2>3
<1>12. IsFlat(f, a)
  <2>1. f \in [0 .. N -> Seq(Nat)] /\ f[0] = << >>
    BY <1>1, <1>11
  <2>2. ASSUME NEW n \in 1 .. N PROVE f[n] = f[n - 1] \o a[n]
    <3>1. CASE n = 1
      <4>1. f[n] = a[1] /\ f[n - 1] = << >> /\ a[1] \in Seq(Nat)
        BY <1>1, <1>10, <3>1
      <4> QED
        BY <3>1, <4>1
    <3>2. CASE n # 1
      <4>1. n - 1 \in 1 .. N /\ n - 1 # 0 /\ n # 0
        BY <3>2
      <4>2. f[n] = flatten[n] /\ f[n - 1] = flatten[n - 1]
        BY <4>1
      <4> QED
        BY <1>10, <3>2, <4>2
    <3> QED
      BY <3>1, <3>2
  <2> QED
    BY <1>1, <2>1, <2>2 DEF IsFlat
<1> QED
  BY <1>1, <1>9, <1>12

\* Where an access of a sample is among all of them.
AtPosition(f, a, n, m) ==
  /\ Len(f[n - 1]) + m \in 1 .. Len(f[SampleCount])
  /\ f[SampleCount][Len(f[n - 1]) + m] = a[n][m]

LEMMA FlatPosition ==
  ASSUME NEW a \in [Samples -> Seq(Nat)], NEW f, IsFlat(f, a),
         NEW n \in Samples, NEW m \in 1 .. Len(a[n])
  PROVE  AtPosition(f, a, n, m)
<1>0. SampleCount \in Nat /\ n \in 1 .. SampleCount /\ n - 1 \in 0 .. SampleCount
  BY DEF Samples
<1>1. f[n - 1] \in Seq(Nat) /\ f[n] = f[n - 1] \o a[n] /\ a[n] \in Seq(Nat)
  BY <1>0 DEF IsFlat
<1>2. PICK p : p = Len(f[n - 1]) + m
  OBVIOUS
<1> DEFINE P == {k \in Nat : n + k <= SampleCount =>
                   p \in 1 .. Len(f[n + k]) /\ f[n + k][p] = a[n][m]}
<1>3. 0 \in P
  <2>1. Joined(f[n - 1], a[n], f[n])
    BY <1>1, Concatenated
  <2>2. n + 0 = n
    BY <1>0
  <2> QED
    BY <1>2, <2>1, <2>2 DEF Joined
<1>4. ASSUME NEW k \in Nat, k \in P PROVE k + 1 \in P
  <2>1. SUFFICES ASSUME n + (k + 1) <= SampleCount
                 PROVE  p \in 1 .. Len(f[n + (k + 1)]) /\ f[n + (k + 1)][p] = a[n][m]
    OBVIOUS
  <2>2. /\ n + (k + 1) \in Samples /\ (n + (k + 1)) - 1 = n + k
        /\ n + k \in 0 .. SampleCount /\ n + k <= SampleCount
    BY <1>0, <2>1 DEF Samples
  <2>3. /\ f[n + (k + 1)] = f[n + k] \o a[n + (k + 1)]
        /\ f[n + k] \in Seq(Nat) /\ a[n + (k + 1)] \in Seq(Nat)
    BY <2>2 DEF IsFlat
  <2>4. p \in 1 .. Len(f[n + k]) /\ f[n + k][p] = a[n][m]
    BY <1>4, <2>2
  <2>5. Joined(f[n + k], a[n + (k + 1)], f[n + (k + 1)])
    BY <2>3, Concatenated
  <2> QED
    BY <2>4, <2>5 DEF Joined
<1>5. SampleCount - n \in P
  <2> HIDE DEF P
  <2>1. Nat \subseteq P
    BY <1>3, <1>4, InductionOver
  <2> QED
    BY <1>0, <2>1
<1>6. n + (SampleCount - n) = SampleCount
  BY <1>0
<1> QED
  BY <1>0, <1>2, <1>5, <1>6 DEF AtPosition

\* A tick later, all accesses are a tick older.
TickOlder(s, t) == Len(t) = Len(s) /\ \A k \in 1 .. Len(s) : t[k] = s[k] + 1

LEMMA FlatLater ==
  ASSUME NEW a \in [Samples -> Seq(Nat)], NEW b \in [Samples -> Seq(Nat)],
         \A n \in Samples : TickOlder(a[n], b[n]),
         NEW f, NEW g, IsFlat(f, a), IsFlat(g, b)
  PROVE  TickOlder(f[SampleCount], g[SampleCount])
<1> DEFINE P == {n \in Nat : n <= SampleCount => TickOlder(f[n], g[n])}
<1>1. 0 \in P
  BY DEF IsFlat, TickOlder
<1>2. ASSUME NEW n \in Nat, n \in P PROVE n + 1 \in P
  <2>1. SUFFICES ASSUME n + 1 <= SampleCount PROVE TickOlder(f[n + 1], g[n + 1])
    OBVIOUS
  <2>2. n + 1 \in Samples /\ (n + 1) - 1 = n /\ n \in 0 .. SampleCount /\ n <= SampleCount
    BY <2>1 DEF Samples
  <2>3. /\ f[n + 1] = f[n] \o a[n + 1] /\ g[n + 1] = g[n] \o b[n + 1]
        /\ f[n] \in Seq(Nat) /\ g[n] \in Seq(Nat)
        /\ a[n + 1] \in Seq(Nat) /\ b[n + 1] \in Seq(Nat)
    BY <2>2 DEF IsFlat
  <2>4. TickOlder(f[n], g[n]) /\ TickOlder(a[n + 1], b[n + 1])
    BY <1>2, <2>2
  <2>5. PICK u, v : u = f[n + 1] /\ v = g[n + 1]
    OBVIOUS
  <2>6. Joined(f[n], a[n + 1], u) /\ Joined(g[n], b[n + 1], v)
    BY <2>3, <2>5, Concatenated
  <2>7. Len(v) = Len(u)
    BY <2>4, <2>6 DEF Joined, TickOlder
  <2>8. ASSUME NEW k \in 1 .. Len(u) PROVE v[k] = u[k] + 1
    <3>1. CASE k \in 1 .. Len(f[n])
      BY <2>4, <2>6, <3>1 DEF Joined, TickOlder
    <3>2. CASE \E m \in 1 .. Len(a[n + 1]) : k = Len(f[n]) + m
      <4>1. PICK m \in 1 .. Len(a[n + 1]) : k = Len(f[n]) + m
        BY <3>2
      <4>2. u[k] = a[n + 1][m]
        BY <2>6, <4>1 DEF Joined
      <4>3. v[k] = b[n + 1][m]
        BY <2>4, <2>6, <4>1 DEF Joined, TickOlder
      <4> QED
        BY <2>4, <4>2, <4>3 DEF TickOlder
    <3> QED
      BY <2>6, <3>1, <3>2 DEF Joined
  <2> QED
    BY <2>5, <2>7, <2>8 DEF TickOlder
<1>3. SampleCount \in P
  <2> HIDE DEF P
  <2>1. Nat \subseteq P
    BY <1>1, <1>2, InductionOver
  <2> QED
    BY <2>1
<1> QED
  BY <1>3

LEMMA FlatAges ==
  ASSUME ages \in [Samples -> Seq(Ages)], NEW f, IsFlat(f, ages)
  PROVE  f[SampleCount] \in Seq(Ages)
<1> DEFINE P == {n \in Nat : n <= SampleCount => f[n] \in Seq(Ages)}
<1>1. 0 \in P
  BY DEF IsFlat
<1>2. ASSUME NEW n \in Nat, n \in P PROVE n + 1 \in P
  <2>1. SUFFICES ASSUME n + 1 <= SampleCount PROVE f[n + 1] \in Seq(Ages)
    OBVIOUS
  <2>2. n + 1 \in Samples /\ (n + 1) - 1 = n /\ n <= SampleCount
    BY <2>1 DEF Samples
  <2>3. f[n + 1] = f[n] \o ages[n + 1] /\ f[n] \in Seq(Ages) /\ ages[n + 1] \in Seq(Ages)
    BY <1>2, <2>2 DEF IsFlat
  <2> QED
    BY <2>3
<1>3. SampleCount \in P
  <2> HIDE DEF P
  <2>1. Nat \subseteq P
    BY <1>1, <1>2, InductionOver
  <2> QED
    BY <2>1
<1> QED
  BY <1>3

\* A tick later the statistics of the same accesses are a tick later.
LEMMA RunLater ==
  ASSUME NEW s \in Seq(Ages), NEW l \in Seq(Nat), TickOlder(s, l),
         NEW r, NEW t, IsRun(r, s), IsRun(t, l)
  PROVE  TickLater(r[Len(s)], t[Len(s)])
<1> DEFINE n == Len(s)
           P == {k \in Nat : k <= n => TickLater(r[k], t[k])}
<1>1. n \in Nat
  OBVIOUS
<1>2. 0 \in P
  <2>1. TickLater(NoStats, NoStats)
    BY NoStatsType DEF TickLater, NoStats
  <2> QED
    BY <2>1 DEF IsRun
<1>3. ASSUME NEW k \in Nat, k \in P PROVE k + 1 \in P
  <2>1. SUFFICES ASSUME k + 1 <= n PROVE TickLater(r[k + 1], t[k + 1])
    OBVIOUS
  <2>2. k + 1 \in 1 .. n /\ (k + 1) - 1 = k /\ k <= n
    BY <1>1, <2>1
  <2>3. /\ r[k + 1] = Observed(r[k], s[k + 1])
        /\ t[k + 1] = Observed(t[k], s[k + 1] + 1)
    BY <2>2 DEF IsRun, TickOlder
  <2>4. s[k + 1] \in Ages /\ TickLater(r[k], t[k])
    BY <1>3, <2>2
  <2> QED
    BY <2>3, <2>4, ObservedLater
<1>4. n \in P
  <2> HIDE DEF P
  <2>1. Nat \subseteq P
    BY <1>2, <1>3, InductionOver
  <2> QED
    BY <1>1, <2>1
<1> QED
  BY <1>1, <1>4

-----------------------------------------------------------------------------
(* The ranking.  Next to ScoreInv, the loops keep to the accesses there are.   *)

CountersFollow ==
  /\ j \in Samples => i <= Len(ages[j]) + 1
  /\ j = SampleCount + 1 => i = 1

\* The second loop has put each access it has passed into its window.
Classified(n) ==
  IF pc = "observe" THEN 0
  ELSE IF pc = "done" \/ n < j THEN Len(ages[n])
  ELSE IF n = j THEN i - 1 ELSE 0

WindowsFollow ==
  \A n \in Samples :
    /\ Len(windows[n]) = Classified(n)
    /\ \A m \in 1 .. Len(windows[n]) : windows[n][m] = Window(stats, ages[n][m])

\* The statistics are those of the accesses the first loop has passed.
StatsFollow ==
  \A f, r : IsFlat(f, ages) /\ IsRun(r, f[SampleCount]) =>
    stats = IF pc = "observe" THEN r[Len(f[j - 1]) + (i - 1)]
            ELSE r[Len(f[SampleCount])]

RankInv == ScoreInv /\ CountersFollow /\ WindowsFollow /\ StatsFollow

LEMMA AgesAreSequences ==
  ASSUME ages \in [Samples -> Histories]
  PROVE  /\ ages \in [Samples -> Seq(Ages)] /\ ages \in [Samples -> Seq(Nat)]
         /\ \A n \in Samples : Len(ages[n]) \in Nat
<1>1. ASSUME NEW n \in Samples
      PROVE  ages[n] \in Seq(Ages) /\ ages[n] \in Seq(Nat)
  <2>1. PICK l \in 0 .. HistorySize : ages[n] \in [1 .. l -> Ages]
    BY DEF Histories
  <2>2. ages[n] \in [1 .. l -> Nat]
    BY <2>1 DEF Ages
  <2> QED
    BY <2>1, <2>2
<1> QED
  BY <1>1

LEMMA InitRankInv == ScoreInit => RankInv
<1> SUFFICES ASSUME ScoreInit PROVE RankInv
  OBVIOUS
<1>1. ScoreInv /\ ages \in [Samples -> Seq(Nat)] /\ \A n \in Samples : Len(ages[n]) \in Nat
  BY InitScoreInv, AgesAreSequences DEF ScoreInv, ScoreTypeOK
<1>2. j = 1 /\ i = 1 /\ pc = "observe" /\ stats = NoStats /\ windows = [n \in Samples |-> << >>]
  BY DEF ScoreInit
<1>3. CountersFollow
  BY <1>1, <1>2 DEF CountersFollow
<1>4. WindowsFollow
  BY <1>2 DEF WindowsFollow, Classified
<1>5. StatsFollow
  BY <1>2 DEF StatsFollow, IsFlat, IsRun
<1> QED
  BY <1>1, <1>3, <1>4, <1>5 DEF RankInv

LEMMA ObserveRankInv == RankInv /\ Observe => RankInv'
<1> SUFFICES ASSUME RankInv, Observe PROVE RankInv'
  OBVIOUS
<1>1. ScoreInv'
  BY ObserveScoreInv DEF RankInv
<1>2. /\ ages \in [Samples -> Seq(Nat)] /\ Len(ages[j]) \in Nat
      /\ pc = "observe" /\ j \in Samples /\ i \in 1 .. Len(ages[j])
      /\ stats' = Observed(stats, ages[j][i]) /\ i' = i + 1
      /\ UNCHANGED <<ages, pc, j, windows>>
  BY AgesAreSequences DEF RankInv, ScoreInv, ScoreTypeOK, Observe
<1>3. CountersFollow'
  BY <1>2 DEF CountersFollow, Samples
<1>4. WindowsFollow'
  <2>1. \A n \in Samples : Len(windows[n]) = 0
    BY <1>2 DEF RankInv, WindowsFollow, Classified
  <2> QED
    BY <1>2, <2>1 DEF WindowsFollow, Classified
<1>5. StatsFollow'
  <2> SUFFICES ASSUME NEW f, NEW r, IsFlat(f, ages), IsRun(r, f[SampleCount])
               PROVE  stats' = r[Len(f[j - 1]) + ((i + 1) - 1)]
    BY <1>2 DEF StatsFollow
  <2> DEFINE k == Len(f[j - 1]) + i
  <2>1. k \in 1 .. Len(f[SampleCount]) /\ f[SampleCount][k] = ages[j][i]
    <3>0. ages \in [Samples -> Seq(Nat)] /\ j \in Samples /\ i \in 1 .. Len(ages[j])
      BY <1>2
    <3>1. AtPosition(f, ages, j, i)
      BY <3>0, FlatPosition, Zenon
    <3> QED
      BY <3>1 DEF AtPosition
  <2>2. stats = r[Len(f[j - 1]) + (i - 1)]
    BY <1>2 DEF RankInv, StatsFollow
  <2>3. Len(f[j - 1]) \in Nat
    BY <1>2 DEF IsFlat, Samples
  <2>4. k - 1 = Len(f[j - 1]) + (i - 1) /\ k = Len(f[j - 1]) + ((i + 1) - 1)
    BY <1>2, <2>3
  <2>5. r[k] = Observed(r[k - 1], f[SampleCount][k])
    BY <2>1 DEF IsRun
  <2> HIDE DEF k
  <2> QED
    BY <1>2, <2>1, <2>2, <2>4, <2>5
<1> QED
  BY <1>1, <1>3, <1>4, <1>5 DEF RankInv

LEMMA ClassifyRankInv == RankInv /\ Classify => RankInv'
<1> SUFFICES ASSUME RankInv, Classify PROVE RankInv'
  OBVIOUS
<1>1. ScoreInv'
  BY ClassifyScoreInv DEF RankInv
<1> DEFINE w == Window(stats, ages[j][i])
<1>2. /\ \A n \in Samples : Len(ages[n]) \in Nat
      /\ pc = "score" /\ j \in Samples /\ i \in 1 .. Len(ages[j])
      /\ windows \in [Samples -> Seq(1 .. 5)]
      /\ windows' = [windows EXCEPT ![j] = Append(@, w)] /\ i' = i + 1
      /\ UNCHANGED <<ages, pc, j, stats>>
  BY AgesAreSequences DEF RankInv, ScoreInv, ScoreTypeOK, Classify
<1>3. CountersFollow'
  BY <1>2 DEF CountersFollow, Samples
<1> HIDE DEF w
<1>4. WindowsFollow'
  <2> SUFFICES ASSUME NEW n \in Samples
               PROVE  /\ Len(windows'[n]) = Classified(n)'
                      /\ \A m \in 1 .. Len(windows'[n]) :
                           windows'[n][m] = Window(stats, ages[n][m])
    BY <1>2 DEF WindowsFollow
  <2>1. /\ Len(windows[n]) = Classified(n)
        /\ \A m \in 1 .. Len(windows[n]) : windows[n][m] = Window(stats, ages[n][m])
    BY DEF RankInv, WindowsFollow
  <2>2. CASE n = j
    <3>1. /\ windows'[n] = Append(windows[n], w) /\ windows[n] \in Seq(1 .. 5)
          /\ Len(windows[n]) = i - 1
      BY <1>2, <2>1, <2>2 DEF Classified, Samples
    <3>2. Len(windows'[n]) = i /\ windows'[n][i] = w
      BY <1>2, <3>1
    <3>3. \A m \in 1 .. i - 1 : windows'[n][m] = windows[n][m]
      BY <1>2, <3>1
    <3>4. Classified(n)' = i
      BY <1>2, <2>2 DEF Classified, Samples
    <3>5. ASSUME NEW m \in 1 .. Len(windows'[n])
          PROVE  windows'[n][m] = Window(stats, ages[n][m])
      <4>1. CASE m = i
        BY <2>2, <3>2, <4>1 DEF w
      <4>2. CASE m # i
        <5>1. m \in 1 .. i - 1
          BY <1>2, <3>2, <4>2
        <5> QED
          BY <2>1, <3>1, <3>3, <5>1
      <4> QED
        BY <4>1, <4>2
    <3> QED
      BY <3>2, <3>4, <3>5
  <2>3. CASE n # j
    <3>1. windows'[n] = windows[n] /\ Classified(n)' = Classified(n)
      BY <1>2, <2>3 DEF Classified
    <3> QED
      BY <2>1, <3>1
  <2> QED
    BY <2>2, <2>3
<1>5. StatsFollow'
  BY <1>2 DEF RankInv, StatsFollow
<1> QED
  BY <1>1, <1>3, <1>4, <1>5 DEF RankInv

LEMMA CountersRankInv == RankInv /\ (NextSample \/ NextLoop) => RankInv'
<1> SUFFICES ASSUME RankInv, NextSample \/ NextLoop PROVE RankInv'
  OBVIOUS
<1>1. ScoreInv'
  BY CountersScoreInv DEF RankInv
<1>2. /\ ages \in [Samples -> Seq(Nat)] /\ \A n \in Samples : Len(ages[n]) \in Nat
      /\ j \in 1 .. SampleCount + 1 /\ i \in Nat /\ SampleCount \in Nat
      /\ UNCHANGED <<ages, stats, windows>> /\ i' = 1
  BY AgesAreSequences DEF RankInv, ScoreInv, ScoreTypeOK, NextSample, NextLoop
<1>3. CountersFollow'
  BY <1>2 DEF CountersFollow
<1>4. CASE NextSample
  <2>1. /\ pc \in {"observe", "score"} /\ pc' = pc /\ j \in Samples
        /\ j' = j + 1 /\ i = Len(ages[j]) + 1
    BY <1>2, <1>4 DEF NextSample, RankInv, CountersFollow
  <2>2. \A n \in Samples : Classified(n)' = Classified(n)
    BY <1>2, <2>1 DEF Classified, Samples
  <2>3. WindowsFollow'
    BY <1>2, <2>2 DEF RankInv, WindowsFollow
  <2>4. StatsFollow'
    <3> SUFFICES ASSUME NEW f, NEW r, IsFlat(f, ages), IsRun(r, f[SampleCount]), pc = "observe"
                 PROVE  stats = r[Len(f[(j + 1) - 1]) + (1 - 1)]
      BY <1>2, <2>1 DEF RankInv, StatsFollow
    <3>0. j - 1 \in 0 .. SampleCount /\ (j + 1) - 1 = j
      BY <1>2, <2>1 DEF Samples
    <3>1. f[j] = f[j - 1] \o ages[j] /\ f[j - 1] \in Seq(Nat) /\ ages[j] \in Seq(Nat)
      BY <1>2, <2>1, <3>0 DEF IsFlat
    <3>2. Len(f[j]) = Len(f[j - 1]) + Len(ages[j]) /\ Len(f[j]) \in Nat
      <4>1. Joined(f[j - 1], ages[j], f[j])
        BY <3>1, Concatenated
      <4>2. /\ Len(f[j]) = Len(f[j - 1]) + Len(ages[j])
            /\ Len(f[j - 1]) \in Nat /\ Len(ages[j]) \in Nat
        BY <4>1, Zenon DEF Joined
      <4>3. Len(f[j]) \in Nat
        <5>1. j \in 0 .. SampleCount
          BY <2>1 DEF Samples
        <5>2. f[j] \in Seq(Nat)
          BY <5>1 DEF IsFlat
        <5> QED
          BY <5>2
      <4> QED
        BY <4>2, <4>3, Zenon
    <3>3. stats = r[Len(f[j - 1]) + (i - 1)]
      BY DEF RankInv, StatsFollow
    <3>4. i - 1 = Len(ages[j]) /\ Len(f[j]) + (1 - 1) = Len(f[j])
      BY <1>2, <2>1, <3>2
    <3> QED
      BY <3>0, <3>2, <3>3, <3>4
  <2> QED
    BY <1>1, <1>3, <2>3, <2>4 DEF RankInv
<1>5. CASE NextLoop
  <2>1. /\ pc \in {"observe", "score"} /\ pc' = IF pc = "observe" THEN "score" ELSE "done"
        /\ j = SampleCount + 1 /\ j' = 1 /\ i = 1
    BY <1>5 DEF NextLoop, RankInv, CountersFollow
  <2>2. \A n \in Samples : Classified(n)' = Classified(n)
    BY <1>2, <2>1 DEF Classified, Samples
  <2>3. WindowsFollow'
    BY <1>2, <2>2 DEF RankInv, WindowsFollow
  <2>4. StatsFollow'
    <3> SUFFICES ASSUME NEW f, NEW r, IsFlat(f, ages), IsRun(r, f[SampleCount])
                 PROVE  stats = r[Len(f[SampleCount])]
      BY <1>2, <2>1 DEF StatsFollow
    <3>1. j - 1 = SampleCount /\ f[SampleCount] \in Seq(Nat)
      BY <1>2, <2>1 DEF IsFlat
    <3>2. Len(f[SampleCount]) + (i - 1) = Len(f[SampleCount])
      BY <2>1, <3>1
    <3> QED
      BY <2>1, <3>1, <3>2 DEF RankInv, StatsFollow
  <2> QED
    BY <1>1, <1>3, <2>3, <2>4 DEF RankInv
<1> QED
  BY <1>4, <1>5

LEMMA RankInvCorrect == ScoreSpec => []RankInv
<1>1. RankInv /\ UNCHANGED scoreVars => RankInv'
  <2> SUFFICES ASSUME RankInv, UNCHANGED scoreVars PROVE RankInv'
    OBVIOUS
  <2>1. UNCHANGED <<ages, pc, j, i, stats, windows>>
    BY DEF scoreVars
  <2>2. ScoreInv'
    BY <2>1 DEF RankInv, ScoreInv, ScoreTypeOK, PopulationStats, EveryAccessCounted, AgesCovered, Behind
  <2>3. CountersFollow' /\ WindowsFollow'
    BY <2>1 DEF RankInv, CountersFollow, WindowsFollow, Classified
  <2>4. StatsFollow'
    BY <2>1 DEF RankInv, StatsFollow
  <2> QED
    BY <2>2, <2>3, <2>4 DEF RankInv
<1>2. RankInv /\ [ScoreNext]_scoreVars => RankInv'
  BY <1>1, ObserveRankInv, ClassifyRankInv, CountersRankInv DEF ScoreNext
<1> QED
  BY InitRankInv, <1>2, PTL DEF ScoreSpec

LEMMA WindowsAtTheEnd ==
  ASSUME RankInv, pc = "done", NEW n \in Samples
  PROVE  /\ ages[n] \in Seq(Ages) /\ Len(ages[n]) \in Nat
         /\ windows[n] \in Seq(1 .. 4) /\ Len(windows[n]) = Len(ages[n])
         /\ \A m \in 1 .. Len(ages[n]) :
              ages[n][m] \in Ages /\ windows[n][m] = Window(stats, ages[n][m])
<1>1. ages[n] \in Seq(Ages) /\ Len(ages[n]) \in Nat /\ windows[n] \in Seq(1 .. 5)
  BY AgesAreSequences DEF RankInv, ScoreInv, ScoreTypeOK
<1>2. /\ Len(windows[n]) = Len(ages[n])
      /\ \A m \in 1 .. Len(windows[n]) : windows[n][m] = Window(stats, ages[n][m])
  BY DEF RankInv, WindowsFollow, Classified
<1>3. \A m \in 1 .. Len(windows[n]) : windows[n][m] \in 1 .. 4
  BY DEF RankInv, ScoreInv, EveryAccessCounted
<1>4. windows[n] \in Seq(1 .. 4)
  BY <1>1, <1>3
<1> QED
  BY <1>1, <1>2, <1>4

\* Older accesses fall in later windows, and those weigh less: the key with
\* the older accesses is no worse a candidate.
THEOREM OlderGoesFirstCorrect == ScoreSpec => []OlderGoesFirst
<1>1. RankInv => OlderGoesFirst
  <2> SUFFICES ASSUME RankInv, pc = "done", NEW a \in Samples, NEW b \in Samples,
                      Older(ages[a], ages[b])
               PROVE  Score(windows[a]) >= Score(windows[b])
    BY DEF OlderGoesFirst
  <2>1. windows[a] \in Seq(1 .. 4) /\ windows[b] \in Seq(1 .. 4)
    BY WindowsAtTheEnd
  <2>2. Len(windows[a]) = Len(windows[b])
    BY WindowsAtTheEnd DEF Older
  <2>3. ASSUME NEW m \in 1 .. Len(windows[a])
        PROVE  windows[a][m] >= windows[b][m]
    <3>1. m \in 1 .. Len(ages[a]) /\ m \in 1 .. Len(ages[b])
      BY WindowsAtTheEnd DEF Older
    <3>2. ages[a][m] \in Nat /\ ages[b][m] \in Nat /\ ages[b][m] <= ages[a][m]
      BY <3>1, WindowsAtTheEnd DEF Older, Ages
    <3>3. stats \in StatsType
      BY DEF RankInv, ScoreInv, ScoreTypeOK, StatsType
    <3>4. Window(stats, ages[b][m]) <= Window(stats, ages[a][m])
      BY <3>2, <3>3, OlderIsLater
    <3>5. /\ windows[a][m] = Window(stats, ages[a][m])
          /\ windows[b][m] = Window(stats, ages[b][m])
      BY <3>1, WindowsAtTheEnd
    <3>6. windows[a][m] \in 1 .. 4 /\ windows[b][m] \in 1 .. 4
      BY <2>1, <2>2
    <3> QED
      BY <3>4, <3>5, <3>6
  <2> QED
    BY <2>1, <2>2, <2>3, LaterWindowsScoreMore
<1> QED
  BY <1>1, RankInvCorrect, PTL

LEMMA Reversed ==
  ASSUME NEW s \in Seq(Ages), NEW n, Len(s) = n
  PROVE  /\ Reverse(s) \in Seq(Ages) /\ Len(Reverse(s)) = n
         /\ \A k \in 1 .. n : Reverse(s)[k] = s[n - k + 1]
<1>1. Reverse(s) = [k \in 1 .. n |-> s[n - k + 1]] /\ n \in Nat
  BY DEF Reverse
<1>2. \A k \in 1 .. n : n - k + 1 \in 1 .. Len(s) /\ s[n - k + 1] \in Ages
  BY <1>1
<1> QED
  BY <1>1, <1>2

\* Every access adds to what keeps a key: a key with all accesses of another
\* one and more is a worse candidate.
THEOREM MoreAccessesStayCorrect == ScoreSpec => []MoreAccessesStay
<1>1. RankInv => MoreAccessesStay
  <2> SUFFICES ASSUME RankInv, pc = "done", NEW a \in Samples, NEW b \in Samples,
                      Len(ages[a]) < Len(ages[b]), IsSuffix(ages[a], ages[b])
               PROVE  Score(windows[b]) < Score(windows[a])
    BY DEF MoreAccessesStay
  <2> DEFINE n == Len(ages[a])
             l == Len(ages[b])
  <2>1. /\ Len(ages[a]) = n /\ Len(ages[b]) = l
        /\ windows[a] \in Seq(1 .. 4) /\ windows[b] \in Seq(1 .. 4)
        /\ Len(windows[a]) = n /\ Len(windows[b]) = l
        /\ n \in Nat /\ l \in Nat /\ n < l
        /\ ages[a] \in Seq(Ages) /\ ages[b] \in Seq(Ages)
    BY WindowsAtTheEnd
  <2> HIDE DEF n, l
  <2>2. ASSUME NEW m \in 1 .. n PROVE ages[b][l - n + m] = ages[a][m]
    <3>1. PICK x, y : x = Reverse(ages[a]) /\ y = Reverse(ages[b])
      OBVIOUS
    <3>2. /\ x \in Seq(Ages) /\ y \in Seq(Ages) /\ Len(x) = n /\ Len(y) = l
          /\ \A k \in 1 .. n : x[k] = ages[a][n - k + 1]
          /\ \A k \in 1 .. l : y[k] = ages[b][l - k + 1]
      BY <2>1, <3>1, Reversed
    <3>3. SubSeq(x, 1, n) = SubSeq(y, 1, n)
      BY <2>1, <3>1, <3>2 DEF IsSuffix, IsPrefix
    <3>4. \A k \in 1 .. n : SubSeq(x, 1, n)[k] = x[k] /\ SubSeq(y, 1, n)[k] = y[k]
      BY <2>1, <3>2
    <3>5. PICK q \in 1 .. n : q \in 1 .. l /\ n - q + 1 = m /\ l - q + 1 = l - n + m
      <4>1. n - m + 1 \in 1 .. n /\ n - m + 1 \in 1 .. l
        BY <2>1
      <4>2. n - (n - m + 1) + 1 = m /\ l - (n - m + 1) + 1 = l - n + m
        BY <2>1
      <4> QED
        BY <4>1, <4>2
    <3>6. x[q] = y[q]
      BY <3>3, <3>4
    <3>7. x[q] = ages[a][m] /\ y[q] = ages[b][l - n + m]
      <4>1. x[q] = ages[a][n - q + 1] /\ y[q] = ages[b][l - q + 1]
        BY <3>2, <3>5
      <4> QED
        BY <3>5, <4>1, Zenon
    <3> QED
      BY <3>6, <3>7
  <2>3. ASSUME NEW m \in 1 .. n PROVE windows[b][l - n + m] = windows[a][m]
    <3>1. l - n + m \in 1 .. l
      BY <2>1
    <3> QED
      BY <2>1, <2>2, <3>1, WindowsAtTheEnd
  <2>4. \A m \in 1 .. Len(windows[a]) :
          windows[b][Len(windows[b]) - Len(windows[a]) + m] = windows[a][m]
    BY <2>1, <2>3
  <2> QED
    BY <2>1, <2>4, MoreAccessesScoreLess
<1> QED
  BY <1>1, RankInvCorrect, PTL

\* All ages grow by the same, and so do the minimum, the maximum and the
\* mean, while the variance stays: every access keeps its window.
THEOREM LaterIsTheSameCorrect == ScoreSpec => []LaterIsTheSame
<1>1. RankInv => LaterIsTheSame
  <2> SUFFICES ASSUME RankInv, pc = "done", NEW n \in Samples, NEW m \in 1 .. Len(ages[n])
               PROVE  windows[n][m] = Window(StatsOf(Later(ages)), ages[n][m] + 1)
    BY DEF LaterIsTheSame
  <2> DEFINE b == Later(ages)
  <2>1. /\ ages \in [Samples -> Seq(Ages)] /\ ages \in [Samples -> Seq(Nat)]
        /\ \A x \in Samples : Len(ages[x]) \in Nat
        /\ SampleCount \in Nat /\ SampleCount > 0
    BY AgesAreSequences DEF RankInv, ScoreInv, ScoreTypeOK, Samples
  <2>2. /\ b \in [Samples -> Seq(Nat)]
        /\ \A x \in Samples : TickOlder(ages[x], b[x])
    <3>1. ASSUME NEW x \in Samples
          PROVE  b[x] \in Seq(Nat) /\ TickOlder(ages[x], b[x])
      <4>1. b[x] = [k \in 1 .. Len(ages[x]) |-> ages[x][k] + 1]
        BY <2>1 DEF Later
      <4>2. \A k \in 1 .. Len(ages[x]) : ages[x][k] + 1 \in Nat
        BY <2>1
      <4> QED
        BY <2>1, <4>1, <4>2 DEF TickOlder
    <3>2. b = [x \in Samples |-> b[x]]
      BY DEF Later
    <3> HIDE DEF b
    <3> QED
      BY <3>1, <3>2
  <2> HIDE DEF b
  <2>3. [x \in Samples |-> ages[x]] = ages /\ [x \in Samples |-> b[x]] = b
    BY <2>1, <2>2
  <2>4. PICK f : IsFlat(f, ages)
    BY <2>1, FlattenIsFlat
  <2>5. PICK g : IsFlat(g, b) /\ FlattenSeq(b) = g[SampleCount]
    BY <2>1, <2>2, FlattenIsFlat
  <2>6. PICK s, l : s = f[SampleCount] /\ l = g[SampleCount]
    OBVIOUS
  <2>7. s \in Seq(Nat) /\ l \in Seq(Nat)
    BY <2>1, <2>4, <2>5, <2>6 DEF IsFlat
  <2>8. TickOlder(s, l)
    BY <2>1, <2>2, <2>4, <2>5, <2>6, FlatLater
  <2>9. s \in Seq(Ages)
    BY <2>1, <2>4, <2>6, FlatAges
  <2>10. PICK r : IsRun(r, s)
    BY <2>7, FoldIsRun
  <2>11. PICK t : IsRun(t, l) /\ FoldLeft(Observed, NoStats, l) = t[Len(l)]
    BY <2>7, FoldIsRun
  <2>12. stats = r[Len(s)]
    BY <2>4, <2>6, <2>10 DEF RankInv, StatsFollow
  <2>13. StatsOf(b) = t[Len(l)]
    BY <2>3, <2>5, <2>6, <2>11 DEF StatsOf
  <2>14. TickLater(stats, StatsOf(b))
    <3>1. TickLater(r[Len(s)], t[Len(s)])
      BY <2>7, <2>8, <2>9, <2>10, <2>11, RunLater
    <3>2. Len(l) = Len(s)
      BY <2>8 DEF TickOlder
    <3> QED
      BY <2>12, <2>13, <3>1, <3>2
  <2>15. stats.count > 0 /\ ages[n][m] \in Ages
    BY <2>1 DEF RankInv, ScoreInv, AgesCovered
  <2>16. Window(StatsOf(b), ages[n][m] + 1) = Window(stats, ages[n][m])
    BY <2>14, <2>15, WindowLater
  <2> QED
    BY <2>16, WindowsAtTheEnd DEF b
<1> QED
  BY <1>1, RankInvCorrect, PTL

\* The scores rank as the policy means it, for any number of samples and any
\* histories.
THEOREM ScoresRankCorrect == ScoreSpec => []ScoresRank
  BY OlderGoesFirstCorrect, MoreAccessesStayCorrect, LaterIsTheSameCorrect, PTL DEF ScoresRank

-----------------------------------------------------------------------------
(* The counter of LFU.                                                     *)

LEMMA Division ==
  ASSUME NEW m \in Nat \ {0}, NEW a \in Nat
  PROVE  a \div m \in Nat /\ a % m \in 0 .. m - 1 /\ a = m * (a \div m) + (a % m)
  OBVIOUS

LEMMA MultiplesApart ==
  ASSUME NEW m \in Nat \ {0}, NEW q \in Int, NEW r \in Int, q > r
  PROVE  m * q >= m * r + m
<1>1. PICK d \in Nat : q = r + 1 + d
  <2> WITNESS q - r - 1 \in Nat
  <2> QED OBVIOUS
<1>2. m * d \in Nat
  OBVIOUS
<1>3. m * q = m * r + m + m * d
  BY <1>1
<1> QED
  BY <1>2, <1>3

LEMMA QuotientsAscend ==
  ASSUME NEW a \in Nat, NEW b \in Nat, NEW d \in Nat \ {0}, a <= b
  PROVE  a \div d \in Nat /\ a \div d <= b \div d
  OBVIOUS

\* The minutes between two times less than a turn apart, from what the field
\* keeps of both.
LEMMA ElapsedIsFair ==
  ASSUME NEW at \in Nat, NEW now \in Nat, at <= now, now - at < Minutes
  PROVE  /\ LfuElapsed(LfuTime(now), LfuTime(at)) \in {now - at, now - at - 1}
         /\ LfuElapsed(LfuTime(now), LfuTime(at)) \in Nat
<1> USE AccessWordAssumption
<1> DEFINE a == at \div Minutes
           n == now \div Minutes
<1>1. /\ a \in Nat /\ LfuTime(at) \in 0 .. Minutes - 1 /\ at = Minutes * a + LfuTime(at)
      /\ n \in Nat /\ LfuTime(now) \in 0 .. Minutes - 1 /\ now = Minutes * n + LfuTime(now)
  BY Division DEF LfuTime
<1> HIDE DEF a, n
<1> DEFINE x == Minutes * a
           y == Minutes * n
<1>2. x \in Int /\ y \in Int /\ at = x + LfuTime(at) /\ now = y + LfuTime(now)
  BY <1>1
<1>3. CASE n = a
  <2>1. LfuTime(now) - LfuTime(at) = now - at
    BY <1>1, <1>2, <1>3
  <2> QED
    BY <1>1, <2>1 DEF LfuElapsed
<1>4. CASE n = a + 1
  <2>1. y = x + Minutes
    BY <1>1, <1>4
  <2>2. LfuTime(now) - LfuTime(at) = now - at - Minutes
    BY <1>1, <1>2, <2>1
  <2> HIDE DEF x, y
  <2> QED
    BY <1>1, <2>2 DEF LfuElapsed
<1>5. CASE n < a
  <2>1. x >= y + Minutes
    BY <1>1, <1>5, MultiplesApart
  <2> HIDE DEF x, y
  <2> QED
    BY <1>1, <1>2, <2>1
<1>6. CASE n > a + 1
  <2>1. y >= Minutes * (a + 1) + Minutes
    BY <1>1, <1>6, MultiplesApart
  <2>2. Minutes * (a + 1) = x + Minutes
    BY <1>1
  <2> HIDE DEF x, y
  <2> QED
    BY <1>1, <1>2, <2>1, <2>2
<1> QED
  BY <1>1, <1>3, <1>4, <1>5, <1>6

LEMMA DecayedIsFair ==
  ASSUME NEW count \in 0 .. MaxCount, NEW at \in Nat, NEW now \in Nat,
         NEW decay \in Nat, at <= now, now - at < Minutes
  PROVE  LET fair == IF decay = 0 THEN 0 ELSE (now - at) \div decay
         IN  /\ fair \in Nat
             /\ Decayed(Word(LfuTime(at), count), LfuTime(now), decay) \in 0 .. count
             /\ Decayed(Word(LfuTime(at), count), LfuTime(now), decay) >= count - fair
<1> USE AccessWordAssumption
<1> DEFINE elapsed == LfuElapsed(LfuTime(now), LfuTime(at))
           periods == IF decay = 0 THEN 0 ELSE elapsed \div decay
           fair == IF decay = 0 THEN 0 ELSE (now - at) \div decay
<1>1. elapsed \in Nat /\ elapsed <= now - at /\ now - at \in Nat
  BY ElapsedIsFair
<1> HIDE DEF elapsed
<1>2. periods \in Nat /\ fair \in Nat /\ periods <= fair
  BY <1>1, QuotientsAscend, Division
<1>3. Decayed(Word(LfuTime(at), count), LfuTime(now), decay)
        = IF periods > count THEN 0 ELSE count - periods
  BY DEF Decayed, Word, elapsed
<1> HIDE DEF periods, fair
<1>4. /\ fair \in Nat
      /\ (IF periods > count THEN 0 ELSE count - periods) \in 0 .. count
      /\ (IF periods > count THEN 0 ELSE count - periods) >= count - fair
  BY <1>2
<1> QED
  BY <1>3, <1>4 DEF fair

LEMMA LargerOfZero ==
  ASSUME NEW x \in Int
  PROVE  Max({0, x}) \in {0, x} /\ Max({0, x}) >= 0 /\ Max({0, x}) >= x
  BY DEF Max
\* The counter after an access: one more at most, and still in its byte.
LEMMA LogIncrIsSmall ==
  ASSUME NEW count \in 0 .. MaxCount, NEW c \in LogIncr(count)
  PROVE  c \in count .. count + 1 /\ c <= MaxCount
  BY AccessWordAssumption DEF LogIncr

(***************************************************************************)
(* A call keeps its input until it returns what the functions make of it.  *)
(***************************************************************************)
LfuInputs == [count : 0 .. MaxCount, at : Clocks, now : Clocks, decay : Decays]
LfuResult(x) ==
  LET w == Word(LfuTime(x.at), x.count)
      now == LfuTime(x.now)
  IN [elapsed |-> LfuElapsed(now, w.time), decayed |-> Decayed(w, now, x.decay),
      accessed |-> Accessed(w, now, x.decay)]
CallInv ==
  /\ call = [fn |-> call.fn, in |-> call.in, out |-> call.out]
  /\ call.fn = "lfu" => call.in \in LfuInputs /\ call.out \in {<< >>, <<LfuResult(call.in)>>}

LEMMA CallsAreInputs ==
  ASSUME NEW fn, NEW inputs, call \in Call(fn, inputs), fn = "lfu" => inputs = LfuInputs
  PROVE  CallInv
<1>1. PICK x \in inputs : call = [fn |-> fn, in |-> x, out |-> << >>]
  BY DEF Call
<1> QED
  BY <1>1 DEF CallInv

LEMMA CallInvInit == CallInit => CallInv
<1> DEFINE dumps == {[server |-> s, loader |-> l] : s \in Servers, l \in Loaders}
<1> SUFFICES ASSUME CallInit PROVE CallInv
  OBVIOUS
<1>1. \/ call \in Call("length", Lengths) \/ call \in Call("number", Numbers)
      \/ call \in Call("string", Strings) \/ call \in Call("double", Doubles)
      \/ call \in Call("dump", dumps)
      \/ call \in Call("keys", Forms) \/ call \in Call("channels", ChannelForms)
      \/ call \in Call("lfu", LfuInputs)
  BY DEF CallInit, LfuInputs
<1> HIDE DEF dumps
<1> QED
  BY <1>1, CallsAreInputs

LEMMA ReturnKeepsCallInv ==
  ASSUME CallInv, NEW fn, NEW result, Return(fn, result),
         fn = "lfu" => result = LfuResult(call.in)
  PROVE  CallInv'
<1>1. call' = [fn |-> call.fn, in |-> call.in, out |-> <<result>>] /\ call.fn = fn
  BY DEF CallInv, Return
<1>2. call'.fn = call.fn /\ call'.in = call.in /\ call'.out = <<result>>
  BY <1>1
<1>3. CASE fn = "lfu"
  <2>1. call'.out = <<LfuResult(call'.in)>>
    BY <1>2, <1>3
  <2> QED
    BY <1>1, <1>2, <1>3, <2>1 DEF CallInv
<1>4. CASE fn # "lfu"
  BY <1>1, <1>2, <1>4 DEF CallInv
<1> QED
  BY <1>3, <1>4

LEMMA CallInvStep == CallInv /\ [CallNext]_call => CallInv'
<1> SUFFICES ASSUME CallInv, [CallNext]_call PROVE CallInv'
  OBVIOUS
<1>1. CASE ReturnLength
  BY <1>1, ReturnKeepsCallInv DEF ReturnLength
<1>2. CASE ReturnNumber
  BY <1>2, ReturnKeepsCallInv DEF ReturnNumber
<1>3. CASE ReturnString
  BY <1>3, ReturnKeepsCallInv DEF ReturnString
<1>4. CASE ReturnDouble
  BY <1>4, ReturnKeepsCallInv DEF ReturnDouble
<1>5. CASE ReturnDump
  BY <1>5, ReturnKeepsCallInv DEF ReturnDump
<1>6. CASE ReturnKeys
  BY <1>6, ReturnKeepsCallInv DEF ReturnKeys
<1>7. CASE ReturnChannels
  BY <1>7, ReturnKeepsCallInv DEF ReturnChannels
<1>8. CASE ReturnLfu
  <2>1. Return("lfu", LfuResult(call.in))
    BY <1>8 DEF ReturnLfu, LfuResult
  <2> QED
    BY <2>1, ReturnKeepsCallInv
<1>9. CASE UNCHANGED call
  BY <1>9 DEF CallInv
<1> QED
  BY <1>1, <1>2, <1>3, <1>4, <1>5, <1>6, <1>7, <1>8, <1>9 DEF CallNext

\* What an access makes of the counter is within what its time allows.
LEMMA CallInvFair == CallInv => DecayIsFair
<1> SUFFICES ASSUME CallInv, Returned("lfu"), call.in.at <= call.in.now,
                    call.in.now - call.in.at < Minutes
             PROVE  LET true == call.in.now - call.in.at
                        fair == IF call.in.decay = 0 THEN 0 ELSE true \div call.in.decay
                    IN /\ Out.elapsed \in {true, true - 1}
                       /\ Out.decayed \in Max({0, call.in.count - fair}) .. call.in.count
                       /\ \A w \in Out.accessed : /\ w.count \in Out.decayed .. Out.decayed + 1
                                                  /\ w.count <= MaxCount
                                                  /\ w.time = LfuTime(call.in.now)
  BY DEF DecayIsFair
<1> DEFINE x == call.in
           fair == IF x.decay = 0 THEN 0 ELSE (x.now - x.at) \div x.decay
           word == Word(LfuTime(x.at), x.count)
           decayed == Decayed(word, LfuTime(x.now), x.decay)
<1>1. x \in LfuInputs /\ Out = LfuResult(x)
  BY DEF CallInv, Returned, Out
<1>2. /\ x.count \in 0 .. MaxCount /\ x.at \in Nat /\ x.now \in Nat /\ x.decay \in Nat
  BY <1>1, LfuInputsAssumption DEF LfuInputs
<1>3. /\ Out.elapsed = LfuElapsed(LfuTime(x.now), LfuTime(x.at))
      /\ Out.decayed = decayed
      /\ Out.accessed = Accessed(word, LfuTime(x.now), x.decay)
  BY <1>1 DEF LfuResult, Word
<1>4. Out.elapsed \in {x.now - x.at, x.now - x.at - 1}
  BY <1>2, <1>3, ElapsedIsFair
<1>5. fair \in Nat /\ decayed \in 0 .. x.count /\ decayed >= x.count - fair
  BY <1>2, DecayedIsFair
<1>6. decayed \in Max({0, x.count - fair}) .. x.count
  <2> HIDE DEF fair, decayed
  <2>1. x.count - fair \in Int
    BY <1>2, <1>5
  <2>2. Max({0, x.count - fair}) \in {0, x.count - fair}
    BY <2>1, LargerOfZero
  <2> QED
    BY <1>2, <1>5, <2>1, <2>2
<1>7. ASSUME NEW w \in Out.accessed
      PROVE  /\ w.count \in decayed .. decayed + 1
             /\ w.count <= MaxCount
             /\ w.time = LfuTime(x.now)
  <2>1. PICK c \in LogIncr(decayed) : w = Word(LfuTime(x.now), c)
    BY <1>3 DEF Accessed
  <2>2. w.count = c /\ w.time = LfuTime(x.now)
    BY <2>1 DEF Word
  <2>3. decayed \in 0 .. MaxCount
    <3> HIDE DEF decayed
    <3> QED
      BY <1>2, <1>5, AccessWordAssumption
  <2> HIDE DEF decayed
  <2> QED
    BY <2>1, <2>2, <2>3, LogIncrIsSmall
<1> QED
  BY <1>3, <1>4, <1>6, <1>7

(***************************************************************************)
(* Whatever the times and the decay time, the minutes an                   *)
(* object was not accessed are never overestimated and, but for the one    *)
(* lost in a wrap, not underestimated; the counter never decays faster     *)
(* than its decay time says, one access adds at most one, and the counter  *)
(* stays in its byte (evict.c:516-552).                                    *)
(***************************************************************************)
THEOREM DecayIsFairCorrect == CallSpec => []DecayIsFair
<1> QED
  BY CallInvInit, CallInvStep, CallInvFair, PTL DEF CallSpec

-----------------------------------------------------------------------------
(* The eviction pool.                                                      *)

(***************************************************************************)
(* What a caller of the insertion may assume of an array, and of the slot  *)
(* at which the search over it stopped.                                    *)
(***************************************************************************)
Shaped(p) == p \in [Slots -> Entries] /\ Prefix(p) /\ CleanTail(p)

USE PoolSizeAssumption, NullAssumption, RanksAssumption

\* Filling a slot's entry yields an occupied entry with the rank asked for.
LEMMA FilledEntry ==
  ASSUME NEW e \in Entries, NEW f \in RankFields, NEW key \in Keys,
         NEW r \in Ranks(f)
  PROVE  /\ Filled(e, f, key, r) \in Entries
         /\ Filled(e, f, key, r).key # NULL
         /\ Rank(Filled(e, f, key, r), f) = r
  BY DEF Filled, Entries, RankFields, Ranks, Rank

\* The rank of an entry is an integer.
LEMMA RankIsInt ==
  ASSUME NEW e \in Entries, NEW f \in RankFields
  PROVE  Rank(e, f) \in Int
<1>1. e.idle \in IdleRanks /\ e.score \in ScoreRanks
  BY DEF Entries
<1>2. IdleRanks \subseteq Int /\ ScoreRanks \subseteq Int
  OBVIOUS
<1> QED
  BY <1>1, <1>2 DEF Rank

(***************************************************************************)
(* The insertion preserves the shape: the search stops inside the occupied *)
(* prefix or right after it, so the new entry never leaves a hole, and the *)
(* right shift drops only an empty slot.                                   *)
(***************************************************************************)
LEMMA InsertKeepsShape ==
  ASSUME NEW p, Shaped(p), NEW f \in RankFields, NEW k, NEW key \in Keys,
         NEW r \in Ranks(f), StopsAt(p, f, k, r)
  PROVE  Shaped(Inserted(p, f, k, key, r))
<1> DEFINE q == Inserted(p, f, k, key, r)
<1>0. k \in 0 .. PoolSize /\ LastSlot \in Slots /\ Slots \subseteq Int
  BY DEF StopsAt, LastSlot, Slots
<1>1. CASE Rejects(p, k)
  BY <1>1 DEF Inserted
<1>2. CASE ~Rejects(p, k) /\ k \in Slots /\ ~Occupied(p, k)
  <2>1. q = [p EXCEPT ![k] = Filled(p[k], f, key, r)]
    BY <1>2 DEF Inserted
  <2>2. \A x \in Slots : x < k => Occupied(p, x)
    BY <1>2 DEF StopsAt, Passes, Slots
  <2>3. \A x \in Slots : x > k => ~Occupied(p, x)
    BY <1>2 DEF Shaped, Prefix
  <2> QED
    BY <1>0, <1>2, <2>1, <2>2, <2>3, FilledEntry
       DEF Shaped, Prefix, CleanTail, Occupied
<1>3. CASE /\ ~Rejects(p, k) /\ ~(k \in Slots /\ ~Occupied(p, k))
           /\ ~Occupied(p, LastSlot)
  <2>1. k \in Slots /\ Occupied(p, k)
    BY <1>0, <1>3 DEF StopsAt, Passes, Slots, LastSlot
  <2>2. q = [ShiftRight(p, k) EXCEPT ![k] = Filled(p[k], f, key, r)]
    BY <1>3 DEF Inserted
  <2>3. ShiftRight(p, k) \in [Slots -> Entries]
    BY <1>0, <2>1 DEF ShiftRight, Shaped, Slots
  <2>4. \A x \in Slots : x > k => q[x] = p[x - 1] /\ x - 1 \in Slots
    BY <1>0, <2>1, <2>2, <2>3 DEF ShiftRight, Slots
  <2>5. \A x \in Slots : x <= k => Occupied(q, x)
    BY <1>0, <2>1, <2>2, <2>3, FilledEntry
       DEF ShiftRight, Shaped, Prefix, Occupied
  <2>6. q \in [Slots -> Entries]
    BY <2>1, <2>2, <2>3, FilledEntry DEF Shaped
  <2>7. Prefix(q)
    <3> SUFFICES ASSUME NEW x \in Slots, NEW y \in Slots, x < y, Occupied(q, y)
                 PROVE  Occupied(q, x)
      BY DEF Prefix
    <3>1. CASE x <= k
      BY <2>5, <3>1
    <3>2. CASE x > k
      <4>1. q[x] = p[x - 1] /\ q[y] = p[y - 1] /\ x - 1 \in Slots /\ y - 1 \in Slots
        BY <1>0, <2>1, <2>4, <3>2
      <4> QED
        BY <1>0, <4>1 DEF Shaped, Prefix, Occupied
    <3> QED
      BY <1>0, <2>1, <3>1, <3>2
  <2>8. CleanTail(q)
    BY <1>0, <2>1, <2>4, <2>5 DEF CleanTail, Shaped, Occupied
  <2> QED
    BY <2>6, <2>7, <2>8 DEF Shaped
<1>4. CASE /\ ~Rejects(p, k) /\ ~(k \in Slots /\ ~Occupied(p, k))
           /\ Occupied(p, LastSlot)
  <2>1. k - 1 \in Slots
    BY <1>0, <1>4 DEF Rejects, Slots
  <2>2. q = [ShiftLeft(p, k - 1) EXCEPT ![k - 1] = Filled(p[k - 1], f, key, r)]
    BY <1>4 DEF Inserted
  <2>3. ShiftLeft(p, k - 1) \in [Slots -> Entries]
    BY <1>0, <2>1 DEF ShiftLeft, Shaped, Slots
  <2>4. \A x \in Slots : Occupied(p, x)
    BY <1>0, <1>4 DEF Shaped, Prefix, Slots, LastSlot
  <2>5. \A x \in Slots : Occupied(q, x)
    BY <1>0, <2>1, <2>2, <2>3, <2>4, FilledEntry
       DEF ShiftLeft, Shaped, Occupied, Slots
  <2>6. q \in [Slots -> Entries]
    BY <2>1, <2>2, <2>3, FilledEntry DEF Shaped
  <2> QED
    BY <2>5, <2>6 DEF Shaped, Prefix, CleanTail
<1> QED
  BY <1>1, <1>2, <1>3, <1>4

\* Taking the best candidate empties the last occupied slot and resets it.
LEMMA TakeBestKeepsShape ==
  ASSUME Shaped(pool), NEW k \in Slots, BestSlot(pool, k)
  PROVE  Shaped([pool EXCEPT ![k] = EmptyEntry])
<1>1. EmptyEntry \in Entries
  BY DEF EmptyEntry, Entries
<1>2. \A y \in Slots : y > k => ~Occupied(pool, y)
  BY DEF BestSlot, Slots, LastSlot
<1> QED
  BY <1>1, <1>2 DEF Shaped, Prefix, CleanTail, Occupied, EmptyEntry, Slots

-----------------------------------------------------------------------------
(***************************************************************************)
(* Type correctness and the shape of the array are inductive together.     *)
(***************************************************************************)
IInv == TypeOK /\ PoolShape

LEMMA IInvInit == Init => IInv
<1>1. EmptyEntry \in Entries
  BY DEF EmptyEntry, Entries
<1> QED
  BY <1>1 DEF Init, IInv, TypeOK, PoolShape, Prefix, CleanTail, Occupied, EmptyEntry

LEMMA IInvStep == IInv /\ [Next]_vars => IInv'
<1> SUFFICES ASSUME IInv, [Next]_vars PROVE IInv'
  OBVIOUS
<1>0. Shaped(pool) /\ policy \in RankFields
  BY DEF IInv, TypeOK, PoolShape, Shaped
<1>1. ASSUME NEW key \in Keys, NEW r \in Ranks(policy), Insert(key, r)
      PROVE  IInv'
  <2>1. PICK k \in 0 .. PoolSize : /\ StopsAt(pool, policy, k, r)
                                   /\ pool' = Inserted(pool, policy, k, key, r)
    BY <1>1 DEF Insert
  <2>2. Shaped(pool')
    BY <1>0, <2>1, InsertKeepsShape
  <2> QED
    BY <1>0, <1>1, <2>2 DEF Insert, IInv, TypeOK, PoolShape, Shaped
<1>2. CASE TakeBest
  <2>1. Shaped(pool')
    BY <1>0, <1>2, TakeBestKeepsShape DEF TakeBest
  <2> QED
    BY <1>0, <1>2, <2>1 DEF TakeBest, IInv, TypeOK, PoolShape, Shaped
<1>3. ASSUME NEW q \in RankFields, SetPolicy(q)
      PROVE  IInv'
  BY <1>3 DEF SetPolicy, IInv, TypeOK, PoolShape
<1>4. CASE UNCHANGED vars
  BY <1>4 DEF vars, IInv, TypeOK, PoolShape
<1> QED
  BY <1>1, <1>2, <1>3, <1>4 DEF Next

\* Every behaviour of the pool, policy changes included, keeps its type:
\* no rank of one kind is ever left in the field of the other.
THEOREM TypeCorrect == Spec => []TypeOK
<1>1. IInv => TypeOK
  BY DEF IInv
<1> QED
  BY IInvInit, IInvStep, <1>1, PTL DEF Spec

\* Every behaviour of the pool, policy changes included, keeps the occupied
\* slots a prefix and the empty ones clean.
THEOREM ShapeCorrect == Spec => []PoolShape
<1>1. IInv => PoolShape
  BY DEF IInv
<1> QED
  BY IInvInit, IInvStep, <1>1, PTL DEF Spec

-----------------------------------------------------------------------------
(***************************************************************************)
(* Order, on a server that keeps its policy.  The search stops where every *)
(* entry before the slot ranks below the new one and, the pool being       *)
(* ordered, no entry from the slot on does.                                *)
(***************************************************************************)
LEMMA InsertKeepsOrder ==
  ASSUME NEW p, Shaped(p), NEW f \in RankFields, OrderedBy(p, f), NEW k,
         NEW key \in Keys, NEW r \in Ranks(f), StopsAt(p, f, k, r)
  PROVE  OrderedBy(Inserted(p, f, k, key, r), f)
<1> DEFINE q == Inserted(p, f, k, key, r)
           new == Filled(p[k], f, key, r)
<1>0. /\ k \in 0 .. PoolSize /\ LastSlot \in Slots /\ Slots \subseteq Int
      /\ r \in Int
      /\ \A x \in Slots : p[x] \in Entries /\ Rank(p[x], f) \in Int
  BY RankIsInt DEF StopsAt, LastSlot, Slots, Shaped, Ranks
<1>1. \A x \in Slots : x < k => Occupied(p, x) /\ Rank(p[x], f) < r
  BY <1>0 DEF StopsAt, Passes, Slots
<1>2. \A x \in Slots : x >= k /\ Occupied(p, x) => r <= Rank(p[x], f)
  <2> SUFFICES ASSUME NEW x \in Slots, x >= k, Occupied(p, x)
               PROVE  r <= Rank(p[x], f)
    OBVIOUS
  <2>1. k \in Slots
    BY <1>0 DEF Slots
  <2>2. Occupied(p, k)
    BY <1>0, <2>1 DEF Shaped, Prefix
  <2>3. r <= Rank(p[k], f)
    BY <1>0, <2>1, <2>2 DEF StopsAt, Passes
  <2>4. Rank(p[k], f) <= Rank(p[x], f)
    BY <1>0, <2>1 DEF OrderedBy
  <2> QED
    BY <1>0, <2>1, <2>3, <2>4
<1>3. CASE Rejects(p, k)
  BY <1>3 DEF Inserted
<1>4. CASE ~Rejects(p, k) /\ k \in Slots /\ ~Occupied(p, k)
  <2>1. q = [p EXCEPT ![k] = new]
    BY <1>4 DEF Inserted
  <2>2. Rank(new, f) = r
    BY <1>0, <1>4, FilledEntry
  <2>3. \A x \in Slots : x > k => ~Occupied(p, x)
    BY <1>4 DEF Shaped, Prefix
  <2>4. /\ q[k] = new
        /\ \A x \in Slots : x # k => q[x] = p[x]
    BY <1>4, <2>1 DEF Shaped
  <2> SUFFICES ASSUME NEW x \in Slots, NEW y \in Slots, x < y, Occupied(q, y)
               PROVE  Rank(q[x], f) <= Rank(q[y], f)
    BY DEF OrderedBy
  <2>5. y <= k
    BY <1>0, <1>4, <2>3, <2>4 DEF Occupied
  <2>6. x # k /\ q[x] = p[x] /\ Rank(p[x], f) < r
    BY <1>0, <1>1, <1>4, <2>4, <2>5
  <2>7. CASE y = k
    BY <1>0, <2>2, <2>4, <2>6, <2>7
  <2>8. CASE y # k
    BY <2>4, <2>6, <2>8 DEF OrderedBy, Occupied
  <2> QED
    BY <2>7, <2>8
<1>5. CASE /\ ~Rejects(p, k) /\ ~(k \in Slots /\ ~Occupied(p, k))
           /\ ~Occupied(p, LastSlot)
  <2>1. k \in Slots
    BY <1>0, <1>5, <1>1 DEF Slots, LastSlot
  <2>2. q = [ShiftRight(p, k) EXCEPT ![k] = new]
    BY <1>5 DEF Inserted
  <2>3. Rank(new, f) = r
    BY <1>0, <2>1, FilledEntry
  <2>4. /\ q[k] = new
        /\ \A x \in Slots : x < k => q[x] = p[x]
        /\ \A x \in Slots : x > k => q[x] = p[x - 1] /\ x - 1 \in Slots /\ x - 1 >= k
    BY <1>0, <2>1, <2>2 DEF ShiftRight, Slots
  <2> SUFFICES ASSUME NEW x \in Slots, NEW y \in Slots, x < y, Occupied(q, y)
               PROVE  Rank(q[x], f) <= Rank(q[y], f)
    BY DEF OrderedBy
  <2>5. CASE y <= k
    <3>1. q[x] = p[x] /\ Rank(p[x], f) < r
      BY <1>0, <1>1, <2>1, <2>4, <2>5
    <3>2. CASE y = k
      BY <1>0, <2>3, <2>4, <3>1, <3>2
    <3>3. CASE y < k
      BY <1>0, <2>4, <3>1, <3>3 DEF OrderedBy, Occupied
    <3> QED
      BY <1>0, <2>1, <2>5, <3>2, <3>3
  <2>6. CASE y > k
    <3>1. /\ q[y] = p[y - 1] /\ y - 1 \in Slots /\ y - 1 >= k
          /\ Occupied(p, y - 1)
      BY <2>4, <2>6 DEF Occupied
    <3>2. r <= Rank(p[y - 1], f)
      BY <1>2, <3>1
    <3>3. CASE x < k
      BY <1>0, <1>1, <2>1, <2>4, <3>1, <3>2, <3>3
    <3>4. CASE x = k
      BY <2>3, <2>4, <3>1, <3>2, <3>4
    <3>5. CASE x > k
      <4>1. q[x] = p[x - 1] /\ x - 1 \in Slots /\ x - 1 < y - 1
        BY <1>0, <2>1, <2>4, <3>5
      <4> QED
        BY <3>1, <4>1 DEF OrderedBy
    <3> QED
      BY <1>0, <2>1, <3>3, <3>4, <3>5
  <2> QED
    BY <1>0, <2>1, <2>5, <2>6
<1>6. CASE /\ ~Rejects(p, k) /\ ~(k \in Slots /\ ~Occupied(p, k))
           /\ Occupied(p, LastSlot)
  <2> DEFINE last == Filled(p[k - 1], f, key, r)
  <2>1. k - 1 \in Slots
    BY <1>0, <1>6 DEF Rejects, Slots
  <2>2. q = [ShiftLeft(p, k - 1) EXCEPT ![k - 1] = last]
    BY <1>6 DEF Inserted
  <2>3. Rank(last, f) = r
    BY <1>0, <2>1, FilledEntry
  <2>4. \A x \in Slots : Occupied(p, x)
    BY <1>0, <1>6 DEF Shaped, Prefix, Slots, LastSlot
  <2>5. /\ q[k - 1] = last
        /\ \A x \in Slots : x < k - 1 => q[x] = p[x + 1] /\ x + 1 \in Slots /\ x + 1 < k
        /\ \A x \in Slots : x >= k => q[x] = p[x]
    BY <1>0, <2>1, <2>2 DEF ShiftLeft, Slots
  <2> SUFFICES ASSUME NEW x \in Slots, NEW y \in Slots, x < y
               PROVE  Rank(q[x], f) <= Rank(q[y], f)
    BY DEF OrderedBy
  <2>6. CASE y >= k
    <3>1. q[y] = p[y] /\ r <= Rank(p[y], f)
      BY <1>2, <2>4, <2>5, <2>6
    <3>2. CASE x >= k
      BY <2>4, <2>5, <3>1, <3>2 DEF OrderedBy
    <3>3. CASE x = k - 1
      BY <2>3, <2>5, <3>1, <3>3
    <3>4. CASE x < k - 1
      BY <1>0, <1>1, <2>1, <2>5, <3>1, <3>4
    <3>5. x >= k \/ x = k - 1 \/ x < k - 1
      <4>1. x \in Int /\ k \in Int
        BY <1>0, <2>1 DEF Slots
      <4> QED
        BY <4>1
    <3> QED
      BY <3>2, <3>3, <3>4, <3>5
  <2>7. CASE y < k
    <3>1. q[x] = p[x + 1] /\ x + 1 \in Slots /\ x + 1 < k
      BY <1>0, <2>1, <2>5, <2>7
    <3>2. CASE y = k - 1
      BY <1>0, <1>1, <2>3, <2>5, <3>1, <3>2
    <3>3. CASE y < k - 1
      <4>1. q[y] = p[y + 1] /\ y + 1 \in Slots /\ Occupied(p, y + 1)
        BY <2>4, <2>5, <3>3
      <4>2. x + 1 < y + 1
        BY DEF Slots
      <4> QED
        BY <1>0, <3>1, <4>1, <4>2 DEF OrderedBy
    <3>4. y = k - 1 \/ y < k - 1
      <4>1. y \in Int /\ k \in Int
        BY <1>0, <2>1 DEF Slots
      <4> QED
        BY <2>7, <4>1
    <3> QED
      BY <3>2, <3>3, <3>4
  <2> QED
    BY <1>0, <2>1, <2>6, <2>7
<1> QED
  BY <1>3, <1>4, <1>5, <1>6

OInv == IInv /\ Ordered

LEMMA OInvInit == Init => OInv
<1>1. \A k \in Slots : Init => pool[k] = EmptyEntry
  BY DEF Init
<1> QED
  BY <1>1, IInvInit DEF OInv, Ordered, OrderedBy, Occupied, EmptyEntry, Init

LEMMA OInvStep == OInv /\ [Next /\ UNCHANGED policy]_vars => OInv'
<1> SUFFICES ASSUME OInv, [Next /\ UNCHANGED policy]_vars PROVE OInv'
  OBVIOUS
<1>0. Shaped(pool) /\ policy \in RankFields /\ OrderedBy(pool, policy)
  BY DEF OInv, IInv, TypeOK, PoolShape, Shaped, Ordered
<1>1. IInv'
  BY IInvStep DEF OInv, vars
<1>2. policy' = policy
  BY DEF vars
<1>3. ASSUME NEW key \in Keys, NEW r \in Ranks(policy), Insert(key, r)
      PROVE  OrderedBy(pool', policy)
  BY <1>0, <1>3, InsertKeepsOrder DEF Insert
<1>4. ASSUME TakeBest PROVE OrderedBy(pool', policy)
  <2>1. PICK k \in Slots : /\ BestSlot(pool, k)
                           /\ pool' = [pool EXCEPT ![k] = EmptyEntry]
    BY <1>4 DEF TakeBest
  <2>2. \A y \in Slots : y > k => ~Occupied(pool, y)
    BY <2>1 DEF BestSlot, Slots, LastSlot
  <2>3. \A y \in Slots : Occupied(pool', y) => y < k /\ pool'[y] = pool[y]
    BY <1>0, <2>1, <2>2 DEF Shaped, Occupied, EmptyEntry, Slots
  <2>4. \A x \in Slots : x < k => pool'[x] = pool[x]
    BY <1>0, <2>1 DEF Shaped, Slots
  <2> QED
    BY <1>0, <2>1, <2>3, <2>4 DEF OrderedBy, Slots, Occupied
<1>5. ASSUME NEW q \in RankFields, SetPolicy(q) PROVE OrderedBy(pool', policy)
  BY <1>0, <1>5 DEF SetPolicy
<1>6. ASSUME UNCHANGED vars PROVE OrderedBy(pool', policy)
  BY <1>0, <1>6 DEF vars
<1>7. OrderedBy(pool', policy)
  BY <1>3, <1>4, <1>5, <1>6 DEF Next
<1> QED
  BY <1>1, <1>2, <1>7 DEF OInv, Ordered

\* On a server that keeps its policy the entries always ascend by the rank
\* of that policy, so the backward scan meets the best candidate first.
THEOREM OrderCorrect == FixedPolicySpec => []Ordered
<1>1. OInv => Ordered
  BY DEF OInv
<1> QED
  BY OInvInit, OInvStep, <1>1, PTL DEF FixedPolicySpec

\* Whatever changes of policy went before, a step that keeps the policy keeps
\* the order of the entries.
THEOREM OrderKeptCorrect == Spec => OrderKept
<1>1. IInv /\ [Next]_vars => [Ordered /\ UNCHANGED policy => Ordered']_vars
  <2> SUFFICES ASSUME IInv, Next, Ordered, UNCHANGED policy PROVE Ordered'
    BY DEF vars
  <2> QED
    BY OInvStep DEF OInv
<1> QED
  BY IInvInit, IInvStep, <1>1, PTL DEF Spec, OrderKept

-----------------------------------------------------------------------------
(***************************************************************************)
(* What an insertion loses: nothing unless the array is full, and then the *)
(* entry of slot 0, below which nothing remains.                           *)
(***************************************************************************)
LEMMA InsertDropsOnlyWorst ==
  ASSUME OInv, NEW key \in Keys, NEW r \in Ranks(policy), Insert(key, r),
         NEW x \in Slots, Loses(x)
  PROVE  /\ Candidates(pool) = Slots
         /\ \A y \in Slots : Rank(pool[x], policy) <= Rank(pool'[y], policy)
<1>1. PICK k \in 0 .. PoolSize :
        /\ StopsAt(pool, policy, k, r)
        /\ pool' = Inserted(pool, policy, k, key, r)
  BY DEF Insert
<1>0. /\ Shaped(pool) /\ policy \in RankFields /\ OrderedBy(pool, policy)
      /\ LastSlot \in Slots /\ Slots \subseteq Int /\ r \in Int
      /\ \A y \in Slots : pool[y] \in Entries /\ Rank(pool[y], policy) \in Int
      /\ Occupied(pool, x)
  BY RankIsInt DEF OInv, IInv, TypeOK, PoolShape, Shaped, Ordered, LastSlot, Slots,
                   Ranks, Loses, Candidates
<1>a. \A y \in Slots : pool'[y] # pool[x]
  BY DEF Loses
<1>2. ~Rejects(pool, k)
  BY <1>a, <1>1 DEF Inserted
<1>3. ~(k \in Slots /\ ~Occupied(pool, k))
  <2> SUFFICES ASSUME k \in Slots, ~Occupied(pool, k) PROVE FALSE
    OBVIOUS
  <2>1. pool' = [pool EXCEPT ![k] = Filled(pool[k], policy, key, r)]
    BY <1>1, <1>2 DEF Inserted
  <2>2. x # k
    BY <1>0
  <2> QED
    BY <1>0, <1>a, <2>1, <2>2 DEF Shaped
<1>4. Occupied(pool, LastSlot)
  <2> SUFFICES ASSUME ~Occupied(pool, LastSlot) PROVE FALSE
    OBVIOUS
  <2>1. k \in Slots
    BY <1>0, <1>1 DEF StopsAt, Passes, Slots, LastSlot
  <2>2. pool' = [ShiftRight(pool, k) EXCEPT ![k] = Filled(pool[k], policy, key, r)]
    BY <1>1, <1>2, <1>3 DEF Inserted
  <2>3. x < LastSlot
    BY <1>0 DEF Slots, LastSlot
  <2>4. /\ \A m \in Slots : m < k => pool'[m] = pool[m]
        /\ \A m \in Slots : m > k => pool'[m] = pool[m - 1]
    BY <1>0, <2>1, <2>2 DEF ShiftRight
  <2>5. CASE x < k
    BY <1>a, <2>4, <2>5
  <2>6. CASE x >= k
    <3>1. x + 1 \in Slots /\ x + 1 > k /\ (x + 1) - 1 = x
      BY <1>0, <2>1, <2>3, <2>6 DEF Slots, LastSlot
    <3>2. pool'[x + 1] = pool[x]
      BY <2>4, <3>1
    <3> QED
      BY <1>a, <3>1, <3>2
  <2> QED
    BY <1>0, <2>1, <2>5, <2>6
<1>5. Candidates(pool) = Slots
  BY <1>0, <1>4 DEF Candidates, Shaped, Prefix, Slots, LastSlot
<1>6. k - 1 \in Slots
  BY <1>0, <1>1, <1>2, <1>4 DEF Rejects, Slots
<1>7. /\ pool'[k - 1] = Filled(pool[k - 1], policy, key, r)
      /\ \A m \in Slots : m < k - 1 => pool'[m] = pool[m + 1] /\ m + 1 \in Slots
      /\ \A m \in Slots : m >= k => pool'[m] = pool[m]
  <2>1. pool' = [ShiftLeft(pool, k - 1)
                   EXCEPT ![k - 1] = Filled(pool[k - 1], policy, key, r)]
    BY <1>1, <1>2, <1>3, <1>4 DEF Inserted
  <2> QED
    BY <1>0, <1>6, <2>1 DEF ShiftLeft, Slots
<1>8. x = 0
  <2>1. ~(x >= k)
    BY <1>a, <1>7
  <2>2. ASSUME x < k, x # 0 PROVE FALSE
    <3>1. x - 1 \in Slots /\ x - 1 < k - 1 /\ (x - 1) + 1 = x
      BY <1>0, <1>6, <2>2 DEF Slots
    <3>2. pool'[x - 1] = pool[x]
      BY <1>7, <3>1
    <3> QED
      BY <1>a, <3>1, <3>2
  <2> QED
    BY <1>0, <1>6, <2>1, <2>2
<1>9. ASSUME NEW y \in Slots PROVE Rank(pool[0], policy) <= Rank(pool'[y], policy)
  <2>1. Rank(pool[0], policy) < r
    BY <1>0, <1>1, <1>6 DEF StopsAt, Passes, Slots
  <2>2. \A m \in Slots : Rank(pool[0], policy) <= Rank(pool[m], policy)
    BY <1>0, <1>5, <1>8 DEF OrderedBy, Candidates, Slots
  <2>3. CASE y = k - 1
    <3>1. Rank(pool'[y], policy) = r
      BY <1>0, <1>6, <1>7, <2>3, FilledEntry
    <3> QED
      BY <1>0, <1>8, <2>1, <3>1
  <2>4. CASE y < k - 1
    BY <1>7, <2>2, <2>4
  <2>5. CASE y >= k
    BY <1>7, <2>2, <2>5
  <2>6. y = k - 1 \/ y < k - 1 \/ y >= k
    <3>1. y \in Int /\ k \in Int
      BY <1>0, <1>6 DEF Slots
    <3> QED
      BY <3>1
  <2> QED
    BY <2>3, <2>4, <2>5, <2>6
<1> QED
  BY <1>5, <1>8, <1>9

\* Whatever changes of policy went before, an insertion in an ordered pool
\* never loses a candidate that is better than one the pool keeps.
THEOREM DropsOnlyWorstCorrect == Spec => DropsOnlyWorst
<1>1. IInv /\ [Next]_vars =>
        [\A key \in Keys, r \in Ranks(policy) : Ordered /\ Insert(key, r) =>
           \A x \in Slots : Loses(x) =>
             /\ Candidates(pool) = Slots
             /\ \A y \in Slots :
                  Rank(pool[x], policy) <= Rank(pool'[y], policy)]_vars
  BY InsertDropsOnlyWorst DEF OInv
<1> QED
  BY IInvInit, IInvStep, <1>1, PTL DEF Spec, DropsOnlyWorst

-----------------------------------------------------------------------------
(* AccessHistory.                                                          *)

USE SizesAssumption, GarbageAssumption

\* An object's part of SoundHistory, at a given time.
SoundAt(o, now) ==
  o.sound => FitsArray(o) /\ Chronological(o) /\ EndsWithLast(o) /\ o.seen <= now

\* The counter and the array have their type after every store.
LEMMA FreshTyped ==
  ASSUME NEW kind \in Kinds, NEW o \in Fresh(kind)
  PROVE  o \in Objects /\ (o.sound => o.num = 0) /\ o.seen = 0
<1>1. Zeroes \in [Indices -> Times] /\ 0 \in Times
  BY DEF Zeroes, Times, Indices
<1>2. PICK n \in IF kind = "raw" THEN {0} ELSE GarbageCounts :
        o = [num |-> n, times |-> Zeroes, lru |-> 0,
             sound |-> kind = "raw", seen |-> 0]
  BY DEF Fresh
<1>3. n \in 0 .. CounterMod - 1 /\ (kind = "raw" => n = 0)
  BY <1>2
<1> QED
  BY <1>1, <1>2, <1>3 DEF Objects

LEMMA ShiftedTyped ==
  ASSUME NEW times \in [Indices -> Times], NEW now \in Times
  PROVE  /\ Shifted(times, now) \in [Indices -> Times]
         /\ \A x \in Indices : x + 1 \in Indices => Shifted(times, now)[x] = times[x + 1]
         /\ ArraySize - 1 \in Indices
         /\ Shifted(times, now)[ArraySize - 1] = now
  BY DEF Shifted, Indices

LEMMA RecordedSound ==
  ASSUME NEW o \in Objects, NEW now \in Times, SoundAt(o, now)
  PROVE  Recorded(o, now) \in Objects /\ SoundAt(Recorded(o, now), now)
<1>0. /\ o.num \in 0 .. CounterMod - 1 /\ o.times \in [Indices -> Times]
      /\ o.lru \in Times /\ o.sound \in BOOLEAN /\ o.seen \in Times
      /\ \A t \in Times : t \in Int
  BY DEF Objects, Times
<1>1. CASE o.num < ArraySize
  <2> DEFINE p == [num |-> o.num + 1, times |-> [o.times EXCEPT ![o.num] = now],
                   lru |-> o.lru, sound |-> o.sound, seen |-> now]
  <2>1. Recorded(o, now) = p
    BY <1>1 DEF Recorded, Objects
  <2>2. o.num \in Indices /\ o.num + 1 \in 0 .. CounterMod - 1
    BY <1>0, <1>1 DEF Indices
  <2>3. p \in Objects
    BY <1>0, <2>2 DEF Objects
  <2>4. /\ p.times[o.num] = now
        /\ \A x \in Indices : x # o.num => p.times[x] = o.times[x]
    BY <1>0, <2>2
  <2>5. SoundAt(p, now)
    <3> SUFFICES ASSUME o.sound
                 PROVE  FitsArray(p) /\ Chronological(p) /\ EndsWithLast(p) /\ p.seen <= now
      BY DEF SoundAt
    <3>1. FitsArray(o) /\ Chronological(o) /\ EndsWithLast(o) /\ o.seen <= now
      BY DEF SoundAt
    <3>2. FitsArray(p) /\ p.seen <= now
      BY <1>0, <1>1 DEF FitsArray
    <3>3. EndsWithLast(p)
      BY <1>0, <2>4 DEF EndsWithLast
    <3>4. \A x \in Stamps(o) : o.times[x] <= now
      <4> SUFFICES ASSUME NEW x \in Stamps(o) PROVE o.times[x] <= now
        OBVIOUS
      <4>1. o.num > 0 /\ o.num - 1 \in Stamps(o) /\ x <= o.num - 1
        <5>1. x \in 0 .. ArraySize - 1 /\ x < o.num
          BY DEF Stamps, Indices
        <5>2. o.num \in Nat /\ o.num > 0 /\ x <= o.num - 1 /\ o.num - 1 \in 0 .. ArraySize - 1
          BY <1>0, <1>1, <5>1
        <5> QED
          BY <5>2 DEF Stamps, Indices
      <4>2. o.times[x] <= o.times[o.num - 1] /\ o.times[o.num - 1] = o.seen
        BY <3>1, <4>1 DEF Chronological, EndsWithLast
      <4>3. o.times[x] \in Times
        BY <1>0 DEF Stamps
      <4> QED
        BY <1>0, <3>1, <4>2, <4>3 DEF Times
    <3>5. Chronological(p)
      <4> SUFFICES ASSUME NEW x \in Stamps(p), NEW y \in Stamps(p), x <= y
                   PROVE  p.times[x] <= p.times[y]
        BY DEF Chronological
      <4>1. x \in Indices /\ y \in Indices /\ x <= o.num /\ y <= o.num
        BY <1>0 DEF Stamps, Indices
      <4>2. CASE y = o.num /\ x = o.num
        BY <1>0, <2>4, <4>2
      <4>3. CASE y = o.num /\ x # o.num
        BY <1>0, <2>4, <3>4, <4>1, <4>3 DEF Stamps, Indices
      <4>4. CASE y # o.num
        <5>1. x \in Stamps(o) /\ y \in Stamps(o) /\ x # o.num
          BY <1>0, <4>1, <4>4 DEF Stamps, Indices
        <5>2. p.times[x] = o.times[x] /\ p.times[y] = o.times[y]
          BY <2>4, <4>1, <4>4, <5>1
        <5> QED
          BY <3>1, <5>1, <5>2 DEF Chronological
      <4> QED
        BY <4>2, <4>3, <4>4
    <3> QED
      BY <3>2, <3>3, <3>5
  <2> QED
    BY <2>1, <2>3, <2>5
<1>2. CASE ~(o.num < ArraySize)
  <2> DEFINE p == [num |-> o.num, times |-> Shifted(o.times, now),
                   lru |-> o.lru, sound |-> o.sound, seen |-> now]
  <2>1. Recorded(o, now) = p
    BY <1>2 DEF Recorded, Objects
  <2>2. p \in Objects
    BY <1>0, ShiftedTyped DEF Objects
  <2>3. SoundAt(p, now)
    <3> SUFFICES ASSUME o.sound
                 PROVE  FitsArray(p) /\ Chronological(p) /\ EndsWithLast(p) /\ p.seen <= now
      BY DEF SoundAt
    <3>1. FitsArray(o) /\ Chronological(o) /\ EndsWithLast(o) /\ o.seen <= now
      BY DEF SoundAt
    <3>2. o.num = ArraySize
      BY <1>0, <1>2, <3>1 DEF FitsArray
    <3>3. /\ \A x \in Indices : x + 1 \in Indices => p.times[x] = o.times[x + 1]
          /\ p.times[ArraySize - 1] = now
      BY <1>0, ShiftedTyped
    <3>4. \A x \in Indices : o.times[x] <= now /\ o.times[x] \in Int
      <4> SUFFICES ASSUME NEW x \in Indices PROVE o.times[x] <= now /\ o.times[x] \in Int
        OBVIOUS
      <4>1. x \in Stamps(o) /\ ArraySize - 1 \in Stamps(o) /\ x <= ArraySize - 1
        BY <3>2 DEF Stamps, Indices
      <4>2. o.times[x] <= o.times[ArraySize - 1] /\ o.times[ArraySize - 1] = o.seen
        BY <3>1, <3>2, <4>1 DEF Chronological, EndsWithLast
      <4>3. o.times[x] \in Times
        BY <1>0
      <4> QED
        BY <1>0, <3>1, <4>2, <4>3 DEF Times
    <3>5. Chronological(p)
      <4> SUFFICES ASSUME NEW x \in Indices, NEW y \in Indices, x <= y
                   PROVE  p.times[x] <= p.times[y]
        BY DEF Chronological, Stamps
      <4>1. CASE y = ArraySize - 1 /\ x = ArraySize - 1
        BY <1>0, <3>3, <4>1
      <4>2. CASE y = ArraySize - 1 /\ x # ArraySize - 1
        <5>1. x + 1 \in Indices
          BY <4>2 DEF Indices
        <5> QED
          BY <3>3, <3>4, <4>2, <5>1
      <4>3. CASE y # ArraySize - 1
        <5>1. /\ x + 1 \in Indices /\ y + 1 \in Indices /\ x + 1 <= y + 1
              /\ x + 1 \in Stamps(o) /\ y + 1 \in Stamps(o)
          BY <3>2, <4>3 DEF Indices, Stamps
        <5> QED
          BY <3>1, <3>3, <5>1 DEF Chronological
      <4> QED
        BY <4>1, <4>2, <4>3
    <3>6. FitsArray(p) /\ EndsWithLast(p) /\ p.seen <= now
      BY <1>0, <3>2, <3>3 DEF FitsArray, EndsWithLast
    <3> QED
      BY <3>5, <3>6
  <2> QED
    BY <2>1, <2>2, <2>3
<1> QED
  BY <1>1, <1>2

LEMMA InitOrUpdateTyped ==
  ASSUME NEW o \in Objects, NEW now \in Times, NEW p \in InitOrUpdate(o, now)
  PROVE  /\ p \in Objects /\ p.sound = o.sound
         /\ p.lru = o.lru /\ p.seen = o.seen
         /\ o.num = 0 => p.num = 1 /\ p.times[0] = now
<1>0. /\ o.num \in 0 .. CounterMod - 1 /\ o.times \in [Indices -> Times]
      /\ o.lru \in Times /\ o.sound \in BOOLEAN /\ o.seen \in Times
      /\ now \in Nat
  BY DEF Objects, Times
<1>1. CASE o.num < ArraySize
  <2>1. p = [o EXCEPT !.times = [o.times EXCEPT ![o.num] = now], !.num = o.num + 1]
    BY <1>1 DEF InitOrUpdate, Objects
  <2>2. o.num \in Indices /\ o.num + 1 \in 0 .. CounterMod - 1
    BY <1>0, <1>1 DEF Indices
  <2>3. /\ p.times = [o.times EXCEPT ![o.num] = now] /\ p.num = o.num + 1
        /\ p.sound = o.sound /\ p.lru = o.lru /\ p.seen = o.seen
    BY <2>1 DEF Objects
  <2>4. p \in Objects
    BY <1>0, <2>1, <2>2 DEF Objects
  <2> QED
    BY <1>0, <2>2, <2>3, <2>4
<1>2. CASE o.num = ArraySize
  <2>1. PICK n \in {ArraySize + 1, (now + 1) % CounterMod} : p = [o EXCEPT !.num = n]
    BY <1>2 DEF InitOrUpdate
  <2>2. n \in 0 .. CounterMod - 1
    BY <1>0, <2>1
  <2> QED
    BY <1>0, <1>2, <2>1, <2>2 DEF Objects
<1>3. CASE o.num > ArraySize
  <2>1. p = [o EXCEPT !.times = Shifted(o.times, now), !.num = (o.num + 1) % CounterMod]
    BY <1>0, <1>3 DEF InitOrUpdate, Objects
  <2>2. (o.num + 1) % CounterMod \in 0 .. CounterMod - 1
    BY <1>0
  <2>3. Shifted(o.times, now) \in [Indices -> Times]
    BY <1>0, ShiftedTyped
  <2>4. /\ p \in Objects
        /\ p.sound = o.sound /\ p.lru = o.lru /\ p.seen = o.seen
    BY <2>1, <2>2, <2>3 DEF Objects
  <2> QED
    BY <1>0, <1>3, <2>4
<1> QED
  BY <1>0, <1>1, <1>2, <1>3

-----------------------------------------------------------------------------
(* The two ways an object is recorded, at the current time. *)

LEMMA TouchedSound ==
  ASSUME HistoryTypeOK, NEW o \in Objects, SoundAt(o, clock), NEW touch \in BOOLEAN
  PROVE  Touched(o, touch) \in Objects /\ SoundAt(Touched(o, touch), clock)
<1>1. CASE child \/ ~touch
  BY <1>1 DEF Touched
<1>2. CASE ~(child \/ ~touch) /\ maxmemory_policy = "HISTOGRAM"
  BY <1>2, RecordedSound DEF Touched, HistoryTypeOK
<1>3. CASE ~(child \/ ~touch) /\ maxmemory_policy # "HISTOGRAM"
  BY <1>3 DEF Touched, HistoryTypeOK, Objects, SoundAt, FitsArray, Chronological, Stamps,
              EndsWithLast
<1> QED
  BY <1>1, <1>2, <1>3

LEMMA EnteredSound ==
  ASSUME HistoryTypeOK, NEW o \in Objects, o.sound => o.num = 0 /\ o.seen = 0,
         NEW p \in Entered(o)
  PROVE  p \in Objects /\ SoundAt(p, clock) /\ p.sound = o.sound
<1>0. clock \in Times /\ clock \in Nat
  BY DEF HistoryTypeOK, Times
<1>1. CASE maxmemory_policy = "HISTOGRAM"
  <2>1. PICK q \in InitOrUpdate(o, clock) : p = [q EXCEPT !.lru = clock, !.seen = clock]
    BY <1>1 DEF Entered
  <2>2. q \in Objects /\ q.sound = o.sound /\ (o.num = 0 => q.num = 1 /\ q.times[0] = clock)
    BY <1>0, <2>1, InitOrUpdateTyped
  <2>3. /\ p \in Objects /\ p.sound = o.sound /\ p.seen = clock
        /\ p.num = q.num /\ p.times = q.times
    BY <1>0, <2>1, <2>2 DEF Objects
  <2>4. ASSUME o.sound PROVE FitsArray(p) /\ Chronological(p) /\ EndsWithLast(p)
    <3>1. p.num = 1 /\ p.times[0] = clock /\ p.seen = clock
      BY <2>2, <2>3, <2>4
    <3> QED
      BY <1>0, <3>1 DEF FitsArray, Chronological, EndsWithLast, Stamps, Indices
  <2> QED
    BY <1>0, <2>3, <2>4 DEF SoundAt
<1>2. CASE maxmemory_policy # "HISTOGRAM"
  <2>1. p = [o EXCEPT !.lru = clock]
    BY <1>2 DEF Entered
  <2>2. /\ p \in Objects /\ p.sound = o.sound /\ p.seen = o.seen
        /\ p.num = o.num /\ p.times = o.times
    BY <1>0, <2>1 DEF Objects
  <2> QED
    BY <1>0, <2>2 DEF SoundAt, FitsArray, Chronological, EndsWithLast, Stamps, Indices
<1> QED
  BY <1>1, <1>2

LEMMA AddedSound ==
  ASSUME HistoryTypeOK, NEW kind \in Kinds, NEW o \in Fresh(kind), NEW p \in Entered(o)
  PROVE  p \in Objects /\ SoundAt(p, clock)
  BY FreshTyped, EnteredSound

\* An object restored from the dump is never taken for a sound one.
LEMMA LoadedSound ==
  ASSUME HistoryTypeOK, NEW k \in Names, NEW kind \in Kinds,
         NEW p \in LoadOutcomes(k, kind), p # None
  PROVE  p \in Objects /\ SoundAt(p, clock)
<1>0. /\ clock \in Times /\ (dump[k] # None => dump[k] \in Times)
  BY DEF HistoryTypeOK
<1>1. PICK o \in Fresh(kind) : \E q \in Entered(o) : p \in Restored(q, dump[k])
  BY DEF LoadOutcomes
<1>2. PICK q \in Entered(o) : p \in Restored(q, dump[k])
  BY <1>1
<1>3. dump[k] \in Times /\ q \in Objects
  BY <1>0, <1>1, <1>2, AddedSound DEF LoadOutcomes
<1>4. PICK r \in InitOrUpdate(q, dump[k]) :
        p = [r EXCEPT !.lru = Unwrapped(clock - dump[k]), !.sound = FALSE]
  BY <1>2 DEF Restored
<1>5. r \in Objects
  BY <1>3, <1>4, InitOrUpdateTyped
<1>6. Unwrapped(clock - dump[k]) \in Times
  BY <1>0, <1>3 DEF Unwrapped, Times
<1> QED
  BY <1>4, <1>5, <1>6 DEF Objects, SoundAt

-----------------------------------------------------------------------------
HistoryInv == HistoryTypeOK /\ SoundHistory

LEMMA HistoryInvInit == HistoryInit => HistoryInv
<1> SUFFICES ASSUME HistoryInit PROVE HistoryInv
  OBVIOUS
<1>1. 0 \in Times
  BY DEF Times
<1>2. HistoryTypeOK
  BY <1>1 DEF HistoryInit, HistoryTypeOK
<1>3. \A k \in Names : ~Live(k)
  BY DEF HistoryInit, Live
<1> QED
  BY <1>2, <1>3 DEF HistoryInv, SoundHistory

\* What a step has to give: objects that are typed and sound.
GoodDict(d, now) ==
  /\ d \in [Names -> Objects \cup {None}]
  /\ \A k \in Names : d[k] # None => SoundAt(d[k], now)

LEMMA GoodDictSuffices ==
  ASSUME GoodDict(dict', clock'), clock' \in Times, maxmemory_policy' \in Policies,
         child' \in BOOLEAN, dump' \in [Names -> Times \cup {None}]
  PROVE  HistoryInv'
  BY DEF GoodDict, HistoryInv, HistoryTypeOK, SoundHistory, Live, SoundAt

LEMMA HistoryInvStep == HistoryInv /\ [HistoryNext]_historyVars => HistoryInv'
<1> SUFFICES ASSUME HistoryInv, [HistoryNext]_historyVars PROVE HistoryInv'
  OBVIOUS
<1>0. /\ HistoryTypeOK /\ GoodDict(dict, clock)
      /\ clock \in Times /\ maxmemory_policy \in Policies /\ child \in BOOLEAN
      /\ dump \in [Names -> Times \cup {None}]
      /\ dict \in [Names -> Objects \cup {None}]
  BY DEF HistoryInv, HistoryTypeOK, SoundHistory, GoodDict, Live, SoundAt
<1>1. ASSUME NEW k \in Names, NEW touch \in BOOLEAN, Live(k)
      PROVE  /\ Touched(dict[k], touch) \in Objects
             /\ SoundAt(Touched(dict[k], touch), clock)
  BY <1>0, <1>1, TouchedSound DEF GoodDict, Live
<1>2. ASSUME NEW k \in Names, NEW touch \in BOOLEAN, Lookup(k, touch)
      PROVE  HistoryInv'
  <2>1. GoodDict(dict', clock')
    BY <1>0, <1>1, <1>2 DEF Lookup, GoodDict
  <2> QED
    BY <1>0, <1>2, <2>1, GoodDictSuffices DEF Lookup
<1>3. ASSUME NEW k \in Names, NEW kind \in Kinds, Add(k, kind)
      PROVE  HistoryInv'
  <2>1. GoodDict(dict', clock')
    BY <1>0, <1>3, AddedSound DEF Add, GoodDict
  <2> QED
    BY <1>0, <1>3, <2>1, GoodDictSuffices DEF Add
<1>4. ASSUME NEW k \in Names, NEW kind \in Kinds, NEW touch \in BOOLEAN,
             Overwrite(k, kind, touch)
      PROVE  HistoryInv'
  <2>1. PICK o \in Fresh(kind) :
          dict' = [dict EXCEPT ![k] = [o EXCEPT !.lru = Touched(dict[k], touch).lru]]
    BY <1>4 DEF Overwrite
  <2> DEFINE p == [o EXCEPT !.lru = Touched(dict[k], touch).lru]
  <2>2. Touched(dict[k], touch).lru \in Times
    BY <1>1, <1>4 DEF Overwrite, Objects
  <2>3. o \in Objects /\ (o.sound => o.num = 0) /\ o.seen = 0
    BY <2>1, FreshTyped
  <2>4. p \in Objects /\ p.num = o.num /\ p.sound = o.sound /\ p.seen = o.seen
    BY <2>2, <2>3 DEF Objects
  <2>5. SoundAt(p, clock)
    BY <1>0, <2>3, <2>4 DEF SoundAt, FitsArray, Chronological, EndsWithLast, Stamps,
                            Indices, Times
  <2>6. GoodDict(dict', clock')
    BY <1>0, <1>4, <2>1, <2>4, <2>5 DEF Overwrite, GoodDict
  <2> QED
    BY <1>0, <1>4, <2>6, GoodDictSuffices DEF Overwrite
<1>5. ASSUME NEW k \in Names, NEW l \in Names, NEW touch \in BOOLEAN,
             Rename(k, l, touch)
      PROVE  HistoryInv'
  <2> DEFINE t == [Touched(dict[k], touch) EXCEPT !.sound = FALSE]
  <2>1. t \in Objects /\ t.sound = FALSE
    BY <1>1, <1>5 DEF Rename, Objects
  <2>2. PICK o \in Entered(t) : dict' = [dict EXCEPT ![l] = o, ![k] = None]
    BY <1>5 DEF Rename
  <2>3. o \in Objects /\ SoundAt(o, clock)
    BY <1>0, <2>1, <2>2, EnteredSound
  <2>4. GoodDict(dict', clock')
    BY <1>0, <1>5, <2>2, <2>3 DEF Rename, GoodDict
  <2> QED
    BY <1>0, <1>5, <2>4, GoodDictSuffices DEF Rename
<1>6. ASSUME NEW k \in Names, NEW l \in Names, NEW kind \in Kinds,
             NEW touch \in BOOLEAN, Copy(k, l, kind, touch)
      PROVE  HistoryInv'
  <2>1. PICK o \in Fresh(kind) : \E p \in Entered(o) :
          dict' = [dict EXCEPT ![k] = Touched(dict[k], touch), ![l] = p]
    BY <1>0, <1>6 DEF Copy
  <2>2. PICK p \in Entered(o) :
          dict' = [dict EXCEPT ![k] = Touched(dict[k], touch), ![l] = p]
    BY <2>1
  <2>3. p \in Objects /\ SoundAt(p, clock)
    BY <1>0, <2>1, <2>2, AddedSound
  <2>4. GoodDict(dict', clock')
    BY <1>0, <1>1, <1>6, <2>2, <2>3 DEF Copy, GoodDict
  <2> QED
    BY <1>0, <1>6, <2>4, GoodDictSuffices DEF Copy
<1>7. ASSUME NEW k \in Names, Delete(k)
      PROVE  HistoryInv'
  <2>1. GoodDict(dict', clock')
    BY <1>0, <1>7 DEF Delete, GoodDict
  <2> QED
    BY <1>0, <1>7, <2>1, GoodDictSuffices DEF Delete
<1>8. CASE Save
  <2>1. ASSUME NEW k \in Names, Live(k) PROVE IdleTime(dict[k].lru) \in Times
    <3>1. dict[k].lru \in Times
      BY <1>0, <2>1 DEF Live, Objects
    <3> QED
      BY <1>0, <3>1 DEF IdleTime, Times
  <2>2. dump' \in [Names -> Times \cup {None}]
    BY <1>8, <2>1 DEF Save
  <2> QED
    BY <1>0, <1>8, <2>2, GoodDictSuffices DEF Save, GoodDict
<1>9. CASE Restart
  <2>1. PICK kind \in [Names -> Kinds] :
          dict' \in {d \in [Names -> UNION {LoadOutcomes(k, kind[k]) : k \in Names}] :
                       \A k \in Names : d[k] \in LoadOutcomes(k, kind[k])}
    BY <1>9 DEF Restart
  <2>2. \A k \in Names : dict'[k] \in LoadOutcomes(k, kind[k])
    BY <2>1
  <2>3. \A k \in Names : dict'[k] # None => dict'[k] \in Objects /\ SoundAt(dict'[k], clock)
    BY <1>0, <2>2, LoadedSound
  <2>4. dict' = [k \in Names |-> dict'[k]]
    BY <2>1
  <2>5. GoodDict(dict', clock')
    BY <1>9, <2>3, <2>4 DEF GoodDict, Restart
  <2> QED
    BY <1>0, <1>9, <2>5, GoodDictSuffices DEF Restart
<1>10. CASE Tick
  <2>1. clock' \in Times /\ (clock' = 0 \/ clock' = clock + 1)
    BY <1>0, <1>10 DEF Tick, Times
  <2>2. ASSUME NEW k \in Names, Live(k)
        PROVE  dict'[k] \in Objects /\ SoundAt(dict'[k], clock')
    <3>0. dict[k] \in Objects /\ SoundAt(dict[k], clock) /\ dict[k].seen \in Nat
      BY <1>0, <2>2 DEF Live, GoodDict, Objects, Times
    <3>1. CASE clock' = 0
      <4>1. dict'[k] = [dict[k] EXCEPT !.sound = FALSE]
        BY <1>10, <2>2, <3>1 DEF Tick
      <4> QED
        BY <3>0, <4>1 DEF Objects, SoundAt
    <3>2. CASE clock' # 0
      <4>1. dict'[k] = dict[k]
        BY <1>10, <3>2 DEF Tick
      <4>2. dict[k].seen <= clock => dict[k].seen <= clock'
        BY <1>0, <2>1, <3>0, <3>2 DEF Times
      <4> QED
        BY <3>0, <4>1, <4>2 DEF SoundAt
    <3> QED
      BY <3>1, <3>2
  <2>3. \A k \in Names : ~Live(k) => dict'[k] = None
    BY <1>10 DEF Tick, Live
  <2>4. dict' = [k \in Names |-> dict'[k]]
    BY <1>10 DEF Tick
  <2>5. GoodDict(dict', clock')
    BY <2>2, <2>3, <2>4 DEF GoodDict
  <2> QED
    BY <1>0, <1>10, <2>1, <2>5, GoodDictSuffices DEF Tick
<1>11. ASSUME NEW q \in Policies, SetMaxmemoryPolicy(q)
       PROVE  HistoryInv'
  BY <1>0, <1>11, GoodDictSuffices DEF SetMaxmemoryPolicy, GoodDict
<1>12. CASE ForkOrReap
  BY <1>0, <1>12, GoodDictSuffices DEF ForkOrReap, GoodDict
<1>13. CASE UNCHANGED historyVars
  BY <1>0, <1>13, GoodDictSuffices DEF historyVars, GoodDict
<1> QED
  BY <1>2, <1>3, <1>4, <1>5, <1>6, <1>7, <1>8, <1>9, <1>10, <1>11, <1>12, <1>13
     DEF HistoryNext

\* No store, in or past the array, takes the metadata out of its types: the
\* counter stays in its eight bits and the stamps are clock values.
THEOREM HistoryTypeCorrect == HistorySpec => []HistoryTypeOK
<1>1. HistoryInv => HistoryTypeOK
  BY DEF HistoryInv
<1> QED
  BY HistoryInvInit, HistoryInvStep, <1>1, PTL DEF HistorySpec

\* The objects no suspect path has touched have a true history: at most
\* HISTORY_SIZE stamps, in order, ending with the last recorded access.
THEOREM SoundHistoryCorrect == HistorySpec => []SoundHistory
<1>1. HistoryInv => SoundHistory
  BY DEF HistoryInv
<1> QED
  BY HistoryInvInit, HistoryInvStep, <1>1, PTL DEF HistorySpec

-----------------------------------------------------------------------------
(* The way through the dump and back. *)

\* What is subtracted and corrected when an idle time is loaded, the look at
\* the idle time adds and corrects back, wherever the clock stands.
LEMMA UnwrappedIdle ==
  ASSUME NEW idle \in Times, idle < ClockMax, clock \in Times
  PROVE  IdleTime(Unwrapped(clock - idle)) = idle
<1>0. clock \in Nat /\ clock <= ClockMax /\ idle \in Nat /\ ClockMax \in Nat
  BY DEF Times
<1>1. CASE clock - idle >= 0
  <2>1. Unwrapped(clock - idle) = clock - idle
    BY <1>0, <1>1 DEF Unwrapped
  <2> QED
    BY <1>0, <2>1 DEF IdleTime
<1>2. CASE clock - idle < 0
  <2>1. Unwrapped(clock - idle) = clock - idle + ClockMax
    BY <1>0, <1>2 DEF Unwrapped
  <2> QED
    BY <1>0, <2>1 DEF IdleTime
<1> QED
  BY <1>0, <1>1, <1>2

\* Whatever the object's encoding and the policy, the stamp of a loaded object
\* is what the dump's idle time gives.
LEMMA LoadedStamp ==
  ASSUME HistoryTypeOK, NEW k \in Names, NEW kind \in Kinds,
         NEW p \in LoadOutcomes(k, kind), p # None
  PROVE  dump[k] \in Times /\ p.lru = Unwrapped(clock - dump[k])
<1>1. PICK o \in Fresh(kind) : \E q \in Entered(o) : p \in Restored(q, dump[k])
  BY DEF LoadOutcomes
<1>2. PICK q \in Entered(o) : p \in Restored(q, dump[k])
  BY <1>1
<1>3. dump[k] \in Times /\ q \in Objects
  BY <1>1, <1>2, AddedSound DEF LoadOutcomes, HistoryTypeOK
<1>4. PICK r \in InitOrUpdate(q, dump[k]) :
        p = [r EXCEPT !.lru = Unwrapped(clock - dump[k]), !.sound = FALSE]
  BY <1>2 DEF Restored
<1>5. r \in Objects
  BY <1>3, <1>4, InitOrUpdateTyped
<1> QED
  BY <1>3, <1>4, <1>5 DEF Objects

\* The idle time that eviction and OBJECT IDLETIME see after a restart is the
\* one that was saved, for every clock period, up to a period less a second.
THEOREM IdleSurvivesReloadCorrect == HistorySpec => IdleSurvivesReload
<1>1. ASSUME HistoryInv, Restart, NEW k \in Names, dict'[k] # None, dump[k] < ClockMax
      PROVE  IdleTime(dict'[k].lru) = dump[k]
  <2>1. PICK kind \in [Names -> Kinds] :
          dict' \in {d \in [Names -> UNION {LoadOutcomes(l, kind[l]) : l \in Names}] :
                       \A l \in Names : d[l] \in LoadOutcomes(l, kind[l])}
    BY <1>1 DEF Restart
  <2>2. dict'[k] \in LoadOutcomes(k, kind[k])
    BY <2>1
  <2>3. dump[k] \in Times /\ dict'[k].lru = Unwrapped(clock - dump[k])
    BY <1>1, <2>2, LoadedStamp DEF HistoryInv
  <2> QED
    BY <1>1, <2>3, UnwrappedIdle DEF HistoryInv, HistoryTypeOK
<1>2. HistoryInv /\ [HistoryNext]_historyVars =>
        [Restart => \A k \in Names : dict'[k] # None /\ dump[k] < ClockMax =>
                      IdleTime(dict'[k].lru) = dump[k]]_historyVars
  BY <1>1
<1> QED
  BY HistoryInvInit, HistoryInvStep, <1>2, PTL DEF HistorySpec, IdleSurvivesReload
=============================================================================
