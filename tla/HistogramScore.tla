--------------------------- MODULE HistogramScore ---------------------------
(***************************************************************************)
(* The score of the allkeys-lru-histogram policy: calculateStatistics()    *)
(* runs over the ages of every recorded access of the sampled keys,        *)
(* defineWindowBoundaries() cuts the ages into windows around their mean   *)
(* and standard deviation, and estimateObjectEvictionScore() weighs each   *)
(* key's accesses by the window they fall in.                              *)
(*                                                                         *)
(* The doubles of the code are exact rationals here: a comparison with     *)
(* mean - stddev or mean + stddev is multiplied by count and squared.      *)
(* Scores are in hundredths.  The sums of the code are of 64 bits and not  *)
(* reduced here; SumsFit says of a width that they never reach it.         *)
(***************************************************************************)
EXTENDS Integers, Sequences, SequencesExt

CONSTANTS SampleCount,  \* what dictGetSomeKeys() returned
          HistorySize,  \* HISTORY_SIZE
          MaxAge        \* bound on the ages of the sampled accesses

ASSUME ParametersAssumption == /\ SampleCount \in Nat
                               /\ HistorySize \in Nat
                               /\ MaxAge \in Nat

VARIABLES ages,    \* LRU_CLOCK() - access_times[i] of every sample
          pc,      \* which of the two loops runs
          j, i,    \* their counters
          stats,   \* what calculateStatistics() accumulates
          windows  \* the window found for each access

scoreVars == <<ages, pc, j, i, stats, windows>>

Samples == 1 .. SampleCount
Ages == 0 .. MaxAge
Histories == UNION {[1 .. n -> Ages] : n \in 0 .. HistorySize}

-----------------------------------------------------------------------------
(* calculateStatistics().  ULLONG_MAX, the initial minimum, is any number   *)
(* above the ages.                                                         *)

NoStats == [min |-> MaxAge + 1, max |-> 0, sum |-> 0, squares |-> 0, count |-> 0]

\* Mutant of Observed: the squares are not accumulated but overwritten.
ObservedLastSquare(s, age) ==
  [min |-> IF age < s.min THEN age ELSE s.min,
   max |-> IF age > s.max THEN age ELSE s.max,
   sum |-> s.sum + age, squares |-> age * age, count |-> s.count + 1]

Observed(s, age) ==
  [min |-> IF age < s.min THEN age ELSE s.min,
   max |-> IF age > s.max THEN age ELSE s.max,
   sum |-> s.sum + age,
   squares |-> s.squares + age * age,
   count |-> s.count + 1]

-----------------------------------------------------------------------------
(* defineWindowBoundaries(): age <= window_boundaries[w].                  *)

\* Mutant of Variance: the mean of the squares alone.
VarianceOfSquares(s) == s.count * s.squares

\* count * count times the variance; negative when the code's sqrt() is NaN,
\* which fmax() and fmin() ignore.
Variance(s) == s.count * s.squares - s.sum * s.sum

\* age <= mean - stddev and age <= mean + stddev
BelowSpread(s, age) ==
  /\ Variance(s) >= 0
  /\ s.count * age <= s.sum
  /\ (s.sum - s.count * age) * (s.sum - s.count * age) >= Variance(s)
WithinSpread(s, age) ==
  \/ Variance(s) < 0
  \/ s.count * age <= s.sum
  \/ (s.count * age - s.sum) * (s.count * age - s.sum) <= Variance(s)

\* Mutant of AtMost: the signs of the standard deviation are swapped.
AtMostSwapped(s, w, age) ==
  \/ w = 1 /\ (age <= s.min \/ WithinSpread(s, age))
  \/ w = 2 /\ (age <= s.min \/ (age <= s.max /\ s.count * age <= s.sum))
  \/ w = 3 /\ age <= s.max /\ BelowSpread(s, age)
  \/ w = 4 /\ age <= s.max

AtMost(s, w, age) ==
  \/ w = 1 /\ (age <= s.min \/ BelowSpread(s, age))
  \/ w = 2 /\ (age <= s.min \/ (age <= s.max /\ s.count * age <= s.sum))
  \/ w = 3 /\ age <= s.max /\ WithinSpread(s, age)
  \/ w = 4 /\ age <= s.max

\* Mutant of Window: the loop stops one window early.
WindowOfThree(s, age) ==
  IF AtMost(s, 1, age) THEN 1
  ELSE IF AtMost(s, 2, age) THEN 2
  ELSE IF AtMost(s, 3, age) THEN 3
  ELSE 5

\* The first window whose boundary is not below the age.  The fifth
\* boundary is one past the end of window_boundaries.
Window(s, age) ==
  IF AtMost(s, 1, age) THEN 1
  ELSE IF AtMost(s, 2, age) THEN 2
  ELSE IF AtMost(s, 3, age) THEN 3
  ELSE IF AtMost(s, 4, age) THEN 4
  ELSE 5

(* estimateObjectEvictionScore() *)
WINDOW_WEIGHTS == <<40, 30, 20, 15, 5>>

\* Mutant of WeightOf: the array is read backward.
WeightOfReversed(w) == WINDOW_WEIGHTS[6 - w]

\* The loop runs over 1 .. NUM_WINDOWS - 1 and reads the array, which
\* starts at 0, with the same index: WINDOW_WEIGHT_1 is never used.
WeightOf(w) == WINDOW_WEIGHTS[w + 1]

\* Mutant of Score: the frequency is held against the key.
ScoreAverage(ws) ==
  IF ws = << >> THEN 0
  ELSE -(FoldLeft(LAMBDA t, w : t + WeightOf(w), 0, ws) \div Len(ws))

\* The weights of the accesses and the tie-breaker, negated.
Score(ws) == -(FoldLeft(LAMBDA t, w : t + WeightOf(w), 0, ws) + Len(ws))

-----------------------------------------------------------------------------
ScoreInit == /\ ages \in [Samples -> Histories]
             /\ pc = "observe"
             /\ j = 1 /\ i = 1
             /\ stats = NoStats
             /\ windows = [n \in Samples |-> << >>]

Observe ==
  /\ pc = "observe" /\ j \in Samples /\ i <= Len(ages[j])
  /\ stats' = Observed(stats, ages[j][i])
  /\ i' = i + 1
  /\ UNCHANGED <<ages, pc, j, windows>>

Classify ==
  /\ pc = "score" /\ j \in Samples /\ i <= Len(ages[j])
  /\ windows' = [windows EXCEPT ![j] = Append(@, Window(stats, ages[j][i]))]
  /\ i' = i + 1
  /\ UNCHANGED <<ages, pc, j, stats>>

NextSample ==
  /\ pc \in {"observe", "score"} /\ j \in Samples /\ i > Len(ages[j])
  /\ j' = j + 1 /\ i' = 1
  /\ UNCHANGED <<ages, pc, stats, windows>>

NextLoop ==
  /\ pc \in {"observe", "score"} /\ j = SampleCount + 1
  /\ pc' = IF pc = "observe" THEN "score" ELSE "done"
  /\ j' = 1 /\ i' = 1
  /\ UNCHANGED <<ages, stats, windows>>

ScoreNext == Observe \/ Classify \/ NextSample \/ NextLoop

ScoreSpec == ScoreInit /\ [][ScoreNext]_scoreVars

-----------------------------------------------------------------------------
ScoreTypeOK == /\ ages \in [Samples -> Histories]
               /\ pc \in {"observe", "score", "done"}
               /\ j \in 1 .. SampleCount + 1
               /\ i \in 1 .. HistorySize + 1
               /\ stats \in [min : Nat, max : Nat, sum : Nat, squares : Nat, count : Nat]
               /\ windows \in [Samples -> Seq(1 .. 5)]

(***************************************************************************)
(* The statistics are those of a population: the mean lies between the     *)
(* extremes and the variance is not negative, so that sqrt() returns a     *)
(* number and no boundary falls outside the ages.                          *)
(***************************************************************************)
Population(s) == s.count > 0 => /\ s.min <= s.max
                                /\ s.count * s.min <= s.sum
                                /\ s.sum <= s.count * s.max
                                /\ Variance(s) >= 0
PopulationStats == Population(stats)

(***************************************************************************)
(* No sum of calculateStatistics() has ever needed as many as the unsigned *)
(* numbers below width: the sums only grow, so the code's are these.       *)
(***************************************************************************)
SumsFit(width) == stats.sum < width /\ stats.squares < width

(***************************************************************************)
(* The boundaries ascend, so the window an access is counted in is the     *)
(* newest one that includes it, for any age.                               *)
(***************************************************************************)
NestedWindows ==
  pc # "observe" /\ stats.count > 0 =>
    \A age \in Ages, w \in 1 .. 3 : AtMost(stats, w, age) => AtMost(stats, w + 1, age)

(***************************************************************************)
(* Every recorded access falls in one of the four windows that have a      *)
(* boundary: window_boundaries[5], past the end of the array, is not read  *)
(* and no access is left out of the score.                                 *)
(***************************************************************************)
EveryAccessCounted ==
  \A n \in Samples : \A m \in 1 .. Len(windows[n]) : windows[n][m] \in 1 .. 4

(***************************************************************************)
(* A sampled key whose accesses are, one by one, no younger than those of  *)
(* another key with as many accesses is no worse a candidate.              *)
(***************************************************************************)
Older(a, b) == Len(a) = Len(b) /\ \A m \in 1 .. Len(a) : a[m] >= b[m]
OlderGoesFirst ==
  pc = "done" => \A a, b \in Samples :
    Older(ages[a], ages[b]) => Score(windows[a]) >= Score(windows[b])

(***************************************************************************)
(* A sampled key that has all the accesses of another one, and others, is  *)
(* a worse candidate.                                                      *)
(***************************************************************************)
MoreAccessesStay ==
  pc = "done" => \A a, b \in Samples :
    /\ Len(ages[a]) < Len(ages[b])
    /\ IsSuffix(ages[a], ages[b])
    => Score(windows[b]) < Score(windows[a])

(***************************************************************************)
(* Ranking the same keys later, without an access in between, gives the    *)
(* same scores: the windows move with the ages.  Scores of different calls *)
(* meet in the pool.                                                       *)
(***************************************************************************)
StatsOf(a) == FoldLeft(Observed, NoStats, FlattenSeq([n \in Samples |-> a[n]]))
Later(a) == [n \in Samples |-> [m \in DOMAIN a[n] |-> a[n][m] + 1]]
LaterIsTheSame ==
  pc = "done" => \A n \in Samples : \A m \in 1 .. Len(ages[n]) :
    windows[n][m] = Window(StatsOf(Later(ages)), ages[n][m] + 1)

(***************************************************************************)
(* The windows stand on sound statistics: those of one population, with    *)
(* boundaries that are nested, so that every access is counted exactly     *)
(* once (evict.c:107-141, 321-336).                                        *)
(***************************************************************************)
WindowsAreSound == PopulationStats /\ NestedWindows /\ EveryAccessCounted

(***************************************************************************)
(* Scores rank as the policy means it: the key with the older accesses     *)
(* goes first, more accesses keep a key, and neither depends on when the   *)
(* score is computed, since scores of different calls meet in the pool     *)
(* (evict.c:300-347, 458).                                                 *)
(***************************************************************************)
ScoresRank == OlderGoesFirst /\ MoreAccessesStay /\ LaterIsTheSame
=============================================================================
