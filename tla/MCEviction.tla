----------------------------- MODULE MCEviction -----------------------------
EXTENDS Eviction
CONSTANTS k1, k2, k3
\* The first key in database 0, the second in 1, the third in 0 or 2.
MCDbOf == [k \in Keys |-> IF k = k1 THEN 0 ELSE IF k = k2 THEN 1 ELSE 2 % DbNum]
MCIdleRanks == {0}
MCScoreRanks == {0}
=============================================================================
