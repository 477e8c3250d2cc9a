--------------------------- MODULE MCEvictionPool ---------------------------
EXTENDS EvictionPool
\* Three ranks of each kind: a tie, a better and a worse candidate.
MCIdleRanks == 0 .. 2
MCScoreRanks == -2 .. 0
=============================================================================
