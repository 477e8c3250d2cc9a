SPECIFICATION Spec
INVARIANTS
  PoolShape
PROPERTIES
  OrderKept
  DropsOnlyWorst
CONSTANTS
  Keys = {k1, k2}
  NULL = NULL
  PoolSize = 3
  IdleRanks <- MCIdleRanks
  ScoreRanks <- MCScoreRanks
