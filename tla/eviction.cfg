SPECIFICATION FairSpec
INVARIANTS
  FreedIsReleased
  FailMeansNothingToEvict
  WorkIsContinued
PROPERTIES
  EvictsOnlyEvictable
  TimerStops
  TimerStopsWhenDone
  CallsReturn
CONSTANTS
  k1 = k1
  k2 = k2
  k3 = k3
  Keys = {k1, k2, k3}
  NULL = NULL
  PoolSize = 2
  IdleRanks <- MCIdleRanks
  ScoreRanks <- MCScoreRanks
  DbNum = 3
  UIntRange = 4
  DbOf <- MCDbOf
  Policies = {"allkeys-lru-histogram", "volatile-lru", "volatile-random", "noeviction"}
  Limits = {0, 1}
  MaxSamples = 2
  CheckEvery = 2
  MaxOther = 1
  MaxLazy = 1
