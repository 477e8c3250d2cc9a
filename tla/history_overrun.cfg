SPECIFICATION HistorySpec
INVARIANTS
  StampsFitTheArray
CONSTANTS
  Names = {k1, k2}
  None = None
  ArraySize = 2
  CounterMod = 4
  ClockMax = 2
  GarbageCounts <- MCNoGarbage
