SPECIFICATION HistorySpec
INVARIANTS
  SoundHistory
PROPERTIES
  IdleSurvivesReload
CONSTANTS
  Names = {k1, k2}
  None = None
  ArraySize = 2
  CounterMod = 4
  ClockMax = 3
  GarbageCounts <- MCGarbageCounts
SYMMETRY KeySymmetry
CONSTRAINT MCAKeyIsFree
