SPECIFICATION FunctionsSpec
INVARIANTS
  WindowsAreSound
  ScoresRank
  EncodingsComeBack
  DumpIsLoaded
  KeysAreFound
  DecayIsFair
CONSTANTS
  SampleCount = 2
  HistorySize = 3
  MaxAge = 3
  Rests = 4
  IntLen = 6
  LzfLen = 20
  DbNum = 2
  Now = 5
  EMPTY = EMPTY
  NoInfo = NoInfo
  Minutes = 8
  MaxCount = 6
  Lengths <- MCLengths
  Numbers <- MCNumbers
  Strings <- MCStrings
  Doubles <- MCDoubles
  Servers <- MCServers
  Loaders <- MCLoaders
  Clocks = {0, 3, 7, 8, 9, 14}
  Decays = {0, 1, 2}
CHECK_DEADLOCK FALSE
