SPECIFICATION FairSpec
PROPERTIES
  RandomKeyAlwaysEnds
CONSTANTS
  k1 = k1
  k2 = k2
  v1 = v1
  Dbs = {0}
  Names = {k1, k2}
  Values = {v1}
  NULL = NULL
  MaxTime = 1
  MaxTries = 2
  Roles = {"master"}
