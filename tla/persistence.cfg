SPECIFICATION FairSpec
INVARIANTS
  NothingIsLeft
  DumpSurvives
  NoChangeForgotten
PROPERTIES
  NewerDumpStays
  ChildrenEnd
CONSTANTS
  c1 = c1
  r1 = r1
  r2 = r2
  Children = {c1}
  Replicas = {r1}
  ReqOf <- MCReqOf
  MaxChanges = 2
  MaxCrashes = 1
