SPECIFICATION Spec
INVARIANTS
  TypeOK
  AllOrNothing
  Applied
  FileSurvives
  RewritesKeep
CONSTANTS
  Default <- MCDefault
  Requests <- MCRequests
  Files <- MCFiles
  Included <- MCIncluded
  Remarks = {"c", "d"}
  Orders <- MCOrders
  MaxAddresses = 1
  LowClients = 2
  MaxSets = 2
  MaxRewrites = 1
  MaxEdits = 1
  MaxCrashes = 1
CHECK_DEADLOCK FALSE
