SPECIFICATION Spec
INVARIANTS
  StaleOnlyWhenSuspect
SYMMETRY RequestSymmetry
CONSTANTS
  Requests = {r1, r2}
  Students = {s1, s2}
  NULL = NULL
  MaxId = 2
