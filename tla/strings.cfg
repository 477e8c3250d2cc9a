SPECIFICATION Spec
INVARIANTS
  HeapSound
  PrivateWhenNeeded
  ReplicaFollows
PROPERTIES
  MapSpec
CONSTANTS
  k1 = k1
  k2 = k2
  Keys = {k1, k2}
  NULL = NULL
  Texts <- MCTexts
  MaxText = 3
  SharedIntegers = 2
  EmbLimit = 1
  MaxQueue = 2
  Rests = 4
  IntLen = 11
  LzfLen = 20
SYMMETRY KeySymmetry
