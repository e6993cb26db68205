SPECIFICATION Spec
CONSTANTS
  t1 = t1
  t2 = t2
  k1 = k1
  k2 = k2
  k3 = k3
  NoVal = NoVal
  Threads <- MCThreads
  Keys <- MCKeys
  Versions = {1, 2}
  MaxSize = 2
  TTL = 1
  Attempts = 2
SYMMETRY Symmetric
INVARIANTS
  Bounded
  RightKey
  FailsOnlyExhausted
PROPERTIES
  EvictsLeastRecent
  LossySpec
