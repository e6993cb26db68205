SPECIFICATION LimiterSpec
CONSTANTS
  i1 = i1
  i2 = i2
  Instances = {i1, i2}
  Limit = 2
  Window = 3
  Second = 1
  MaxIPs = 2
INVARIANTS
  CapHolds
  HintSuffices
PROPERTIES
  NotForever
