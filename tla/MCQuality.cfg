SPECIFICATION Spec
CONSTANTS
  v1 = v1
  v2 = v2
  p1 = p1
  p2 = p2
  t1 = t1
  q1 = q1
  a = a
  b = b
  NaN = NaN
  Missing = Missing
  NoReference = NoReference
  NoCase = NoCase
  NoFile = NoFile
  Unreadable = Unreadable
  Voters = {v1, v2}
  Questions = {q1}
  References = {a, b}
  StoreRaises = TRUE
  Tracers = {t1}
  TracesRaise = TRUE
  Runners = {p1, p2}
  Outcomes <- SomeOutcomes
  Committed <- TheBaseline
  Threshold = 50
  Floor = 800
  MaxOps = 3
SYMMETRY Symmetric
CHECK_DEADLOCK FALSE
INVARIANTS
  PromisesKept
  CorrectionsAsked
  NoCreep
  EvalExplainsGate
  CountedOnce
