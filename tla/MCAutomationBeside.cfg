SPECIFICATION ASpec
CONSTANTS
  w1 = w1
  w2 = w2
  d1 = d1
  d2 = d2
  a = a
  b = b
  None = None
  Empty = Empty
  Garbled = Garbled
  Workers = {w1, w2}
  Docs = {d1}
  Texts = {a, b}
  UsePostgres = TRUE
  MayForce = TRUE
  MayRaise = TRUE
  MayCrash = TRUE
  Ephemeral = TRUE
  MayRecreate = TRUE
  MaxEdits = 2
  MaxCopies = 1
  Watcher = w1
  Nested = {}
INVARIANTS
  StateAtRest
  ReturnMeansIndexed
  RecordedIsIndexed
  ReactsUndisturbed
