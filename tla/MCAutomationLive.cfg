SPECIFICATION AFairSpec
CONSTANTS
  w1 = w1
  w2 = w2
  d1 = d1
  d2 = d2
  a = a
  b = b
  None = None
  Empty = Empty
  Garbled = Garbled
  Workers = {w1}
  Docs = {d1, d2}
  Texts = {a, b}
  UsePostgres = FALSE
  MayForce = FALSE
  MayRaise = FALSE
  MayCrash = FALSE
  Ephemeral = FALSE
  MayRecreate = FALSE
  MaxEdits = 2
  MaxCopies = 2
  Watcher = w1
  Nested = {d2}
INVARIANTS
  EmbedsOnce
PROPERTIES
  EventuallyReflected
  WatcherSettles
