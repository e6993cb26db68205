SPECIFICATION Spec
CONSTANTS
  t1 = t1
  t2 = t2
  i1 = i1
  i2 = i2
  q1 = q1
  q2 = q2
  s1 = s1
  s2 = s2
  None = None
  Threads = {t1, t2}
  Ingesters = {i1}
  Questions = {q1}
  Searches = {s1}
  AnswerTTL = 1
  AnswerMax = 1
  RetrievalTTL = 1
  RetrievalMax = 1
  UseHybrid = TRUE
  MultiQuery = FALSE
  OtherProcesses = FALSE
  MayRaise = FALSE
  MaxSteps = 1
  MaxVersion = 2
  MaxLatency = 0
SYMMETRY Symmetric
INVARIANTS
  HybridFreshness
