SPECIFICATION FairSpec
CONSTANTS
  t1 = t1
  t2 = t2
  i1 = i1
  i2 = i2
  q1 = q1
  q2 = q2
  s1 = s1
  s2 = s2
  None = None
  Threads = {t1}
  Ingesters = {i1}
  Questions = {q1, q2}
  Searches = {s1}
  AnswerTTL = 1
  AnswerMax = 1
  RetrievalTTL = 1
  RetrievalMax = 1
  UseHybrid = FALSE
  MultiQuery = TRUE
  OtherProcesses = TRUE
  MayRaise = TRUE
  MaxSteps = 2
  MaxVersion = 1
  MaxLatency = 1
INVARIANTS
  QuietIngestInvalidates
  StalenessBound
PROPERTIES
  RequestsEnd
