SPECIFICATION CallsSpec
CONSTANTS
  a = a
  b = b
  c = c
  NaN = NaN
  Missing = Missing
  Word <- MCWord
  NameWords <- MCNames
  Unknown = "unknown"
  PromptLines = {}
  MinGrounding = 300
  Documents <- MCDocuments
  Sizes = {1, 2, 3, 4}
  Chunks = {a, b, c}
  Points = {0, 1, 2}
  Weights = {30, 50, 80}
  Marks = {760, 800, 850}
  Metrics = {"faithfulness", "answer_correctness"}
  Answers <- MCAnswers
  Contexts <- MCContexts
INVARIANTS
  ChunksSound
  FusionSound
  
  PicksBestOfNumbers
  AuditSound
