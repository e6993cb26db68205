SPECIFICATION Spec
CONSTANTS
  t1 = t1
  t2 = t2
  m1 = m1
  m2 = m2
  s1 = s1
  None = None
  Threads = {t1, t2}
  Specs = {m1, m2}
  ModelId <- MCModelId
  Configured = m1
  Questions <- MCQuestions
  Searches = {s1}
  Passages <- MCPassages
  Replies <- MCReplies
  Refusal <- MCRefusal
  StepLimit <- MCStepLimit
  UseHybrid = FALSE
  TopK = 1
  MaxSteps = 2
  AnswerMax = 1
  MaxPromotions = 1
  Word <- MCWord
  NameWords <- MCNames
  Unknown = "unknown"
  PromptLines <- MCPromptLines
  MinGrounding = 300
SYMMETRY Symmetry
INVARIANTS
  BoundToModel
  NothingLeaked
  VerdictIsOfAnswer
  SilenceMeansSupported
  SourcesKnownOfOne
