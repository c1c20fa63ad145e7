SPECIFICATION FairSpec
CONSTANTS
  Requests = {"r1", "r2", "r3"}
  Prompt <- MCPrompt
  Image <- MCImage
  SamplingKey <- MCSamplingKey
  MaxTokens = 2
  PromptConcurrency = 2
  DecodeConcurrency = 2
  Budget = 5
  VisionEntries = 1
  VisionBytes = 2
  SequenceBytes = 1
  TextBytes = {0, 3}
  MaxEntries = 2
  MaxBytes = 3
  CanTrim = TRUE
INVARIANTS
  GeneratorAgrees
  BudgetKept
CHECK_DEADLOCK FALSE
PROPERTIES
  ServedUnlessOvertaken
