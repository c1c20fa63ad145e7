SPECIFICATION FairSpec
CONSTANTS
    r1 = r1
    r2 = r2
    r3 = r3
    Requests = {r1, r2, r3}
    PromptLength <- Prompts
    MaxTokens <- Limits
    Priority <- Priorities
    PrefillStep = 1
    PrefillBatch = 2
    Modes <- BothModes
    AsyncEvalFails = TRUE
INVARIANTS
    EngineAgrees
    StreamExact
PROPERTIES
    KeepsLifecycle
    Drains
CHECK_DEADLOCK FALSE
