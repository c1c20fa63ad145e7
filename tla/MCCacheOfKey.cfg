SPECIFICATION Spec
CONSTANTS
    r1 = r1
    r2 = r2
    r3 = r3
    Requests = {r1, r2}
    Streaming = {r1}
    Prompts <- SmallPrompts
    Tokens = {"a", "b", "eos"}
    HalfTokens = {"b"}
    MaxTokens = 2
    MaxPromptTokens = 2
    PromptConcurrency = 1
    DecodeConcurrency = 2
    AllTokens = TRUE
    MaxEntries = 2
    MaxBytes = 4
    CanTrim = TRUE
INVARIANTS
    CacheOfKey
CHECK_DEADLOCK FALSE
