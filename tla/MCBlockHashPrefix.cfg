SPECIFICATION Spec
CONSTANTS
    Slots = {s1, s2}
    Prompts <- PromptSet
    PageSize = 2
    MaxEntries = 2
    MaxPages = 3
SYMMETRY Symmetry
INVARIANTS
    PinsExact
    SnapshotsExact
    LimitsYieldToPins
PROPERTIES
    KeepsIndex
CHECK_DEADLOCK FALSE
