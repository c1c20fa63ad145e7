SPECIFICATION RadixSpec
CONSTANTS
    Slots = {s1, s2}
    Prompts <- PromptSet
    PageSize = 2
    MaxEntries = 3
    MaxPages = 2
    MaxNodes = 10
VIEW View
SYMMETRY Symmetry
INVARIANTS
    TreeSound
    HoldingsExact
PROPERTIES
    RadixKeepsIndex
CHECK_DEADLOCK FALSE
