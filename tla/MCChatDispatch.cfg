SPECIFICATION FairSpec
CONSTANTS
    Requests = {s1, n1}
    Streaming = {s1}
    MaxDown = 1
    MaxDeltas = 1
INVARIANTS
    BooksExact
    AnswerComing
PROPERTIES
    EveryRequestEnds
CHECK_DEADLOCK FALSE
