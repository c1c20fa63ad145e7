SPECIFICATION AdmissionFairSpec
CONSTANTS
    Threads = {r1, r2, r3, r4}
    MaxActive = 1
    MaxPending = 2
INVARIANTS
    CountsExact
PROPERTIES
    QueuedStays
    SlotsGetUsed
CHECK_DEADLOCK FALSE
