SPECIFICATION SupervisorSpec
CONSTANTS
    Vlm = TRUE
INVARIANTS
    CleanedUp
PROPERTIES
    LossReported
    StopsOnSignal
CHECK_DEADLOCK FALSE
