SPECIFICATION HybridSpec
CONSTANTS
    Pages = {p1, p2, p3, p4}
    Handles = {h1, h2}
    PageSize = 2
    MaxLength = 4
    MaxAppend = 2
    Window = 1
VIEW View
SYMMETRY Symmetry
INVARIANTS
    RefCountsExact
    FreePagesUnused
    ReservationSound
    PreflightAgrees
PROPERTIES
    CommitReclaims
    KeepsDense
