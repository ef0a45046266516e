SPECIFICATION Spec
CONSTANTS
    Procs = {p1, p2}
    None = None
    MaxQueued = 2
    Mode = "proxy"
    MayThrow = TRUE
    MayCrash = TRUE
SYMMETRY Symmetry
INVARIANTS
    TypeOK
    NoOrphan
    StopIsComing
    RemovalIsComing
    CompletionOwed
    ReadyIsClean
PROPERTIES
    UnmountReportsRemoval
    ImplementsService
