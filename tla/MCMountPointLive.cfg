SPECIFICATION LiveSpec
CONSTANTS
    Procs = {p1, p2}
    None = None
    MaxQueued = 1
    Mode = "legacy"
    MayThrow = FALSE
    MayCrash = TRUE
INVARIANTS
    StopIsComing
    MediaOnlyWhenActive
PROPERTIES
    DeactivationEnds
    ReleasedChildEnds
