SPECIFICATION LiveSpec
CONSTANTS
    Procs = {p1}
    None = None
    MaxQueued = 1
    Mode = "proxy"
    MayThrow = FALSE
    MayCrash = FALSE
PROPERTIES
    TimeoutAnswered
