SPECIFICATION Spec
CONSTANTS
    Procs = {p1, p2}
    None = None
    MaxQueued = 1
    Mode = "proxy"
    MayThrow = FALSE
    MayCrash = FALSE
PROPERTIES
    MountSuccessIsActive
