SPECIFICATION Spec
CONSTANTS
    v1 = v1
    v2 = v2
    Servers = {v1}
    Web = Web
    Images <- SameServer
    Monitors = {1, 2}
    Retries = {1, 2}
    MaxAttempts = 2
    PileUp = FALSE
    None = None
INVARIANT
    SameServerIsWatched
