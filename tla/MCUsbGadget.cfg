SPECIFICATION LiveSpec
CONSTANTS
    Slots = {s1, s2}
    Legacy = {s2}
    Ids = {i1, i2}
    Ports = {p1}
    Hub = "udc"
    None = None
    CallsMayFail = TRUE
    MaxSignals = 2
    MaxChildren = 2
    MaxCalls = 2
INVARIANTS
    TypeOK
    
    RevokedIsAnnounced
    EjectIsWatched
PROPERTIES
    EjectEnds
    RevokedEnds
