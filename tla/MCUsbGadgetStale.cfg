SPECIFICATION Spec
CONSTANTS
    Slots = {s1, s2}
    Legacy = {s2}
    Ids = {i1, i2}
    Ports = {p1, p2}
    Hub = "vhub"
    None = None
    CallsMayFail = FALSE
    MaxSignals = 2
    MaxChildren = 2
    MaxCalls = 2
PROPERTIES
    NothingRemovedNothingErased
