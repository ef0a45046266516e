SPECIFICATION LiveSpec
CONSTANT Timeout = 3
INVARIANT TypeOK
PROPERTIES
    OnlyIdleUnmounts
    RemainingIsKept
    IdleEnds
