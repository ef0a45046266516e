SPECIFICATION LiveSpec
CONSTANTS
    v1 = v1
    v2 = v2
    Servers = {v1, v2}
    Web = Web
    Images <- MCImages
    Monitors = {1, 2}
    Retries = {1, 2}
    MaxAttempts = 2
    PileUp = FALSE
    None = None
INVARIANTS
    TypeOK
    QuietSurvives
    MountedIsWatched
    OneOfEach
    FlagIsOwned
PROPERTIES
    RetryAdvances
    RetryEnds
    LostIsUnmounted
