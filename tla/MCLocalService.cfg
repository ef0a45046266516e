SPECIFICATION Spec
CONSTANTS
    NumSlots = 4
    Legacy = {2, 3}
    LocalFiles = {f1, f2}
    Remote = Remote
    None = None
    Infos = {i1, i2}
    LMEDIA = LMEDIA
    MaxWaiting = 1
    Reupload = FALSE
    LegacyLocal = FALSE
SYMMETRY Symmetry
INVARIANTS
    TypeOK
    InfoBelongs
PROPERTY
    IsOneDrive
