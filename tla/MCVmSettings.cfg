SPECIFICATION Spec
CONSTANTS
    u1 = u1
    u2 = u2
    Entries <- MCEntries
    UrlSlots = {"Slot_2", "Slot_3"}
    Urls = {u1, u2}
    Counts = {2, 3, 6, 7}
    Intervals = {14, 15, 30, 31}
    Delivered <- MCDelivered
    None = None
    Torn = Torn
INVARIANTS
    TypeOK
    FileIsWholeOrTorn
    MemoryCanRepair
    NothingUnsaved
PROPERTY
    RestartKeeps
