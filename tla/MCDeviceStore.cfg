CONSTANTS
    m1 = m1
    m2 = m2
    b1 = b1
    none = none
    Mobiles = {m1}
    Bulbs = {b1}
    NullAddr = none
    MaxCells = 4
SPECIFICATION StoreSpec
INVARIANTS
    StoreTypeOK
    ListsEnd
    OneEntryEach
PROPERTIES
    PairedEntryStays
    SavedRemoteIsKept
