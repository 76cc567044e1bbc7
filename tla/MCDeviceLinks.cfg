CONSTANTS
    m1 = m1
    m2 = m2
    b1 = b1
    none = none
    Mobiles = {m1, m2}
    Bulbs = {b1}
    NullAddr = none
    SavedMobile = m1
SPECIFICATION LinksSpec
INVARIANTS
    LinksTypeOK
    CountsConnections
    SelectedIsConnected
    EncryptedOnThisLink
    DiscoveryFlagIsLive
    EntryHasItsRole
    BulbSlotCoversProcedure
    OnlyBondedRemain
PROPERTY ImplementsView
CHECK_DEADLOCK TRUE
