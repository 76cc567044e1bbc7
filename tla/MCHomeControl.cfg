CONSTANTS
    m1 = m1
    m2 = m2
    b1 = b1
    none = none
    Mobiles = {m1, m2}
    Bulbs = {b1}
    NullAddr = none
    SavedBulb = b1
SPECIFICATION HomeSafety
INVARIANTS
    HomeTypeOK
    BulbStateMatchesLink
    PhoneKeepsFlag
    NotifiesOnlyConnected
    LampFollowsState
    
PROPERTY OnlyEncryptedPhoneCommands
