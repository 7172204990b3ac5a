CONSTANTS
    t1 = t1
    t2 = t2
    t3 = t3
    t4 = t4
    t5 = t5
    t6 = t6
    t7 = t7
    t8 = t8
    s1 = s1
    s2 = s2
    own = own
    children = children
    Rows <- Upto3
    Txs = {t1, t2, t3, t4, t5, t6, t7, t8}
    Times <- Upto3
    Listings <- AllListings
    Cancelling = {t3}
    None = None
    AllHistory = AllHistory
    Start = 2
    MaxNow = 3
SPECIFICATION SettingSpec
CHECK_DEADLOCK FALSE
SYMMETRY AnyTx
INVARIANTS ListedOnce NothingMissed NewestFirst PagesAdvance
