CONSTANTS
    c1 = c1
    c2 = c2
    c3 = c3
    Calls = {c1, c2, c3}
    Operations <- AnyOperation
    Operators <- People
    Requests <- AnyRequest
    MaxRequests = 2
    Visibilities <- Readers
    MaxReads = 1
    MaxDropped = 2
    None = None
SPECIFICATION SettingSpec
CHECK_DEADLOCK FALSE
SYMMETRY AnyCall
INVARIANTS ReadingTypeOK ErasedForGood OnlyAskedFor CountsAddUp NothingHiddenIsShown ErasedIsNotShown
PROPERTY NothingComesBack
