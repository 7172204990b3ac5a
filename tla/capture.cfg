SPECIFICATION HostSpec
CONSTANTS
  Expired = Expired
  Missing = Missing
  Unset = Unset
  NoValue = NoValue
  Items = {i1}
  Docs = {d1, d2}
  MaxCopies = 1
  MayToggle = TRUE
  ExpireOnCommit = TRUE
  MaxDepth = 2
INVARIANTS
  DeltaIsNet
  EntryIsChange
  IInv
CHECK_DEADLOCK FALSE
