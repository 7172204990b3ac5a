SPECIFICATION Spec
CONSTANTS
  Expired = Expired
  Missing = Missing
  Unset = Unset
  NoValue = NoValue
  Items = {i1}
  Docs = {d1}
  MaxCopies = 1
  MayToggle = TRUE
  ExpireOnCommit = TRUE
  MaxDepth = 1
INVARIANTS
  EntryIsChangeSinceLastFlush
CHECK_DEADLOCK FALSE
