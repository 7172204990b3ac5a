SPECIFICATION BoundedSpec
CONSTANTS
  c1 = c1
  c2 = c2
  Conns = {c1, c2}
  MaxTransactions = 4
  MaxWrites = 3
SYMMETRY ConnsSymmetry
INVARIANTS
  CacheSound
  CacheComplete
  SharedHeader
  OneHeaderWhenLogging
  IInv
  EntriesMatchChanges
PROPERTY
  ImplementsScopes
