SPECIFICATION Spec
CONSTANTS
  Conns = {c1, c2}
  MaxTransactions = 2
  MaxWrites = 3
INVARIANTS
  OneHeader
