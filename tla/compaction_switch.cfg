SPECIFICATION Spec
CONSTANTS
  Objects = {o1}
  Actors = {a1}
  Scopes = {t1}
  Values = {"a", "b"}
  Secrets = {"null", "x"}
  Items = {"i"}
  MaxFlushes = 2
INVARIANTS
  NetChange
CHECK_DEADLOCK FALSE
