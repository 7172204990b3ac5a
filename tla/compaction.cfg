SPECIFICATION SettingSpec
CONSTANTS
  o1 = o1
  o2 = o2
  a1 = a1
  a2 = a2
  t1 = t1
  t2 = t2
  Objects = {o1, o2}
  Actors = {a1, a2}
  Scopes = {t1, t2}
  Values = {"a", "b"}
  Secrets = {"null", "x"}
  Items = {"i"}
  MaxFlushes = 4
INVARIANTS
  NetChangeUnlessSwitched
  Idempotent
  DirectionKept
  ErasedStillShown
CHECK_DEADLOCK FALSE
