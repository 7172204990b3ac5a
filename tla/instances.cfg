SPECIFICATION FetchSpec
CONSTANTS
  Ids = {k1, k2, k3}
  Owners = {Null, a, b}
  Notes = {Null, Default, x}
  Null = Null
  Default = Default
  Unloaded = Unloaded
  Unset = Unset
  Unknown = Unknown
  NoRow = NoRow
  NoKey = NoKey
  NoEntry = NoEntry
  ContextScope = ContextScope
  EagerDefaults = TRUE
INVARIANTS
  EntriesReplay
  ScopeOfTheRow
