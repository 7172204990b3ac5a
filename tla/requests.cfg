CONSTANTS
    r1 = r1
    r2 = r2
    ann = ann
    bob = bob
    f1 = f1
    f2 = f2
    Reqs = {r1, r2}
    Actors = {ann, bob}
    Factories = {f1, f2}
    Parallel = {r2}
    MaxContexts = 3
    MaxEntries = 1
    MaxSettings = 2
    None = None
SPECIFICATION SettingSpec
CHECK_DEADLOCK FALSE
INVARIANTS OwnRequest CarriesTheActor BlockKeepsItsActor SessionAlive
