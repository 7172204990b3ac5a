CONSTANTS
    c1 = c1
    c2 = c2
    c3 = c3
    k1 = k1
    k2 = k2
    k3 = k3
    Severities <- AllSeverities
    Layouts <- AllLayouts
    Plain <- PlainParts
    Clients = {c1, c2, c3}
    Keepers = {k1, k2, k3}
    Policies <- AllPolicies
    MonthsAhead = 1
    MinMonthsAhead = 1
    AutoCreate = TRUE
    OnError = "log"
    None = None
    Unbounded = 99
    MaxRetention = 6
    Ticks = 2
    MaxTime = 9
    MaxOpens = 1
    MaxCalls = 1
    MaxFaults = 1
SPECIFICATION SettingSpec
SYMMETRY AnyActor
INVARIANTS TransactionGoesFirst DetachesApply CoveredAhead AssuranceHolds CreatedOnce DurableOnce
PROPERTY OnlyExpiredGo
