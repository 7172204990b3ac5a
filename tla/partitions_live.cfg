CONSTANTS
    Severities = {10}
    Layouts <- OneSeverity
    Plain = {}
    Clients = {c1}
    Keepers = {k1}
    Policies <- OneMonth
    MonthsAhead = 0
    MinMonthsAhead = 0
    AutoCreate = TRUE
    OnError = "log"
    None = None
    Unbounded = 99
    MaxRetention = 1
    Ticks = 1
    MaxTime = 3
    MaxOpens = 1
    MaxCalls = 1
    MaxFaults = 1
SPECIFICATION FairSpec
PROPERTIES CallsReturn ExpiredGoes
