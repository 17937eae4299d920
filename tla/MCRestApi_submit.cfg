\* The REST layer over the backend, with both rate limits.
SPECIFICATION RestSpec
CONSTANTS
    j1 = j1  j2 = j2  c1 = c1  c2 = c2
    Jobs = {j1, j2}
    Types = {"email", "report"}
    Registered = {"email", "report"}
    EmailType = "email"
    Payloads = {"fine"}
    Queues = {"a"}
    Keys = {}
    NoKey = NoKey
    NoRow = NoRow
    FaultKinds = {"store", "broker", "apiCrash"}
    MaxFaults = 1
    Offered <- Reports
    Budgets = {0}
    MaxTime = 3
    Callers = {c1, c2}
    NoJob = NoJob
    RunAts = {0}
    Operations = {"cancel", "retry", "pause"}
    Buckets = {"a", "global"}
    Global = "global"
    PerMinute <- Limits
    TickSeconds = 30
    Methods = {"GET", "POST"}
    Paths <- Served
VIEW Unrecorded
SYMMETRY Symmetry
CHECK_DEADLOCK FALSE
INVARIANTS
    WithinRate
    RetryAfterSuffices
PROPERTY
    ClientErrorChangesNothing
