\* Cancellations racing retries and redelivered messages.
SPECIFICATION SysSpec
CONSTANTS
    j1 = j1  j2 = j2  c1 = c1  c2 = c2  g1 = g1  g2 = g2
    Jobs = {j1, j2}
    Types = {"email", "report"}
    Registered = {"email", "report"}
    EmailType = "email"
    Payloads <- OnePayload
    OutsideFails = TRUE
    Queues = {"default"}
    Keys = {}
    NoKey = NoKey
    NoRow = NoRow
    FaultKinds = {"rebalance"}
    MaxFaults = 1
    Workers = {w1}
    NoWorker = NoWorker
    Goroutines = {g1, g2}
    Limit = 0
    Offered <- OneReport
    Budgets = {1}
    MaxTime = 1
    Callers = {c1}
    NoJob = NoJob
    RunAts = {0}
    Operations = {"cancel"}
    PromoteLimit = 50
VIEW Unrecorded
SYMMETRY Symmetry
CHECK_DEADLOCK FALSE
INVARIANTS
    NoJobForgotten
