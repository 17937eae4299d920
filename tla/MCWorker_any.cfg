\* The workers under every kind of outside failure.
SPECIFICATION Spec
CONSTANTS
    j1 = j1  j2 = j2  w1 = w1  w2 = w2  g1 = g1  g2 = g2  g3 = g3
    Jobs = {j1, j2}
    Types = {"email", "report", "sms"}
    Registered = {"email", "report"}
    EmailType = "email"
    Payloads <- TwoPayloads
    OutsideFails = TRUE
    Queues = {"default"}
    Keys = {}
    NoKey = NoKey
    NoRow = NoRow
    FaultKinds = {"store", "broker", "commit", "rebalance", "crash"}
    MaxFaults = 1
    Workers = {w1, w2}
    NoWorker = NoWorker
    Goroutines = {g1, g2}
    Limit = 1
    Offered <- AllKinds
    Budgets = {0, 1}
SYMMETRY Symmetry
CHECK_DEADLOCK FALSE
INVARIANTS
    TypeOK
    LimiterExact
    CompletedEmailHasOutbox
    RetryChain
    ArchivedAfterEveryAttempt
