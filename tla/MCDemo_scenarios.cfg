\* The dashboard's scenarios over the whole system, with failures.
SPECIFICATION FairDemo
CONSTANTS
    j1 = j1  j2 = j2
    Jobs = {j1, j2}
    Types = {"email", "report", "invoice", "image", "sleep"}
    Registered = {"email", "report", "invoice", "image", "sleep"}
    EmailType = "email"
    Payloads <- AllPayloads
    OutsideFails = FALSE
    Delay = 1
    Scenarios = {"A", "B", "C", "D", "E"}
    DemoQueue = "default"
    Queues = {"default"}
    Keys = {}
    NoKey = NoKey
    NoRow = NoRow
    FaultKinds = {"store", "broker", "apiCrash", "promoterCrash"}
    MaxFaults = 2
    Workers = {w1}
    NoWorker = NoWorker
    Goroutines = {g1}
    Limit = 0
    Offered = {}
    Budgets = {0}
    MaxTime = 2
    Callers = {c1}
    NoJob = NoJob
    RunAts = {0}
    Operations = {"retry", "pause"}
    PromoteLimit = 50
    MaxJobs = 0
CHECK_DEADLOCK FALSE
INVARIANTS
    SysTypeOK
    NotBeforeDue
    SubmittedIsDurable
    ScenarioOutcome
PROPERTY
    ScenarioEnds
