\* Everything that makes jobs, with failures of all kinds.
SPECIFICATION IntakeSpec
CONSTANTS
    j1 = j1  j2 = j2  j3 = j3  u1 = u1  u2 = u2
    Jobs = {j1, j2, j3}
    Types = {"email", "report", "invoice", "image", "hello", "sleep"}
    Registered = {"email", "report", "invoice", "image", "hello", "sleep"}
    EmailType = "email"
    Payloads <- AllPayloads
    OutsideFails = TRUE
    Delay = 1
    Queues = {"default"}
    Keys = {"k"}
    NoKey = NoKey
    NoRow = NoRow
    FaultKinds = {"store", "broker", "apiCrash", "schedulerCrash", "connection", "commit", "rebalance"}
    MaxFaults = 1
    Offered <- Ingested
    Budgets = {0, 2}
    MaxTime = 1
    Callers = {u1, u2, ingester}
    NoJob = NoJob
    RunAts = {0, 2, 3}
    Operations = {}
    Users = {u1, u2}
    Requests <- Programs
    MaxTries = 2
    FakeTypes <- OneRound
    FakePayload <- Sound
    FakeQueue = "default"
    NoFake = NoFake
    MaxRounds = 1
    Inbox <- Messages
    Ingester = ingester
VIEW Unordered
SYMMETRY Symmetry
CHECK_DEADLOCK FALSE
INVARIANTS
    IntakeTypeOK
    SameKeySameJob
    QueuedMeansQueued
    OneJobPerIntent
    IngestOnce
    LossPerFault
    OrphansPerFault
