\* Two processors under failures of the store, of SMTP and of the processes.
SPECIFICATION OutboxSpec
CONSTANTS
    j1 = j1  s1 = s1  s2 = s2
    Jobs = {j1}
    Types = {"email"}
    Registered = {"email"}
    EmailType = "email"
    Payloads = {"fine"}
    Queues = {"default"}
    Keys = {}
    NoKey = NoKey
    NoRow = NoRow
    FaultKinds = {"store", "smtp", "crash"}
    MaxFaults = 2
    Senders = {s1, s2}
    BatchSize = 2
    MaxRows = 3
CHECK_DEADLOCK FALSE
INVARIANTS
    OutboxTypeOK
    OneMailPerFault
    SentMeansMailed
PROPERTIES
    EveryRowHandled
