\* Two schedules over three units of time; two failures; room for both in a tick.
SPECIFICATION RecurringSpec
CONSTANTS
    Jobs = {1, 2, 3, 4, 5, 6, 7}
    Types = {"email", "report"}
    Registered = {"email", "report"}
    EmailType = "email"
    Payloads = {"fine"}
    Queues = {"default"}
    Keys = {}
    NoKey = NoKey
    NoRow = NoRow
    FaultKinds = {"store", "broker", "schedulerCrash"}
    MaxFaults = 2
    Offered <- OneReport
    Budgets = {1}
    MaxTime = 3
    Schedules = {1, 2}
    NoSchedule = NoSchedule
    Periods = {1, 2}
    ScheduleLimit = 2
CHECK_DEADLOCK FALSE
INVARIANTS
    RecurringTypeOK
    NoRunSkipped
    NoRunEarly
    JobsPerRun
    OneJobAfterDelete
PROPERTY
    EveryRunHappens
