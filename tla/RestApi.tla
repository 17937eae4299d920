------------------------------ MODULE RestApi ------------------------------
(***************************************************************************)
(* The REST layer (internal/api/rest.go) in front of the backend and the   *)
(* rate limiter: routing, the checks before a call, the limiter's two      *)
(* questions, and the status code of the answer.  What creates and deletes *)
(* schedules is in Recurring; here these two requests are routed only.     *)
(***************************************************************************)
EXTENDS Backend, RateLimiter, RestAnswers

CONSTANTS
    Global,    \* the bucket all queues share
    Methods,   \* the HTTP methods
    Paths      \* the request paths, each split at its slashes

ASSUME RestAssumption ==
    /\ Global \notin Queues
    /\ Buckets = Queues \cup {Global}

VARIABLES
    http,     \* caller -> its request in progress
    answer    \* history: the answer given last

restVars == <<storeVars, faults, topic, now, apiVars, limiterVars, http, answer>>

----------------------------------------------------------------------------
(***************************************************************************)
(* ServeHTTP, serveAdmin and serveSchedules: method and path to operation. *)
(***************************************************************************)
RouteErrors == [noRoute |-> 404, noMethod |-> 405]

ByMethod(m, table) == IF m \in DOMAIN table THEN table[m] ELSE "noMethod"

JobRoute(m, p) ==
    CASE Len(p) = 1 -> ByMethod(m, [POST |-> "submit", GET |-> "list"])
      [] Len(p) \in 2 .. 3 /\ p[2] = "archived" ->
            IF m = "GET" THEN (IF Len(p) = 2 THEN "listArchived" ELSE "getArchived")
            ELSE "noRoute"
      [] Len(p) = 2 /\ p[2] # "archived" -> ByMethod(m, [GET |-> "getStatus"])
      [] Len(p) = 3 /\ p[2] # "archived" ->
            IF m # "POST" THEN "noMethod"
            ELSE IF p[3] \in {"retry", "cancel"} THEN p[3] ELSE "noRoute"
      [] OTHER -> "noRoute"

AdminRoute(m, p) ==
    CASE Len(p) >= 3 /\ p[2] = "workers" /\ p[3] = "drain" /\ m = "POST" -> "drainHint"
      [] Len(p) = 2 /\ p[2] = "queues" -> ByMethod(m, [GET |-> "listQueues"])
      [] Len(p) >= 4 /\ p[2] = "queues" ->
            IF m # "POST" THEN "noMethod"
            ELSE IF p[4] \in {"pause", "unpause"} THEN p[4] ELSE "noRoute"
      [] OTHER -> "noRoute"

ScheduleRoute(m, p) ==
    CASE Len(p) = 1 -> ByMethod(m, [GET |-> "listSchedules", POST |-> "createSchedule"])
      [] Len(p) = 2 /\ m = "DELETE" -> "deleteSchedule"
      [] OTHER -> "noRoute"

Route(m, p) ==
    CASE p[1] = "jobs" -> JobRoute(m, p)
      [] p[1] = "admin" -> AdminRoute(m, p)
      [] p[1] = "schedules" -> ScheduleRoute(m, p)
      [] OTHER -> "noRoute"

ScheduleOps == {"createSchedule", "deleteSchedule"}
ReadOps == {"list", "listArchived", "getStatus", "listQueues", "listSchedules"}

----------------------------------------------------------------------------
(***************************************************************************)
(* Answers.                                                                *)
(***************************************************************************)
RequestPCs == {"idle", "global", "queue", "backend"}
AllOps == ReadOps \cup ScheduleOps \cup
    {"none", "noRoute", "noMethod", "submit", "getArchived", "retry", "cancel",
     "drainHint", "pause", "unpause"}

NoRequest == [pc |-> "idle", op |-> "none", queue |-> Global, job |-> NoJob,
              touched |-> FALSE]

HttpRequest == [pc : RequestPCs, op : AllOps, queue : Buckets, job : Jobs \cup {NoJob},
             touched : BOOLEAN]

RestTypeOK ==
    /\ StoreTypeOK /\ QueueTypeOK /\ ClockTypeOK /\ BackendTypeOK /\ LimiterTypeOK
    /\ http \in [Callers -> HttpRequest]
    /\ answer \in [to : HttpRequest, code : {0, 200, 201, 400, 404, 405, 409, 429, 500, 503}]

RestInit ==
    /\ StoreInit /\ QueueInit /\ ClockInit /\ BackendInit /\ LimiterInit
    /\ http = [c \in Callers |-> NoRequest]
    /\ answer = [to |-> NoRequest, code |-> 0]

\* Request r after the step being taken, which may be one that others see.
After(r) ==
    [r EXCEPT !.touched = @ \/ jobs' # jobs \/ topic' # topic \/ paused' # paused]

\* The request r of caller c goes on, or is answered.
Goes(c, r, pc) ==
    http' = [http EXCEPT ![c] = [After(r) EXCEPT !.pc = pc]] /\ UNCHANGED answer
Answers(c, r, code) ==
    http' = [http EXCEPT ![c] = NoRequest] /\ answer' = [to |-> After(r), code |-> code]

\* The backend took a step for the request: it goes on until the call returns.
Follows(c, r) ==
    IF call'[c].pc = "idle"
    THEN \E code \in Codes(r.op, outcome'[c]) : Answers(c, r, code)
    ELSE Goes(c, r, "backend")

Asked(op, q, j) == [NoRequest EXCEPT !.op = op, !.queue = q, !.job = j]

Idle(c) == http[c].pc = "idle"

----------------------------------------------------------------------------
(***************************************************************************)
(* Requests that are answered at once.                                     *)
(***************************************************************************)
Misrouted(c, m, p) ==
    LET op == Route(m, p) IN
    /\ Idle(c) /\ op \in DOMAIN RouteErrors
    /\ UNCHANGED <<storeVars, faults, topic, now, apiVars, limiterVars>>
    /\ Answers(c, Asked(op, Global, NoJob), RouteErrors[op])

Read(c, m, p) ==
    LET op == Route(m, p)  r == Asked(op, Global, NoJob) IN
    /\ Idle(c)
    /\ UNCHANGED <<storeVars, topic, now, apiVars, limiterVars>>
    /\ \/ op \in ReadOps \cup {"drainHint"} /\ Answers(c, r, 200) /\ UNCHANGED faults
       \/ /\ op \in ReadOps /\ Fault("store")
          /\ \E said \in Phrases.storeError : Answers(c, r, ErrorCode(said))

\* GetArchivedJob turns an error of the store into no job.
GetArchived(c, m, p) ==
    LET r == Asked("getArchived", Global, NoJob)
        archived == jobs[p[3]] # NoRow /\ jobs[p[3]].status = "archived"
    IN
    /\ Idle(c) /\ Route(m, p) = "getArchived" /\ p[3] \in Jobs
    /\ UNCHANGED <<storeVars, topic, now, apiVars, limiterVars>>
    /\ \/ Answers(c, r, IF archived THEN 200 ELSE 404) /\ UNCHANGED faults
       \/ Fault("store") /\ Answers(c, r, 404)

PauseOrUnpause(c, m, p) ==
    LET op == Route(m, p)
        r == Asked(op, Global, NoJob)
        new == IF op = "pause" THEN paused \cup {p[3]} ELSE paused \ {p[3]}
    IN
    /\ Idle(c) /\ op \in {"pause", "unpause"} /\ p[3] \in Queues
    /\ UNCHANGED <<jobs, outbox, topic, now, apiVars, limiterVars>>
    /\ \/ paused' = new /\ UNCHANGED faults /\ Answers(c, r, 200)
       \/ /\ Fault("store") /\ paused' \in {paused, new}
          /\ \E said \in Phrases.storeError : Answers(c, r, ErrorCode(said))

----------------------------------------------------------------------------
(***************************************************************************)
(* Requests that the backend works on.                                     *)
(***************************************************************************)
\* handleSubmit refuses a body it cannot use before it asks the limiter.
ReceiveSubmit(c, m, p, q) ==
    LET r == Asked("submit", q, NoJob) IN
    /\ Idle(c) /\ Route(m, p) = "submit"
    /\ UNCHANGED <<storeVars, faults, topic, now, apiVars, limiterVars>>
    /\ Answers(c, r, 400) \/ Goes(c, r, "global")

AskGlobal(c) ==
    /\ http[c].pc = "global"
    /\ UNCHANGED <<storeVars, faults, topic, now, apiVars>>
    /\ \/ AllowedBy(Global) /\ Goes(c, http[c], "queue")
       \/ RefusedBy(Global) /\ Answers(c, http[c], 429)

\* The body is looked at where it is used, in the call of Submit.
AskQueue(c) ==
    LET q == http[c].queue IN
    /\ http[c].pc = "queue"
    /\ \/ /\ AllowedBy(q)
          /\ \E w \in Offered, n \in Budgets, t \in RunAts, k \in Keys \cup {NoKey} :
                w.queue = q /\ Submit(c, w, n, t, k)
          /\ Goes(c, http[c], "backend")
       \/ /\ RefusedBy(q)
          /\ UNCHANGED <<storeVars, faults, topic, now, apiVars>>
          /\ Answers(c, http[c], 429)

HandleCancel(c, m, p) ==
    /\ Idle(c) /\ Route(m, p) = "cancel" /\ p[2] \in Jobs
    /\ Cancel(c, p[2]) \/ CancelRefused(c, p[2])
    /\ Follows(c, Asked("cancel", Global, p[2]))
    /\ UNCHANGED limiterVars

HandleRetry(c, m, p, q) ==
    /\ Idle(c) /\ Route(m, p) = "retry" /\ p[2] \in Jobs
    /\ RetryArchived(c, p[2], q) \/ RetryRefused(c, p[2])
    /\ Follows(c, Asked("retry", q, p[2]))
    /\ UNCHANGED limiterVars

BackendStep(c) ==
    /\ http[c].pc = "backend"
    /\ CallStep(c)
    /\ Follows(c, http[c])
    /\ UNCHANGED limiterVars

----------------------------------------------------------------------------
\* The rest of the system moves jobs on while requests are served.
JobMoves(j, status) ==
    /\ jobs[j] # NoRow
    /\ jobs' = Updated(j, status, jobs[j].attempt)
    /\ UNCHANGED <<paused, outbox, faults, topic, now, apiVars, limiterVars, http, answer>>

\* The buckets live in the process.
Restart ==
    /\ ApiCrash
    /\ level' = [b \in Buckets |-> Capacity(b)]
    /\ granted' = [b \in Buckets |-> [s \in 1 .. MaxTime |-> 0]]
    /\ http' = [c \in Callers |-> NoRequest]
    /\ UNCHANGED answer

RestNext ==
    \/ \E c \in Callers, m \in Methods, p \in Paths :
          \/ Misrouted(c, m, p) \/ Read(c, m, p) \/ GetArchived(c, m, p)
          \/ PauseOrUnpause(c, m, p) \/ HandleCancel(c, m, p)
          \/ \E q \in Queues : ReceiveSubmit(c, m, p, q) \/ HandleRetry(c, m, p, q)
    \/ \E c \in Callers : AskGlobal(c) \/ AskQueue(c) \/ BackendStep(c)
    \/ \E j \in Jobs, status \in {"processing", "archived"} :
          JobMoves(j, status)
    \/ Restart
    \/ Refill /\ UNCHANGED <<storeVars, faults, topic, apiVars, http, answer>>

RestSpec == RestInit /\ [][RestNext]_restVars

----------------------------------------------------------------------------
(***************************************************************************)
(* Correctness (and WithinRate and RetryAfterSuffices of RateLimiter).     *)
(***************************************************************************)
\* A request answered as the client's mistake, or as one too many, changed
\* nothing: it can be mended and sent again.  Only 5xx leaves that open.
ClientErrorChangesNothing ==
    [][answer'.code \in 400 .. 499 => ~answer'.to.touched]_answer
=============================================================================
