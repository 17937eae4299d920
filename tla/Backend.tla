------------------------------ MODULE Backend ------------------------------
(***************************************************************************)
(* The job API's backend (internal/api/backend.go): Submit, CancelJob,     *)
(* RetryArchivedJob, PauseQueue and UnpauseQueue as state machines with    *)
(* one step per store or broker call, run by concurrent requests.  The     *)
(* read-only calls (GetStatus, the lists) are left out.                    *)
(***************************************************************************)
EXTENDS JobQueue, Clock

CONSTANTS
    Callers,      \* the requests that may be in progress at once
    NoJob,        \* a request that has no job id yet
    RunAts,       \* the run_at_unix_sec values clients ask for, 0 for none
    Operations    \* the calls clients make beside Submit

ASSUME BackendAssumption ==
    /\ NoJob \notin Jobs
    /\ RunAts \subseteq Nat
    /\ Operations \subseteq {"cancel", "retry", "pause"}
    /\ Payloads # {} /\ Queues # {}

VARIABLES
    call,         \* caller -> the request it has in progress
    asked,        \* id -> max_retry of the Submit that created it
    submitted,    \* the replies of Submit: [work, key, job] of each success
    cancelled,    \* the ids whose CancelJob returned nil
    outcome       \* caller -> what its last call returned

apiVars == <<call, asked, submitted, cancelled, outcome>>

NoCall == [pc |-> "idle", work |-> CHOOSE w \in Work : TRUE, maxRetry |-> 0,
           runAt |-> 0, key |-> NoKey, job |-> NoJob]

CallPCs == {"idle", "lookup", "create", "enqueue", "cancel", "requeue", "record"}

\* What a call returns: nil, one of the errors the backend makes itself, or an
\* error of the store or of the broker.
Outcomes == {"ok", "cannotCancel", "notFound", "notArchived",
             "storeError", "brokerError"}

CallRecord == [pc : CallPCs, work : Work, maxRetry : Nat, runAt : Nat,
               key : Keys \cup {NoKey}, job : Jobs \cup {NoJob}]

BackendTypeOK ==
    /\ call \in [Callers -> CallRecord]
    /\ asked \in [Jobs -> Nat]
    /\ submitted \subseteq [work : Work, key : Keys \cup {NoKey}, job : Jobs]
    /\ cancelled \subseteq Jobs
    /\ outcome \in [Callers -> Outcomes \cup {"none"}]

BackendInit ==
    /\ call = [c \in Callers |-> NoCall]
    /\ asked = [j \in Jobs |-> 0]
    /\ submitted = {}
    /\ cancelled = {}
    /\ outcome = [c \in Callers |-> "none"]

\* uuid.New: an id that no row, message or request has.
Fresh(j) ==
    /\ jobs[j] = NoRow
    /\ \A i \in DOMAIN topic : topic[i].job # j
    /\ \A c \in Callers : call[c].job # j

CallAt(c, pc) == call[c].pc = pc
CallGoto(c, pc) ==
    call' = [call EXCEPT ![c].pc = pc] /\ UNCHANGED outcome

Return(c, o) ==
    call' = [call EXCEPT ![c] = NoCall] /\ outcome' = [outcome EXCEPT ![c] = o]

\* Submit returns the id of job j.
Reply(c, j) ==
    /\ submitted' = submitted \cup
          {[work |-> call[c].work, key |-> call[c].key, job |-> j]}
    /\ Return(c, "ok")

----------------------------------------------------------------------------
(***************************************************************************)
(* Submit.                                                                 *)
(***************************************************************************)
\* The columns of the unique index idx_jobs_idempotency.
SameKey(j, w, key) ==
    /\ jobs[j] # NoRow
    /\ jobs[j].key = key
    /\ jobs[j].work.type = w.type
    /\ jobs[j].work.queue = w.queue

Submit(c, w, maxRetry, runAt, key) ==
    /\ CallAt(c, "idle")
    /\ call' = [call EXCEPT ![c] =
                   [pc |-> IF key = NoKey THEN "create" ELSE "lookup",
                    work |-> w, maxRetry |-> maxRetry, runAt |-> runAt,
                    key |-> key, job |-> NoJob]]
    /\ UNCHANGED <<storeVars, faults, topic, now, asked, submitted, cancelled, outcome>>

\* GetByIdempotencyKey: an existing job answers the request.
Lookup(c) ==
    LET same == {j \in Jobs : SameKey(j, call[c].work, call[c].key)} IN
    /\ CallAt(c, "lookup")
    /\ \/ same = {} /\ CallGoto(c, "create") /\ UNCHANGED <<faults, submitted>>
       \/ \E j \in same : Reply(c, j) /\ UNCHANGED faults
       \/ Fault("store") /\ Return(c, "storeError") /\ UNCHANGED submitted
    /\ UNCHANGED <<storeVars, topic, now, asked, cancelled>>

\* The job is delayed if it has any run_at, past ones included.
FirstStatus(runAt) == IF runAt > 0 THEN "scheduled" ELSE "pending"

\* Mutant: there is no unique index.
CreateAnyway(c) ==
    LET r == call[c] IN
    /\ CallAt(c, "create")
    /\ \E j \in Jobs :
          /\ Fresh(j)
          /\ jobs' = Inserted(j, r.work, FirstStatus(r.runAt), r.runAt, r.key)
          /\ asked' = [asked EXCEPT ![j] = r.maxRetry]
          /\ call' = [call EXCEPT ![c].pc = "enqueue", ![c].job = j]
    /\ UNCHANGED <<paused, outbox, faults, topic, now, submitted, cancelled, outcome>>

\* Create: the unique index refuses a second row with the key; after an error
\* of the connection the row may be there or not.
Create(c) ==
    LET r == call[c]
        clash == r.key # NoKey /\ \E k \in Jobs : SameKey(k, r.work, r.key)
    IN
    /\ CallAt(c, "create")
    /\ \E j \in Jobs :
          LET new == Inserted(j, r.work, FirstStatus(r.runAt), r.runAt, r.key) IN
          /\ Fresh(j)
          /\ \/ /\ ~clash
                /\ jobs' = new
                /\ asked' = [asked EXCEPT ![j] = r.maxRetry]
                /\ call' = [call EXCEPT ![c].pc = "enqueue", ![c].job = j]
                /\ UNCHANGED <<faults, outcome>>
             \/ clash /\ Return(c, "storeError") /\ UNCHANGED <<jobs, asked, faults>>
             \/ /\ Fault("store")
                /\ jobs' \in IF clash THEN {jobs} ELSE {jobs, new}
                /\ asked' = IF jobs' = jobs THEN asked ELSE [asked EXCEPT ![j] = r.maxRetry]
                /\ Return(c, "storeError")
    /\ UNCHANGED <<paused, outbox, topic, now, submitted, cancelled>>

\* A job due in the future is left to the promoter; any other is enqueued now.
Enqueue(c) ==
    LET r == call[c]  m == Request(r.job, r.work, 0, r.maxRetry) IN
    /\ CallAt(c, "enqueue")
    /\ \/ r.runAt > now /\ Reply(c, r.job) /\ UNCHANGED <<topic, faults>>
       \/ r.runAt <= now /\ EnqueueOk(m) /\ Reply(c, r.job)
       \/ r.runAt <= now /\ EnqueueError(m) /\ Return(c, "brokerError") /\ UNCHANGED submitted
    /\ UNCHANGED <<storeVars, now, asked, cancelled>>

----------------------------------------------------------------------------
(***************************************************************************)
(* CancelJob: a read, a decision, and an unconditional write.              *)
(***************************************************************************)
Cancellable(j) ==
    jobs[j] # NoRow /\ jobs[j].status \notin {"completed", "processing"}

Cancel(c, j) ==
    /\ CallAt(c, "idle")
    /\ Cancellable(j)
    /\ call' = [call EXCEPT ![c].pc = "cancel", ![c].job = j]
    /\ UNCHANGED <<storeVars, faults, topic, now, asked, submitted, cancelled, outcome>>

CancelRefused(c, j) ==
    /\ CallAt(c, "idle")
    /\ \/ ~Cancellable(j) /\ Return(c, "cannotCancel") /\ UNCHANGED faults
       \/ Fault("store") /\ Return(c, "storeError")
    /\ UNCHANGED <<storeVars, topic, now, asked, submitted, cancelled>>

CancelWrite(c) ==
    LET j == call[c].job  new == Updated(j, "cancelled", 0) IN
    /\ CallAt(c, "cancel")
    /\ \/ /\ jobs' = new /\ cancelled' = cancelled \cup {j}
          /\ Return(c, "ok") /\ UNCHANGED faults
       \/ /\ Fault("store") /\ jobs' \in {jobs, new}
          /\ Return(c, "storeError") /\ UNCHANGED cancelled
    /\ UNCHANGED <<paused, outbox, topic, now, asked, submitted>>

----------------------------------------------------------------------------
(***************************************************************************)
(* RetryArchivedJob: the message of the new job goes out before its row.   *)
(***************************************************************************)
RetryArchived(c, j, q) ==
    /\ CallAt(c, "idle")
    /\ jobs[j] # NoRow /\ jobs[j].status = "archived"
    /\ call' = [call EXCEPT ![c].pc = "requeue", ![c].job = j,
                            ![c].work = [jobs[j].work EXCEPT !.queue = q]]
    /\ UNCHANGED <<storeVars, faults, topic, now, asked, submitted, cancelled, outcome>>

RetryRefused(c, j) ==
    /\ CallAt(c, "idle")
    /\ \/ jobs[j] = NoRow /\ Return(c, "notFound") /\ UNCHANGED faults
       \/ /\ jobs[j] # NoRow /\ jobs[j].status # "archived"
          /\ Return(c, "notArchived") /\ UNCHANGED faults
       \/ Fault("store") /\ Return(c, "storeError")
    /\ UNCHANGED <<storeVars, topic, now, asked, submitted, cancelled>>

Requeue(c) ==
    /\ CallAt(c, "requeue")
    /\ \E j \in Jobs :
          LET m == Request(j, call[c].work, 0, 0) IN
          /\ Fresh(j)
          /\ \/ /\ EnqueueOk(m)
                /\ call' = [call EXCEPT ![c].pc = "record", ![c].job = j]
                /\ UNCHANGED outcome
             \/ EnqueueError(m) /\ Return(c, "brokerError")
    /\ UNCHANGED <<storeVars, now, asked, submitted, cancelled>>

Record(c) ==
    LET r == call[c]  new == Inserted(r.job, r.work, "pending", 0, NoKey) IN
    /\ CallAt(c, "record")
    /\ \/ jobs' = new /\ Return(c, "ok") /\ UNCHANGED faults
       \/ Fault("store") /\ jobs' \in {jobs, new} /\ Return(c, "storeError")
    /\ UNCHANGED <<paused, outbox, topic, now, asked, submitted, cancelled>>

----------------------------------------------------------------------------
\* PauseQueue and UnpauseQueue: one upsert of the queue's row.
SetQueuePaused(q) ==
    /\ paused' \in {paused \cup {q}, paused \ {q}}
    /\ UNCHANGED <<jobs, outbox, faults, topic, now, apiVars>>

\* The API process dies: every request in progress ends where it is.
ApiCrash ==
    /\ Fault("apiCrash")
    /\ call' = [c \in Callers |-> NoCall]
    /\ UNCHANGED <<storeVars, topic, now, asked, submitted, cancelled, outcome>>

CallStep(c) ==
    \/ Lookup(c) \/ Create(c) \/ Enqueue(c)
    \/ CancelWrite(c) \/ Requeue(c) \/ Record(c)

BackendNext ==
    \/ \E c \in Callers, w \in Offered, n \in Budgets, t \in RunAts, k \in Keys \cup {NoKey} :
          Submit(c, w, n, t, k)
    \/ "cancel" \in Operations
          /\ \E c \in Callers, j \in Jobs : Cancel(c, j) \/ CancelRefused(c, j)
    \/ "retry" \in Operations
          /\ \E c \in Callers, j \in Jobs :
                RetryRefused(c, j) \/ \E q \in Queues : RetryArchived(c, j, q)
    \/ \E c \in Callers : CallStep(c)
    \/ "pause" \in Operations /\ \E q \in Queues : SetQueuePaused(q)
    \/ ApiCrash

----------------------------------------------------------------------------
\* Submits with the same type, queue and key that succeed return the same job,
\* though the lookup and the insert are separate statements.
SameKeySameJob ==
    \A r, s \in submitted :
        /\ r.key = s.key /\ r.key # NoKey
        /\ r.work.type = s.work.type /\ r.work.queue = s.work.queue
        => r.job = s.job
=============================================================================
