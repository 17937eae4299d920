# Job-Processor in TLA+

A verification project for the job processor under `src/`: an HTTP API that
stores jobs in Postgres and hands them to workers through the Kafka topic
`job.requests`, workers that run, retry and archive them, a scheduler that
promotes delayed jobs, and an outbox from which completion emails are sent.
The modules model the Go code, TLC checks them on small instances, and TLAPS
proves the theorems listed below for every value of the constants.

## 1. Inventory

| Part | Code | State it keeps | Operations | Talks to |
|---|---|---|---|---|
| Postgres store | `internal/store/postgres.go`, `deploy/postgres/schema.sql` | tables `jobs`, `job_outbox`, `queues`, `schedules` | one SQL statement each, except `CompleteJobWithOutbox` (one transaction) | called by every process |
| Job queue producer | `internal/kafkaqueue/producer.go` | none | `Enqueue` | Kafka |
| Job queue consumer | `internal/kafkaqueue/consumer.go` | reader position, priority queue, drain flag | fetch loop, dispatch loop, one goroutine per message, commit | Kafka, `process` |
| Worker | `cmd/worker/main.go` | limiter channels, drain flag | `process` (closure), `Acquire`, `Release`, `/admin/drain` | store, producer, handlers |
| Outbox processor | `cmd/worker/main.go` 276-349 | none between ticks | `runOutboxBatch` every 5 s in every worker | store, SMTP |
| API backend | `internal/api/backend.go` | none between requests | `Submit`, `CancelJob`, `RetryArchivedJob`, `PauseQueue`, `UnpauseQueue`, schedules, reads | store, producer |
| REST layer, rate limiter | `internal/api/rest.go`, `ratelimit.go` | token buckets | routing, error codes, `Allow` | backend |
| Promoter | `internal/scheduler/promoter.go` | none between ticks | `promoteDue` every 15 s | store, producer |
| Recurring scheduler | `internal/scheduler/recurring.go` | none between ticks | `runRecurringTick` every minute | store, producer |
| Scheduler's fake jobs | `cmd/scheduler/main.go`, `internal/scheduler/scheduler.go`, `jobs.go`, `fake.go` | none between rounds | `runRound`: a `Create` and an `Enqueue` per type, every 5 minutes | store, producer |
| Ingest | `internal/ingest/kafka.go` | reader position, committed offset | `ReadMessage`, which commits, and `submit` | Kafka, backend |
| Handlers | `internal/jobs/*.go` | none | `Handle`, `ValidateEmailPayload` | SMTP, files, image sites |
| User service, billing service, demo server | `cmd/user-service/`, `cmd/billing-service/`, `cmd/demo-server/` | none | one handler per route, each a `POST /jobs` | API, over HTTP |
| Enqueue command | `cmd/enqueue/main.go` | none | one `POST /jobs` | API, over HTTP |
| Events, metrics, tracing | `internal/events/`, `internal/metrics/`, `internal/telemetry/` | none that is read back | | |

No component shares memory with another; they meet in the rows of `jobs`, in
the messages of the topic and in the clock. No statement of the store locks a
row or compares the old status, so every read is stale when the next statement
runs. What is hard in this system follows from that:

* *concurrency*: goroutines of one worker, several workers, API requests and
  the scheduler all write the status of the same row; inside a worker, a fetch
  goroutine and a dispatch loop share a priority queue and its condition variable;
* *delivery*: messages are committed one by one by the goroutine that handled
  them, in any order, whatever `process` returned; the group redelivers after a
  rebalance or a restart; the producer's own retries may write a message twice;
* *partial failure*: most operations are two or three calls, and the error of
  several of them is dropped (`_ =`);
* *time*: a delayed job is due by the clock, which passes between two calls;
* *layers*: between a user and the worker are a program, the REST layer and the
  backend; each turns the answer of the next into one of its own, any answer may be
  lost on the way, and a user who is told of an error asks again.

What makes each part correct:

* worker: a job is settled in the end, by one outcome; retries count up to
  `max_retry` and no further; the limiter's count is exact; an email is
  completed only together with its outbox row;
* consumer: no message of an unsettled job is lost, every message fetched gets
  its goroutine, a drain empties the queue and ends;
* API: an acknowledged job is durable, a key names one job, submits stay within
  the rate, an answer of 4xx means that nothing was changed;
* promoter: no delayed job early, none lost;
* recurring scheduler: no run skipped, none early, each run made once unless a
  call fails, every run made in the end;
* outbox: a row marked sent was mailed unless the processor that took it has no
  SMTP server, every row is handled, mails are not repeated without a failure but
  once per processor;
* front ends and ingest: a success means a job in the queue; what was asked for once
  is made once, and nothing is lost, up to the failures; an ingested message makes
  one job at most;
* handlers: each scenario of the dashboard ends as the dashboard says.

Two parts exist as code that no process starts: the ingest consumer
(`cmd/api/main.go` does not call it) and the gRPC service.

The full list of hazards, each at its line, is in `PROJECT.json`.

## 2. Modules

| Module | Models | Variables |
|---|---|---|
| `JobStore` | the tables and the statements on them | `jobs`, `paused`, `outbox`, and `faults`, the count of outside failures |
| `JobQueue` | the topic and `Enqueue` | `topic`, an append-only sequence: message `i` has Kafka offset `i - 1` |
| `Worker` | `process`, the limiter and the consumer loop of all workers | `cursor`, `committed`, `owner`, `proc`, `tokens` |
| `JobContract` | nothing in the code: what a client may rely on for one job | `job` |
| `Clock` | `time.Now().Unix()` | `now` |
| `Backend` | the state-changing API calls on jobs and queues | `call`, what each returned (`outcome`), and the histories `asked`, `submitted`, `cancelled` |
| `Promoter` | `promoteDue` | `due`, `promoting` |
| `JobSystem` | API, promoter and workers side by side | those of the three |
| `Consumer` | the inside of one worker's consumer: fetch goroutine, priority queue, dispatch loop, drain and the end of `main` | `arrived`, `position`, `items`, `drain`, `fetcher`, `dispatcher`, `started`, `running`, `committing`, `committed`, `drainRequested`, `cancelled`, `alive`, `errors` |
| `Recurring` | `CreateSchedule`, `DeleteSchedule`, `runRecurringTick` | `schedules`, `dropped`, `listed`, `doing`, and the history `made` |
| `RateLimiter` | the token buckets of the submit limiter | `level`, and the history `granted` |
| `RestApi` | routing, limiter questions and status codes in front of `Backend` | `http`, and the history `answer` |
| `Outbox` | the outbox processors, and `Handle` of the email handler | `connected`, `batch`, `outcome`, and the histories `mails` and `silent` |
| `JobHandlers` | what each handler may return for a payload and an attempt | none |
| `RestAnswers` | `writeBackendError`: which status codes an error may get | none |
| `Upstream` | what user service, billing service, demo server and enqueue command post, and what they make of an answer | none |
| `FrontEnds` | their users, who ask again after an error, in front of `Backend` | `user`, and the history `maker` |
| `FakeJobs` | the scheduler's rounds | `todo`, `fakeJob`, `rounds` |
| `Ingest` | `RunConsumer` of the ingest topic | `read`, `readCommit`, `hand` |
| `Intake` | everything that makes jobs, side by side | those of `FrontEnds`, `FakeJobs` and `Ingest` |
| `Demo` | the dashboard's scenarios and replays over `JobSystem` | those of `JobSystem` |
| `WorkerProofs` | theorems on the worker whatever fails | |
| `ContractProofs` | theorems on the worker when some failures do not happen, and the refinement of `JobContract` | |
| `BackendProofs` | what every step of the backend keeps, cited by the next three | |
| `SystemProofs` | theorems on `JobSystem` and `Demo` | |
| `RestProofs`, `IntakeProofs` | theorems on the REST layer, and on all that makes jobs | |
| `LoopProofs`, `RecurringProofs` | theorems on the consumer's and the outbox's loops, and on schedules | |
| `MCWorker`, `MCJobSystem`, `MCOutbox`, `MCConsumer`, `MCRecurring`, `MCRestApi`, `MCDemo`, `MCIntake` | instances for TLC | |

`JobQueue` extends `JobStore`; `Worker`, `Backend`, `Promoter` and `Recurring`
extend `JobQueue` (the last three with `Clock`). `JobSystem` extends `Worker`,
`Backend` and `Promoter`: every step of a component leaves the other components'
variables alone. `RestApi` extends `Backend`, `RestAnswers` and `RateLimiter`, and its
requests take the steps of all. `Demo` extends `JobSystem` and `Upstream`; `Intake`
extends `FrontEnds` (that is `Backend`, `RestAnswers` and `Upstream`), `FakeJobs` and
`Ingest`. `Consumer` stands alone: it opens up what `Worker` takes
as one step, the fetch loop, and closes what `Worker` opens up, `process`.

How the modules stand for the code:

* **One step per call.** A goroutine's `pc` in `proc` names the store, broker or
  limiter call it is about to make; an API request is a record in `call` with
  its own `pc`; the promoter's place is in `due` and `promoting`. Local
  computation belongs to the step of the call it follows. A read and the
  decision taken on it are one step; the write that follows is another, so that
  everything that can happen between the two in the program can happen here.
* **Unconditional writes.** `Updated` overwrites status and attempt whatever
  they were, and does nothing to an id without a row, as the SQL does.
* **Failures.** `Fault(kind)` counts a failure against `MaxFaults`; each run
  says which kinds it allows (`FaultKinds`). `store`: a statement fails (a
  write may have been applied all the same). `broker`: `WriteMessages` reports
  an error, with the message in the log or not, or writes it twice.
  `commit`: `CommitMessages` fails. `rebalance`: the partition moves to another
  worker, or the same one, which reads on from the committed offset while old
  goroutines keep running. `crash`, `apiCrash`, `promoterCrash`: a process
  dies; a worker's also stands for the end of `main` on a signal or after a
  drain, since neither waits for goroutines. `smtp`: the server reports an
  error, with the mail taken or not.
  `schedulerCrash`: the scheduler dies in a round of fake jobs. `connection`: a
  program's request does not reach the API, or the answer is lost or cut off.
* **Data.** Of a job's payload only what decides a handler's result is kept
  (`Payload` of `JobHandlers`): whether it decodes, whether the recipient, image or
  template is there, until which attempt it is to fail, and whether a file is
  written or an image fetched, which may fail where `OutsideFails` says so. Types,
  queues and keys are members of small sets; errors, timestamps other than
  `run_at`, events and metrics are left out.
* **A post** is what the API finds in the body of a `POST /jobs`; a request of a
  program's user is turned into a set of posts, empty when the program refuses it
  itself (`Posts`). The limiter of the REST layer is, seen from there, a
  refusal with 429 at any time (`RefusedByApi`); `RestApi` has its buckets.
* **A batch** of the outbox is a set of row ids: the processor goes through it in the
  order of the ids, in which the rows were listed.
* **`SMTP_ADDR`** is empty by default (`cmd/worker/main.go:73`) and in
  `deploy/kubernetes/job-worker.yaml`; `Handle` then logs the email and returns nil
  (`internal/jobs/email.go:55`), and the row is marked sent. `connected` is the
  set of processors that have an address: any set at the start, the same ever
  after, as a restarted process gets the same environment. `silent` is the set of
  rows that went through a processor without one.
* **Ingest.** `ReadMessage` of a group's reader commits the message before it returns it.
  Nothing in the repository starts the consumer; `Intake` runs it in the API process, as
  the name of its group says, with the backend's `Submit` and no options.
* **The topic has one partition.** Messages are written with the job's id as
  their key, but the writer's balancer is `kafka.LeastBytes`
  (`internal/kafkaqueue/producer.go:54`), which does not look at keys. With several
  partitions, of which no file of the repository speaks, the messages of one job could
  lie in different ones and be at work on two workers in any order, with an offset
  committed for each partition: the models say nothing of that.
* **Goroutine slots** (`Goroutines`) bound how many messages are in flight. The
  code has no bound; a message that waits for a slot is one that waits in the
  priority queue or for its goroutine's first step. Messages are taken in
  offset order; priorities and what is between a fetch and a goroutine are in
  `Consumer`, whose single worker never loses its partition.
* **`Spec` of `Worker`** replaces the API by `Arrive`, a submit without failures
  or delay; `JobSystem` has the real one.
* **Time in the limiter** is counted in sixtieths of a token, so that a limit of
  n per minute adds n each second and no fraction is rounded. A step of the
  clock stands for `TickSeconds`.
* **Error codes.** `writeBackendError` looks for phrases in the text of an error.
  An error is therefore the set of those phrases it contains (`Phrases`), and a
  store or broker error may contain one of them by chance.
* **A cron expression** is the time between its runs; `NextAfter` is `Next` of the
  parsed schedule. That schedule names are unique is left out.
* **`Branch`**, `Fail`, `Retry` and `Archive` stand for two copies of the same
  code in `process`, one for emails whose payload is invalid and one for
  handlers that return an error. An email never reaches `Handle`: it goes to
  the outbox.

`JobContract` says what a client sees of one job when nothing fails: pending,
processing, failed or completed, the next attempt, and archived exactly when
the budget is used up, each job moving on in the end. `Worker` implements it
with `Contract == INSTANCE JobContract WITH job <- [j \in Jobs |-> JobSeen(j)]`.
Start, a failure, the retry and the archiving are separate writes of the row, so
each of them is a step of the contract; fetching, limiter and commit steps are
stutters.

Every mutated operator that stands just before a definition (its comment begins
with `Mutant:`) is that definition with a plausible bug. Replacing the definition
by it violates the property `PROJECT.json` names, which shows that the property
depends on this piece of code.

## 3. Runs

Runs that pass:

| Run | What it checks | Bounds |
|---|---|---|
| `worker_any` | `TypeOK`, `LimiterExact`, `CompletedEmailHasOutbox`, `RetryChain`, `ArchivedAfterEveryAttempt` | 2 workers, 2 goroutines, 2 jobs of all four kinds (email valid or not, a handled type, an unknown type), budgets 0 and 1, limit 1, one failure of any of five kinds |
| `worker_redelivery` | `NoJobStranded`, `EventuallySettled` | fair goroutines, one worker, 2 goroutines, 2 jobs with a handler, budgets 0 and 1, limit 1, a failed commit or a rebalance |
| `worker_contract` | `OneOutboxRowPerJob`, `OutcomeStands`, `ImplementsContract` | fair goroutines, one worker, all four kinds, one failed commit, nothing redelivered |
| `demo_scenarios` | `SysTypeOK`, `NotBeforeDue`, `SubmittedIsDurable`, `ScenarioOutcome`, `ScenarioEnds` | one request at a time; the five scenarios, each alone with the replays of its job (a second id), pauses of the queue, one worker and goroutine, a delay of 1 in 2 units of time, fair steps, two failures: of store or broker calls, of the API or of the scheduler |
| `intake_all` | `IntakeTypeOK`, `SameKeySameJob`, `QueuedMeansQueued`, `OneJobPerIntent`, `IngestOnce`, `LossPerFault`, `OrphansPerFault` | two users who ask for any of five things (an email, an invoice, a job whose default payload is no JSON, a delayed scenario, an API request with a key), each up to twice; three messages in the ingest topic, two of them jobs; one round of two fake jobs; three ids; one failure of any of seven kinds |
| `system_cancel` | `NoJobForgotten` | two jobs, two goroutines, cancellations, one rebalance, budget 1 |
| `outbox_two` | `OutboxTypeOK`, `OneMailPerFault`, `SentMeansMailed`, `EveryRowHandled` | two processors, each with or without an SMTP server, three rows, batches of two, two failures |
| `recurring_tick` | `RecurringTypeOK`, `NoRunSkipped`, `NoRunEarly`, `JobsPerRun`, `OneJobAfterDelete`, `EveryRunHappens` | two schedules with periods 1 and 2 over three units of time, created and deleted at any moment, both within the `LIMIT`, two failures of calls or of the scheduler |
| `rest_submit` | `WithinRate`, `RetryAfterSuffices`, `ClientErrorChangesNothing` | two clients, two jobs, one queue of one submit a minute under a global limit of two, clock steps of 30 s, one failure of a call or of the process |
| `consumer_drain` | `ConsumerTypeOK`, `DrainEmptiesQueue`, `StartedInTheEnd`, `DrainEndsUnlessIdle` | three messages of two priorities, readable or not, a drain and a signal at any time, one failed fetch or commit |

The bounds are the least at which the interesting cases happen: two goroutines
are needed for commits out of order and for the limiter to block; two jobs for
one to overtake the other; budget 1 for a retry and for exhaustion after it;
three rows and batches of two for a second batch behind a failed one. One failure
suffices for `worker_any`, whose properties speak of one path through `process`
each, and two for a promotion that fails and fails again. Three units of time
let a schedule of period 1 miss runs and catch up, and let the 60 seconds of
`Retry-After` pass in `rest_submit` for a bucket that was drained at time 1: the
queue's bucket holds one token, and has exactly one again at time 3, so that the
property fails as soon as the bucket is filled any slower. In `demo_scenarios` two ids are a job and its
replay, and two units of time let a delayed job be promoted late. In `intake_all` two users
are needed to race for a key, twice to ask again, two jobs in the ingest topic for
one to be skipped while the other is made, two types for a round to go on after an
error; three ids let all three kinds of origin have a row at once. Three messages are needed for one to be
pushed while one runs and one is in the queue.
Nothing but `MaxFaults`, `MaxTime`, `MaxRows` and the finite sets of ids bounds
the models, with `MaxTries`, `MaxRounds` and `MaxJobs` in `Intake` and `Demo` and `MaxMessages` and `MaxErrors` in `Consumer`: attempts are bounded
by the code itself. `CHECK_DEADLOCK FALSE` everywhere, because the system really stops when all ids are used and all jobs
are settled.

Some runs give TLC a `VIEW`: the variables without the histories that no guard
reads. States that differ only in them have the same successors, and the run's
state properties do not read what is left out, except that a type invariant also
says its type; a property of steps is evaluated on every step TLC generates.

Runs that TLC must find violated; each is a difference between the code and what
its documents or comments say (`PROJECT.json` quotes the line), and the
counterexample is in the run's output:

| Run | Property | What the code does |
|---|---|---|
| `system_paused` | `NoJobForgotten` | a message that meets a paused queue is dropped, and unpausing does not bring it back |
| `consumer_work` | `DrainFinishesWork` | a drained worker exits while its goroutines still run jobs |

The passing runs say under which conditions their properties do hold, and their
constants show what breaks them. Changing one constant at a time:

* `worker_redelivery` with `"store"` or `"broker"` among the failures: an error of
  `GetQueue` or `GetByID`, or of the retry's `Enqueue`, strands the job, as the
  message is committed all the same. With `"crash"`: commits overtake, so the
  message of a goroutine still at work may lie before the committed offset when the
  process dies, and nobody reads it again (`docs/DEMO_ALL_FEATURES.md:79` has it
  picked up after a restart).
* `worker_contract` with `"rebalance"`: a redelivered email that was completed
  is completed again, with a second outbox row, since `process` only skips
  cancelled jobs.
* `system_cancel` with `RunAts = {2}` and `MaxTime = 2`: `NoJobForgotten` fails, as the
  promoter's mark may come after the job is over.
* `system_cancel` with `"retry"` among the operations: `RetryArchivedJob` enqueues
  before it inserts, so the new job may be over before its row says pending.
* `system_cancel` with `"broker"`: a submit whose `Enqueue` failed leaves a row
  without a message, which a repeated submit with the same key is answered with.
* `demo_scenarios` with `OutsideFails = TRUE`: `ScenarioOutcome` fails, as the report or its
  replay may be archived by a full disk.

More that the models let happen and no property forbids:

* `CancelJob` reads the status and writes it in another statement
  (`internal/api/backend.go:198`). A worker that starts in between has its
  `processing` overwritten, or overwrites `cancelled` in turn: a cancellation
  answered with 200 does not always stand (`docs/CURL_EXAMPLES.md:133`).
* The promoter enqueues first and marks after (`promoter.go:40`): the mark may set
  a job that is running or completed back to pending, and the row may say so for
  good. `ScenarioEnds` therefore says that a job comes to its end, not that its row
  shows it from then on; `ScenarioOutcome`, that a row that shows an end shows the
  right one.
* The row of a replay is inserted after its message is sent
  (`internal/api/backend.go:261`): if the worker is faster its updates find no row,
  and the row that is then inserted stays pending.
* Promoted jobs and fake jobs get two retries (`promoter.go:35`), whatever the client
  of the former asked for. The demo's only delayed scenario asks for none and needs none.
* The front ends send no idempotency key: a user who is told of an error after the job
  was made, and asks again, has two. `OneJobPerIntent` shows that every second job costs
  a failure.
* `POST /api/submit` of the demo server for "hello" is always refused
  with 400: its default payload is no JSON, the error of `json.Marshal` is ignored, and
  the API is sent an empty body (`cmd/demo-server/main.go:96`).
* The enqueue command sends the payload as a JSON string, which no handler's struct
  can be decoded from: its jobs fail, except those whose handler does not look.
* A job that comes due between `Create` and the comparison with `now` is enqueued
  by `Submit` and by the promoter (both happen in `demo_scenarios`).
* A refused cancellation is answered 400, not 409 as `docs/CURL_EXAMPLES.md:133`
  says: its text contains "not found", which `writeBackendError` looks for first
  (`internal/api/rest.go:114`). "job is not archived"
  and an invalid cron expression match no phrase and give 500, and a Kafka error
  with "does not exist" gives the 503 that speaks of the schema.
* Two outbox processors mail one row when each listed it before the other marked it
  sent (`cmd/worker/main.go:321`; `internal/store/store.go:91` calls the outbox
  exactly-once). `OneMailPerFault` bounds the mails by failures and by the processors
  that have an SMTP server.
* A processor without `SMTP_ADDR` marks rows sent that nobody has mailed; beside
  processors that have a server, whichever is first at a row decides.
  `SentMeansMailed` says that this is the only way for a row to say sent without a mail.
* The buckets are those of a process: a restart fills them (`Restart`), and each
  replica has its own. A submit that the queue's bucket refuses has used up a
  token of the global one.
* A tick of the recurring scheduler whose `Enqueue` fails leaves a pending row
  without a message, and makes another in the next tick (`JobsPerRun` bounds
  them); `Recurring` has one scheduler, and two would each make every run.
* The attempt that `process` gives to handlers starts at 0 although
  `internal/jobs/handler.go:5` calls it 1-based. Scenario B works all the same: its
  payload fails until attempt 1, the second one (`ScenarioOutcome`).

### Fairness

`WorkerFairness` is weak fairness of each goroutine's step and of the fetch loop.
Goroutines are scheduled by the Go runtime and every call they make returns
(store and broker calls by their own timeouts), and the dispatch loop starts a
goroutine as soon as a message is there. Weak fairness is enough for `Acquire`
too: within the bounds of the run, a goroutine waiting for a token waits for one
other holder, which does release; a Go channel also serves its senders in the
order they came. Nothing is assumed of failures, of clients or of rebalances. In
`Outbox` each processor's step is weakly fair: its ticker keeps firing. So is the
scheduler's in `Recurring`. `DemoFairness` has every part a delayed job needs: a call of the API in
progress goes on, the promoter's ticker fires, the worker fetches and its goroutine
goes on, and time passes until `MaxTime`. Nobody is made to submit, replay, pause or unpause
anything, and no failure is fair. In `Consumer` the fetch goroutine, the dispatch loop
and `main` are scheduled: weak fairness of `FetcherStep`, of `Pop`, of `Cancel` once
`RunConsumer` has returned, and of `Exit`. Nothing is assumed of handlers, whose
`process` may never return, of clients, of signals or of messages to come.

## 4. Proofs

`tlapm` checks every step. The constants are arbitrary within the named
assumptions: `StoreAssumption`, `ClientAssumption`, `WorkerAssumption` (any
non-empty set of workers, finitely many goroutines, any limit), `ClockAssumption`,
`LimiterAssumption` and `RestAssumption` (any limits and queues),
`ConsumerAssumption` and `RecurringAssumption` (any priorities, any periods and
LIMIT), `OutboxAssumption` (finitely many processors, any batch size),
`FrontAssumption`, `UpstreamAssumption`, `FakeAssumption`, `IngestAssumption` and
`IntakeAssumption` (any users, requests, tries, rounds and messages), and `DemoAssumption`
(the type with an outbox is "email", and the work of the scenarios is work the
workers know). Where a theorem has a hypothesis beside these it says which kinds
of failure, `FaultKinds`, or which clients there are not. Each hypothesis holds in the
run that checks the property, and section 3 says what a run finds without it.

**Worker** (`WorkerProofs`)

* `TypeCorrect`: `Spec => []TypeOK`.
* `LimiterCorrect`: `Spec => []LimiterExact`.
  The two are proved together. `Release` takes a token out of a channel, and that
  the channel is not empty (so that `tokens` stays a natural number) needs the
  count: `TokensExact` says that `tokens[w][t]` is the number of goroutines of
  worker `w` on type `t` between `Acquire` and `Release`, and 0 without a limiter.
  `TypeOK /\ TokensExact /\ WithinLimit` is inductive. Almost all steps leave the
  sets of holders as they are (`HoldersKept`, `KeepsLimiter`); `Acquire` and
  `Release` add and remove one element, which the finite-set theorems turn into
  arithmetic; `Crash` empties one worker's sets.
* `RetriesFollow`: `Spec => []RetryChain`. `RetryChain` alone is not inductive: a
  goroutine at `retry` must have a retry left, which `Fail` decided a step
  earlier. `RetryInv` adds that, on top of the types; the predecessor of the new
  message is the message the goroutine works on, which is in the log for good
  (`KeepsLog`, from `EnqueueGrows`).
* `EmailsReachOutbox`: `Spec => []CompletedEmailHasOutbox`. The row appears in the
  same step as the status, but another way to `completed` must be excluded: a
  goroutine that reports success of a handler must not have an email in hand.
  `EmailInv` says so (`NoEmailHandled`), and that the work in a message, in a row
  and in the goroutine's hand is the same (`WorkAgrees`), for the branch is taken
  on the message and the property is about the row.
* `ArchivedInTheEnd`: `Spec => []ArchivedAfterEveryAttempt`. On top of `RetryInv`,
  `ArchiveInv` adds that a goroutine about to archive holds the last attempt;
  `RetryChain` then gives all the attempts before it.

**Worker, when some failures do not happen** (`ContractProofs`)

* `NothingStranded`: `NothingLost => (Spec => []NoJobStranded)`; `NothingLost` is that store and
  broker answer and no process dies. A commit of a later message moves the
  committed offset over messages that are still at work, so "a message after
  `committed`" is no invariant. The invariant is that the log can be cut at some
  place h which no fetch, commit or goroutine has passed, such that every job
  that is not settled is in flight or has a message after h (`Passed`, `Held`). A
  retry appends after any h; a rebalance goes back to an offset that is no
  further than h; a commit leaves h where it is, or moves with the fetches. That a
  goroutine's last step settles its job needs that `process` took the branch of
  the job's type (`Branched`).
* `EmailsRecordedOnce`, `OutcomesAreFinal`: `NoRedelivery => (Spec => []OneOutboxRowPerJob)` and
  `NoRedelivery => (Spec => OutcomeStands)`; `NoRedelivery` is that the broker answers, the group
  is not rebalanced and no process dies. Store calls and commits may fail, in contrast to the
  run. `OnceInv` says that a message to be fetched, or at work, is the last of its
  job in the topic and its job is not settled (`Sole`), so that two goroutines
  never have one job between them (`SoleApart`).
* `ContractIsKept`: `OnlyCommitsFail => (Spec => KeepsContract)`, the refinement of
  `JobContract!Safety` under the mapping `JobSeen`. On top of `OnceInv`, `StageInv` says that the row
  of a message agrees with the place process has got to with it (`Fit`, `Stage`), and that
  all messages of a job have one budget (`Budgeted`): `JobSeen` reads the budget off
  any message of the job. Each call of `process` then is one of the contract's actions or
  a stutter. The hypothesis is that of the run: after a dropped error of
  `UpdateStatus` the row skips a state of the contract.

**API, promoter and workers together** (`SystemProofs`)

* `SystemTypes`: `DemoSpec => []SysTypeOK`. `SysInv` joins the invariants of the parts; `BesideWorkers`
  and `BesideCalls` say what a part needs of a step of another one.
* `NeverBeforeDue`: `DemoSpec => []NotBeforeDue`; `AcknowledgedIsDurable`:
  `DemoSpec => []SubmittedIsDurable`. One invariant, `DueInv`: a row that has its message is
  due; a delayed one that has none is scheduled or cancelled (`Left`); a call about to
  enqueue has a row with the delay it compares with the clock (`Ready`); a listed row was due
  when it was listed (`Ripe`), and one about to be marked is in the topic; an answered
  submit's row has its message or a delay (`Lasting`). The clock never goes
  back, so `Ripe` outlives the promoter's stale listing. `Effect` is the
  little that every step does to rows and topic, and `EffectKeeps` that the
  invariant survives it.
* `NothingForgotten`: `Undisturbed => (SysSpec => []NoJobForgotten)`; `Undisturbed` is that store and broker
  answer, neither API nor workers die, and clients submit without a delay and cancel only.
  The invariant of `NothingStranded` holds for all jobs but those whose message a call
  still owes (`Owed`); a call pays with a message after h.
* `ScenariosEndAsPromised`: `OnlyTheUser => (DemoSpec => []ScenarioOutcome)`; `OnlyTheUser` is that other
  clients submit nothing, there is one queue, and no file system or image site
  refuses a handler. Failures of every kind may happen, redelivery and crashes of
  workers among them, which the run leaves out. `ScriptInv` follows each
  scenario's work: an image's message has not counted past `max_retry`, which is what was asked
  for, an invoice's not past 1 of 2, and all others are first attempts (`InBudget`); a
  goroutine about to complete or archive has what it takes (`FitsScript`), from the
  handlers' results on the five payloads (`HandlerScripted`); so a row that shows an end
  shows the right one (`RowScripted`), by whichever of two deliveries it was written. Only a
  report is ever delayed, so the promoter's two retries never replace a budget that
  matters (`DueScripted`).

**API** (`BackendProofs`, `RestProofs`)

* `BackendProofs` has no specification of its own: it shows of each step of `Backend` and of
  its clients that `BackInv`, the types and `KeyInv`, survives it, and that steps of
  others that keep the rows' keys do so too. `KeyInv` is what makes
  `SameKeySameJob` inductive: no two rows have one key (`UniqueKeys`), every
  answered submit's row has the key it was submitted with (`Answered`), and so has the
  row a call has made and not yet enqueued (`Making`); the id of a replay about to be
  recorded has no row and is no other call's (`Recording`).
  That a lookup is stale when `Create` runs does not matter: `Create` itself refuses
  a second row with the key, as the unique index does.
* `RestTypes`, `KeysNameOneJob`: `RestSpec => []RestTypeOK` and `[]SameKeySameJob`.
* `RateIsKept`, `RetryAfterIsEnough`: `RestSpec => []WithinRate` and
  `[]RetryAfterSuffices`. For every bucket and every time in the past, what was
  granted since and what is left come out of the burst and of what the limit has
  brought since (`Bounded`). A bucket from which nobody took a token later than a time s
  (`LeftAlone`), be it empty then, has filled by as much as the limit has brought since s,
  up to the burst (`Refilled`): after 60 seconds that is a token. A grant moves a token from one side of the sum to the other;
  a tick of the clock needs that a gain of n + 1 steps is one of n and one of 1
  (`GainAdds`); that a token fits into the burst, however low the limit, is
  `CapacityNat`. `RestStep` shows that a step of the REST layer does nothing else
  to the limiter.

* `ClientErrorsAreHarmless`: `RestSpec => ClientErrorChangesNothing`. `NoEffectYet`: a request still with
  the limiter has changed nothing. The rest is about steps: a 4xx is given by the routing, by
  the limiter or by the first step of a cancellation or a replay, which refuses what is missing or
  in the wrong status before it does anything; what the backend takes on ends as a
  success or as an error of store or broker (`FollowsFairly`), which is a 500 or a 503, for
  the chance phrases of its text are none of those that make a 4xx (`ServersOwn`).

**All that makes jobs** (`IntakeProofs`)

* `IntakeTypes`: `IntakeSpec => []IntakeTypeOK`. `PostsType` goes through what each program
  posts. A user who is idle has not asked yet (`FrontInv`), so nobody exceeds
  `MaxTries`.
* `KeysNameOneJobForAll`: `IntakeSpec => []SameKeySameJob`, from `BackInv` again.
* `IngestedOnce`: `IntakeSpec => []IngestOnce`. `OnceInv` adds that the reader is never
  behind what it has in hand, that no message beyond the committed offset has a job
  (`Committed`), and that a message in hand has none until its `Create` (`InHandOnce`).
  A rebalance goes back to the committed offset, so it re-reads nothing that has one.
* `ToldIsQueued`: `IntakeSpec => []QueuedMeansQueued`. `QueuedInv` follows a request
  without a key: it makes its own row (`NoLookup`), the row is there and its user's while its
  message is about to be sent (`Owns`), the key cannot change under way (`OpenKey`), and
  a code below 400 comes only from a call that ended well (`HasJob`). Rows and
  messages of others only become more (`Grows`).
* `OneJobUpToFailures`: `IntakeSpec => []OneJobPerIntent`. The rows of a user are no more than the
  failures and one more while the user's call has its row in hand or the answer
  on its way is a success (`Priced`, `Owed`). A row is made only while nothing is owed, and an
  error after it costs a failure (`Paid`).
* `OrphansCostFailures`: `IntakeSpec => []OrphansPerFault`. A pending row without a message is in the hand
  of whoever is to enqueue it (`HandInv`) or was dropped by a step that cost a failure.
  Each step makes rows for one origin only (`StepMakes`), so that the count holds for
  every origin by itself.
* `LossesCostFailures`: `IntakeSpec => []LossPerFault`. What the reader is past without a job grows by one
  message at a time, and only when `faults` does (`LostByStep`): a rebalance or a
  restart only moves the reader back.

**Outbox** (`LoopProofs`)

* `OutboxTypes`: `OutboxSpec => []OutboxTypeOK`.
* `SentIsMailed`: `OutboxSpec => []SentMeansMailed`, for processors with and without an SMTP
  server side by side. `NilMeansMailed` is the same for the step before: a processor
  that has nil in hand has mailed the row it is at, or the row is in `silent`.
* `OneMailEach`: `OutboxSpec => []OneMailPerFault`, for any number of processors and rows. While a
  row is pending, each of its mails belongs to a processor that has yet to mark it, or
  to a failure (`WhilePending`). Once it is not, only processors that listed it before
  still send: its mails and those processors together are no more than all
  processors and failures (`Afterwards`). Processors without a server send nothing and
  are not counted (`Counted`). `List` needs the first half to get to the
  second, as the processors at a row and those that have it before them are disjoint
  (`Room`, `Halves`); the rest is adding and removing one processor (`OneMore`).

**Consumer and recurring jobs** (`LoopProofs`, `RecurringProofs`)

* `ConsumerTypes`, `DrainIsComplete`: `ConsumerSpec => []ConsumerTypeOK` and
  `ConsumerSpec => DrainEmptiesQueue`. `NothingMislaid` follows a readable message
  from the fetch goroutine's hand to the queue to its goroutine; `InHand` says that
  the goroutine's hand is empty once the drain flag is set.
* `RecurringTypes`, `NoRunIsSkipped`, `NoRunIsEarly`, `OneJobIsLate`, of `Recurring`.
  A row in hand is the one in the table or gone for good, since ids are not given
  out again (`RowsKept`, `DroppedAreGone`); a job about to have its schedule moved
  on is in the topic (`WorkedOn`). The rest is arithmetic: between a time and the
  run that follows it there is no other (`NoRunBetween`).
* `OneJobPerRunUpToFailures`: `RecurringSpec => []JobsPerRun`. The jobs of a run are no more than the
  failures, and one more once no further job is to come for the run (`ToCome`, `RunsPriced`).
  The run comes again only when the tick loses the row it made one for, before
  `next_run_at` is moved on, and that cost a failure.

Only model-checked: liveness under fairness (`EventuallySettled`, `EveryRowHandled`,
`EveryRunHappens`, `StartedInTheEnd`, `DrainEndsUnlessIdle`, `ScenarioEnds`, and the fairness
in `ImplementsContract`, whose safety part is `ContractIsKept`), which is beyond the
prover. Every invariant and every action property of the passing runs is stated by
a theorem.

## 5. Not modelled

* Rendering of jobs and what the lists contain, the wording of bodies, the contents of
  files and mails, the dashboard's page and its two reads: nothing that is modelled
  reads them back.
* Events (`internal/events`), metrics and tracing: fire and forget. A failed event is
  logged and changes nothing.
* The generated gRPC code and `job_service.proto`: no process serves them. They are a third
  of the lines of the implementation.
* The random contents of fake jobs (`fake.go`): one payload stands for all.
* A negative `max_retry`, which `handleSubmit` accepts (`internal/api/rest.go:131`):
  `Budgets` are naturals. The worker only asks whether `attempt <= max_retry`, with
  attempts from one on, and would treat it like 0.
* A cron expression without a next run, for which the parser's `Next` returns the zero
  time (`internal/api/backend.go:330`, `internal/scheduler/recurring.go:62`): `NextAfter`
  always has a value.
* A process that is restarted with another `SMTP_ADDR` or other limits.
* Start-up: reading the environment, opening connections, and serving. Of the end of
  a process what matters is modelled: what was in its memory is gone.
* No run makes a user of the enqueue command: what it posts is in `Upstream`, and the
  theorems about `Intake` include it.

`PROJECT.json` has every component with its status.

## 6. Plan

The core was built first: the worker over the store and the topic, then the API,
the promoter and their composition, the outbox, the consumer's inside, recurring
jobs and the REST layer; then what makes jobs and what handlers return, and the proofs
about API, intake and outbox. What is left, in this order:

1. Weaker hypotheses where the code allows them: `NothingForgotten` with delayed jobs, whose
   promotion needs `Ripe` and the promoter's hand in `Owed`, with the exception of the
   promoter's late mark; the refinement with rebalances, under a contract in
   which an outcome may be repeated.
2. `Recurring` composed with `RestApi` (the two schedule requests) and with the
   workers; the LIMIT of both listings against rows that keep failing.
