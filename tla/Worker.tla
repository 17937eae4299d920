------------------------------- MODULE Worker -------------------------------
(***************************************************************************)
(* The worker processes of the consumer group (cmd/worker/main.go and the  *)
(* consumer loop of internal/kafkaqueue/consumer.go): every fetched        *)
(* message gets a goroutine that runs process on it and then commits its   *)
(* offset, so many messages are in flight at once and commits come in any  *)
(* order.  One action per store, broker or limiter call of process.        *)
(***************************************************************************)
EXTENDS JobQueue, JobHandlers, FiniteSets

CONSTANTS
    Workers,      \* the worker processes
    NoWorker,     \* the host of a goroutine slot that is not in use
    Goroutines,   \* goroutine slots: how many messages are in flight at most
    Limit         \* WORKER_MAX_CONCURRENT_PER_TYPE, 0 for no limiter

ASSUME WorkerAssumption ==
    /\ Workers # {}
    /\ NoWorker \notin Workers
    /\ IsFiniteSet(Goroutines)
    /\ Limit \in Nat
    /\ Payloads \subseteq Payload

VARIABLES
    cursor,      \* how far the owner of the partition has fetched
    committed,   \* the group's committed offset
    owner,       \* the worker the partition is assigned to
    proc,        \* slot -> where its goroutine is, on which worker and message
    tokens       \* worker -> type -> tokens in the limiter's channel

consumerVars == <<cursor, committed, owner>>
workerVars == <<cursor, committed, owner, proc, tokens>>
vars == <<jobs, paused, outbox, faults, topic,
          cursor, committed, owner, proc, tokens>>

Idle == [pc |-> "idle", host |-> NoWorker, msg |-> 0]

\* Where a goroutine is: about to make the call the name says.
HoldingPCs == {"load", "start", "handle", "outbox", "reject", "fail",
               "retry", "archive", "complete", "release"}
BusyPCs == HoldingPCs \cup {"getQueue", "acquire", "commit"}

Busy(g) == proc[g].pc # "idle"

WorkerTypeOK ==
    /\ cursor \in 0 .. Len(topic)
    /\ committed \in 0 .. Len(topic)
    /\ owner \in Workers
    /\ proc \in [Goroutines ->
                    [pc : BusyPCs \cup {"idle"},
                     host : Workers \cup {NoWorker}, msg : Nat]]
    /\ \A g \in Goroutines :
          Busy(g) => proc[g].host \in Workers /\ proc[g].msg \in 1 .. Len(topic)
    /\ tokens \in [Workers -> [Types -> Nat]]

WorkerInit ==
    /\ cursor = 0
    /\ committed = 0
    /\ owner \in Workers
    /\ proc = [g \in Goroutines |-> Idle]
    /\ tokens = [w \in Workers |-> [t \in Types |-> 0]]

----------------------------------------------------------------------------
(***************************************************************************)
(* Steps of a goroutine.                                                   *)
(***************************************************************************)
Req(g) == topic[proc[g].msg]

At(g, pc) == proc[g].pc = pc
Goto(g, pc) == proc' = [proc EXCEPT ![g].pc = pc]

\* Mutant: the loop does not wait for a message to be there.
FetchAnything(g) ==
    /\ proc[g] = Idle
    /\ cursor' = cursor + 1
    /\ proc' = [proc EXCEPT ![g] =
                   [pc |-> "getQueue", host |-> owner, msg |-> cursor + 1]]
    /\ UNCHANGED <<storeVars, faults, topic, committed, owner, tokens>>

\* The fetch loop reads the next message and the dispatch loop starts a
\* goroutine for it.
Fetch(g) ==
    /\ proc[g] = Idle
    /\ cursor < Len(topic)
    /\ cursor' = cursor + 1
    /\ proc' = [proc EXCEPT ![g] =
                   [pc |-> "getQueue", host |-> owner, msg |-> cursor + 1]]
    /\ UNCHANGED <<storeVars, faults, topic, committed, owner, tokens>>

\* GetQueue: an error or a paused queue ends process before it did anything.
GetQueue(g) ==
    /\ At(g, "getQueue")
    /\ \/ Req(g).work.queue \notin paused /\ Goto(g, "acquire") /\ UNCHANGED faults
       \/ Req(g).work.queue \in paused /\ Goto(g, "commit") /\ UNCHANGED faults
       \/ Fault("store") /\ Goto(g, "commit")
    /\ UNCHANGED <<storeVars, topic, consumerVars, tokens>>

\* Acquire blocks while the channel of the type is full.
Acquire(g) ==
    LET w == proc[g].host  t == Req(g).work.type IN
    /\ At(g, "acquire")
    /\ \/ Limit = 0 /\ UNCHANGED tokens
       \/ /\ tokens[w][t] < Limit
          /\ tokens' = [tokens EXCEPT ![w][t] = tokens[w][t] + 1]
    /\ Goto(g, "load")
    /\ UNCHANGED <<storeVars, faults, topic, consumerVars>>

\* Mutant: Release is not deferred, and an error of GetByID skips it.
LoadWithoutRelease(g) ==
    /\ At(g, "load")
    /\ \/ Goto(g, "start") /\ UNCHANGED faults
       \/ Fault("store") /\ Goto(g, "commit")
    /\ UNCHANGED <<storeVars, topic, consumerVars, tokens>>

\* Mutant: a failed job counts as one that is over, as a cancelled one does.
LoadSkipsFailed(g) ==
    LET rec == jobs[Req(g).job]
        over == rec # NoRow /\ rec.status \in {"cancelled", "failed"}
    IN
    /\ At(g, "load")
    /\ Goto(g, IF over THEN "release" ELSE "start")
    /\ UNCHANGED <<storeVars, faults, topic, consumerVars, tokens>>

\* GetByID: an error, or a cancelled job, ends process.
Load(g) ==
    LET rec == jobs[Req(g).job]
        cancelled == rec # NoRow /\ rec.status = "cancelled"
    IN
    /\ At(g, "load")
    /\ \/ ~cancelled /\ Goto(g, "start") /\ UNCHANGED faults
       \/ cancelled /\ Goto(g, "release") /\ UNCHANGED faults
       \/ Fault("store") /\ Goto(g, "release")
    /\ UNCHANGED <<storeVars, topic, consumerVars, tokens>>

\* What process turns to once the job is marked as processing.
Branch(w) ==
    IF w.type = EmailType THEN (IF ValidateEmailPayload(w.payload) THEN "outbox" ELSE "fail")
    ELSE IF w.type \in Registered THEN "handle" ELSE "reject"

Start(g) ==
    /\ At(g, "start")
    /\ UpdateStatus(Req(g).job, "processing", Req(g).attempt)
    /\ Goto(g, Branch(Req(g).work))
    /\ UNCHANGED <<paused, outbox, topic, consumerVars, tokens>>

\* The handler of the type runs and returns an error or nil.
Handle(g) ==
    LET results == Results(Req(g).work.type, Req(g).work.payload, Req(g).attempt) IN
    /\ At(g, "handle")
    /\ \/ "nil" \in results /\ Goto(g, "complete")
       \/ "error" \in results /\ Goto(g, "fail")
    /\ UNCHANGED <<storeVars, faults, topic, consumerVars, tokens>>

Complete(g) ==
    /\ At(g, "complete")
    /\ UpdateStatus(Req(g).job, "completed", Req(g).attempt)
    /\ Goto(g, "release")
    /\ UNCHANGED <<paused, outbox, topic, consumerVars, tokens>>

\* An email is completed and handed to the outbox in one transaction; on an
\* error process returns it.
CompleteEmail(g) ==
    /\ At(g, "outbox")
    /\ \/ CompleteJobWithOutbox(Req(g).job, "completed", Req(g).attempt) /\ UNCHANGED faults
       \/ Fault("store") /\ UNCHANGED <<jobs, outbox>>
    /\ Goto(g, "release")
    /\ UNCHANGED <<paused, topic, consumerVars, tokens>>

\* A type without a handler fails for good: neither retried nor archived.
Reject(g) ==
    /\ At(g, "reject")
    /\ UpdateStatus(Req(g).job, "failed", Req(g).attempt)
    /\ Goto(g, "release")
    /\ UNCHANGED <<paused, outbox, topic, consumerVars, tokens>>

\* The attempt after the one of the message.
NextAttempt(m) == m.attempt + 1
\* Mutants: the comparison with max_retry off by one, either way.
OneRetryMore(m) == NextAttempt(m) <= m.maxRetry + 1
OneRetryLess(m) == NextAttempt(m) < m.maxRetry
HasRetryLeft(m) == NextAttempt(m) <= m.maxRetry

Fail(g) ==
    /\ At(g, "fail")
    /\ UpdateStatus(Req(g).job, "failed", NextAttempt(Req(g)))
    /\ Goto(g, IF HasRetryLeft(Req(g)) THEN "retry" ELSE "archive")
    /\ UNCHANGED <<paused, outbox, topic, consumerVars, tokens>>

\* The retry is a new message; an error of Enqueue is dropped.
Retry(g) ==
    LET m == Req(g)
        again == Request(m.job, m.work, NextAttempt(m), m.maxRetry)
    IN
    /\ At(g, "retry")
    /\ EnqueueOk(again) \/ EnqueueError(again)
    /\ Goto(g, "release")
    /\ UNCHANGED <<storeVars, consumerVars, tokens>>

\* Mutant: archives with the attempt the message came with.
ArchiveSameAttempt(g) ==
    /\ At(g, "archive")
    /\ UpdateStatus(Req(g).job, "archived", Req(g).attempt)
    /\ Goto(g, "release")
    /\ UNCHANGED <<paused, outbox, topic, consumerVars, tokens>>

Archive(g) ==
    /\ At(g, "archive")
    /\ UpdateStatus(Req(g).job, "archived", NextAttempt(Req(g)))
    /\ Goto(g, "release")
    /\ UNCHANGED <<paused, outbox, topic, consumerVars, tokens>>

\* Mutant: Release does not take the token out of the channel.
ReleaseNothing(g) ==
    /\ At(g, "release")
    /\ Goto(g, "commit")
    /\ UNCHANGED <<storeVars, faults, topic, consumerVars, tokens>>

\* The deferred Release runs when process returns.
Release(g) ==
    LET w == proc[g].host  t == Req(g).work.type IN
    /\ At(g, "release")
    /\ tokens' = IF Limit = 0 THEN tokens
                 ELSE [tokens EXCEPT ![w][t] = tokens[w][t] - 1]
    /\ Goto(g, "commit")
    /\ UNCHANGED <<storeVars, faults, topic, consumerVars>>

\* Mutant: after a failed commit the reader starts over from the committed offset.
CommitOrRewind(g) ==
    /\ At(g, "commit")
    /\ \/ committed' = proc[g].msg /\ UNCHANGED <<faults, cursor>>
       \/ Fault("commit") /\ cursor' = committed /\ UNCHANGED committed
    /\ proc' = [proc EXCEPT ![g] = Idle]
    /\ UNCHANGED <<storeVars, topic, owner, tokens>>

\* CommitMessages sets the group's offset to the one after this message,
\* whatever process returned and whatever was committed before.
Commit(g) ==
    /\ At(g, "commit")
    /\ \/ committed' = proc[g].msg /\ UNCHANGED faults
       \/ Fault("commit") /\ UNCHANGED committed
    /\ proc' = [proc EXCEPT ![g] = Idle]
    /\ UNCHANGED <<storeVars, topic, cursor, owner, tokens>>

GoroutineStep(g) ==
    \/ GetQueue(g) \/ Acquire(g) \/ Load(g) \/ Start(g) \/ Handle(g)
    \/ Complete(g) \/ CompleteEmail(g) \/ Reject(g)
    \/ Fail(g) \/ Retry(g) \/ Archive(g) \/ Release(g) \/ Commit(g)

----------------------------------------------------------------------------
\* Mutant: a new generation reads from the end of the log.
ReassignAtEnd ==
    /\ owner' \in Workers
    /\ cursor' = Len(topic)

\* A change of the group's membership: the partition goes to some member,
\* which reads on from the committed offset.
Reassign ==
    /\ owner' \in Workers
    /\ cursor' = committed

Rebalance ==
    /\ Fault("rebalance")
    /\ Reassign
    /\ UNCHANGED <<storeVars, topic, committed, proc, tokens>>

\* The process of a worker ends: by a crash, or because main returns on a
\* signal or at the end of a drain, which waits for no goroutine.
Crash(w) ==
    /\ Fault("crash")
    /\ proc' = [g \in Goroutines |-> IF proc[g].host = w THEN Idle ELSE proc[g]]
    /\ tokens' = [tokens EXCEPT ![w] = [t \in Types |-> 0]]
    /\ Reassign
    /\ UNCHANGED <<storeVars, topic, committed>>

WorkerNext ==
    \/ \E g \in Goroutines : Fetch(g) \/ GoroutineStep(g)
    \/ Rebalance
    \/ \E w \in Workers : Crash(w)

\* The goroutines are scheduled and the fetch loop keeps fetching.
WorkerFairness ==
    /\ WF_vars(\E g \in Goroutines : Fetch(g))
    /\ \A g \in Goroutines : WF_vars(GoroutineStep(g))

----------------------------------------------------------------------------
\* The workers alone: a client whose Submit creates the row and enqueues the
\* message without delay stands for the other components.
Arrive(j, w, maxRetry) ==
    /\ jobs[j] = NoRow
    /\ jobs' = Inserted(j, w, "pending", 0, NoKey)
    /\ topic' = Append(topic, Request(j, w, 0, maxRetry))
    /\ UNCHANGED <<paused, outbox, faults, workerVars>>

Init == StoreInit /\ QueueInit /\ WorkerInit

Next ==
    \/ \E j \in Jobs, w \in Offered, n \in Budgets : Arrive(j, w, n)
    \/ WorkerNext

Spec == Init /\ [][Next]_vars
FairSpec == Spec /\ WorkerFairness

----------------------------------------------------------------------------
(***************************************************************************)
(* Correctness.                                                            *)
(***************************************************************************)

\* Every variable keeps its type.
TypeOK == StoreTypeOK /\ QueueTypeOK /\ WorkerTypeOK

\* The goroutines of worker w that are between Acquire and Release of type t.
Holders(w, t) ==
    {g \in Goroutines :
        proc[g].pc \in HoldingPCs /\ proc[g].host = w /\ Req(g).work.type = t}

\* The limiter never lets more than Limit jobs of a type run on a worker, and
\* its channel holds exactly one token per job between Acquire and Release,
\* so that no path through process leaks a slot.
LimiterExact ==
    Limit > 0 =>
        \A w \in Workers, t \in Types :
            /\ tokens[w][t] = Cardinality(Holders(w, t))
            /\ tokens[w][t] <= Limit

\* An email job that is completed has an outbox row: the transaction of
\* CompleteJobWithOutbox is the only way to complete it, whatever fails.
CompletedEmailHasOutbox ==
    \A j \in Jobs :
        jobs[j] # NoRow /\ jobs[j].work.type = EmailType /\ jobs[j].status = "completed"
            => \E i \in DOMAIN outbox : outbox[i].job = j

\* A retry in the topic stays within max_retry, and the attempt before it is
\* in the topic ahead of it: process never skips or repeats a number.
RetryChain ==
    \A i \in DOMAIN topic :
        topic[i].attempt > 0 =>
            /\ topic[i].attempt <= topic[i].maxRetry
            /\ \E k \in 1 .. i - 1 :
                  topic[k] = [topic[i] EXCEPT !.attempt = topic[i].attempt - 1]

\* A job is archived only when all of its 1 + max_retry attempts were in the
\* topic, not earlier.
ArchivedAfterEveryAttempt ==
    \A j \in Jobs :
        jobs[j] # NoRow /\ jobs[j].status = "archived" =>
            \E i \in DOMAIN topic :
                /\ topic[i].job = j
                /\ topic[i].attempt = topic[i].maxRetry
                /\ jobs[j].attempt = topic[i].attempt + 1

\* A job is settled once it is completed, archived or cancelled, or failed for
\* want of a handler.
Settled(j) ==
    /\ jobs[j] # NoRow
    /\ \/ jobs[j].status \in {"completed", "archived", "cancelled"}
       \/ jobs[j].status = "failed" /\ jobs[j].work.type \notin Registered

\* Some goroutine still has its last step on job j ahead of it.
InFlight(j) ==
    \E g \in Goroutines :
        proc[g].pc \notin {"idle", "release", "commit"} /\ Req(g).job = j

\* Some message of job j is still to be fetched.
Awaiting(j) == \E i \in cursor + 1 .. Len(topic) : topic[i].job = j

\* A job that is not settled is never forgotten: a message of it is still to
\* be fetched, or a goroutine is working on one.
NoJobStranded ==
    \A j \in Jobs :
        jobs[j] # NoRow /\ ~Settled(j) => InFlight(j) \/ Awaiting(j)

\* The side effect of a completed email is recorded once.
OneOutboxRowPerJob ==
    \A i, k \in DOMAIN outbox : outbox[i].job = outbox[k].job => i = k

\* The outcome of a job is final: no later step takes it back.
OutcomeStands ==
    [][\A j \in Jobs : Settled(j) => jobs'[j] = jobs[j]]_vars

\* Every job that was submitted is settled in the end and stays so.
EventuallySettled ==
    \A j \in Jobs : (jobs[j] # NoRow) ~> [](Settled(j))

\* A job as JobContract sees it; the budget is the one of its messages.
JobSeen(j) ==
    IF jobs[j] = NoRow
    THEN [status |-> "absent", attempt |-> 0, budget |-> 0, known |-> TRUE]
    ELSE LET i == CHOOSE i \in DOMAIN topic : topic[i].job = j
         IN [status |-> jobs[j].status, attempt |-> jobs[j].attempt,
             budget |-> topic[i].maxRetry,
             known |-> jobs[j].work.type \in Registered]

Contract == INSTANCE JobContract WITH job <- [j \in Jobs |-> JobSeen(j)]

\* The workers implement the contract of a job: they do nothing it does not
\* allow, and they get there in the end.
KeepsContract == Contract!Safety
ImplementsContract == Contract!Spec
=============================================================================
