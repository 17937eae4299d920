------------------------------ MODULE FakeJobs ------------------------------
(***************************************************************************)
(* The scheduler's rounds of fake jobs (internal/scheduler/scheduler.go    *)
(* and jobs.go, and the submit function of cmd/scheduler/main.go): one job *)
(* of each type, made by a Create and an Enqueue of its own.               *)
(***************************************************************************)
EXTENDS JobQueue

CONSTANTS
    FakeTypes,     \* JobTypes of the code: the types of a round, in order
    FakePayload,   \* what GenerateFake makes of all of them
    FakeQueue,     \* "default" in the code
    NoFake,        \* no job is between Create and Enqueue
    MaxRounds      \* how many rounds there are, a bound of the model

ASSUME FakeAssumption ==
    /\ FakeTypes \in Seq(Types) /\ FakeTypes # << >>
    /\ FakePayload \in Payloads /\ FakeQueue \in Queues
    /\ NoFake \notin Jobs
    /\ MaxRounds \in Nat

VARIABLES
    todo,      \* the types that the round has still to do
    fakeJob,   \* the job that is created and not yet enqueued
    rounds     \* how many rounds have begun

fakeVars == <<todo, fakeJob, rounds>>

FakeTypeOK ==
    /\ todo \in Seq(Types)
    /\ fakeJob \in Jobs \cup {NoFake}
    /\ fakeJob # NoFake => todo # << >>
    /\ rounds \in 0 .. MaxRounds

FakeInit == todo = << >> /\ fakeJob = NoFake /\ rounds = 0

FakeWork == [type |-> Head(todo), payload |-> FakePayload, queue |-> FakeQueue]

\* maxRetry is 2 for all fake jobs.
FakeRetries == 2

----------------------------------------------------------------------------
\* The ticker fires while no round is under way; a tick during a round waits.
RunRound ==
    /\ todo = << >> /\ rounds < MaxRounds
    /\ todo' = FakeTypes
    /\ rounds' = rounds + 1
    /\ UNCHANGED <<storeVars, faults, topic, fakeJob>>

\* Mutant: the id of the job before is kept.
TypeOnly == todo' = Tail(todo) /\ UNCHANGED fakeJob

NextType == todo' = Tail(todo) /\ fakeJob' = NoFake

\* Create with a fresh id j; after an error of the connection the row may be
\* there, and the round goes on with the next type.
FakeCreate(j) ==
    LET new == Inserted(j, FakeWork, "pending", 0, NoKey) IN
    /\ todo # << >> /\ fakeJob = NoFake
    /\ \/ jobs' = new /\ fakeJob' = j /\ UNCHANGED <<faults, todo>>
       \/ Fault("store") /\ jobs' \in {jobs, new} /\ NextType
    /\ UNCHANGED <<paused, outbox, topic, rounds>>

\* Mutant: a message that cannot be sent at once is left for a later round.
FakeEnqueueLater ==
    /\ fakeJob # NoFake
    /\ \/ EnqueueOk(Request(fakeJob, FakeWork, 0, FakeRetries))
       \/ UNCHANGED <<topic, faults>>
    /\ NextType
    /\ UNCHANGED <<storeVars, rounds>>

FakeEnqueue ==
    LET m == Request(fakeJob, FakeWork, 0, FakeRetries) IN
    /\ fakeJob # NoFake
    /\ EnqueueOk(m) \/ EnqueueError(m)
    /\ NextType
    /\ UNCHANGED <<storeVars, rounds>>

\* The scheduler process dies, and its round with it.
SchedulerCrash ==
    /\ Fault("schedulerCrash")
    /\ todo' = << >> /\ fakeJob' = NoFake
    /\ UNCHANGED <<storeVars, topic, rounds>>
=============================================================================
