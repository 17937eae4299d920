------------------------------ MODULE JobStore ------------------------------
(***************************************************************************)
(* The Postgres store (internal/store/postgres.go over                     *)
(* deploy/postgres/schema.sql): the tables jobs, queues and job_outbox,    *)
(* and the statements the other components run on them.  A statement, or a *)
(* transaction, is one step.  Rows keep the columns that a decision of the *)
(* code or a property depends on; last_error, timestamps and the priority  *)
(* are left out.                                                           *)
(***************************************************************************)
EXTENDS Naturals, Sequences

CONSTANTS
    Jobs,         \* the job ids that may be generated
    Types,        \* the job types a client may name
    Registered,   \* the types the worker's registry has a handler for
    EmailType,    \* the type whose completion goes through the outbox
    Payloads,     \* the payloads a client may send
    Queues,       \* the queue names
    Keys,         \* the idempotency keys
    NoKey,        \* the NULL idempotency key
    NoRow,        \* the value of an id that has no row
    FaultKinds,   \* which outside failures may happen
    MaxFaults     \* how many of them at most

\* The job itself, which every row and every message carries unchanged:
\* its type, payload and queue.
Work == [type : Types, payload : Payloads, queue : Queues]

Statuses == {"pending", "scheduled", "processing", "failed", "completed",
             "archived", "cancelled"}

JobRecord == [work : Work, status : Statuses, attempt : Nat,
              runAt : Nat, key : Keys \cup {NoKey}]

OutboxRecord == [job : Jobs, status : {"pending", "sent", "failed"}]

ASSUME StoreAssumption ==
    /\ Registered \subseteq Types
    /\ EmailType \in Registered
    /\ NoRow \notin JobRecord
    /\ NoKey \notin Keys
    /\ MaxFaults \in Nat

VARIABLES
    jobs,     \* id -> row of table jobs, or NoRow
    paused,   \* the queues whose row in table queues says paused
    outbox,   \* table job_outbox, in insertion order
    faults    \* how many outside failures have happened

storeVars == <<jobs, paused, outbox>>

StoreTypeOK ==
    /\ jobs \in [Jobs -> JobRecord \cup {NoRow}]
    /\ paused \in SUBSET Queues
    /\ outbox \in Seq(OutboxRecord)
    /\ faults \in 0 .. MaxFaults

StoreInit ==
    /\ jobs = [j \in Jobs |-> NoRow]
    /\ paused = {}
    /\ outbox = << >>
    /\ faults = 0

----------------------------------------------------------------------------
\* A failure the program does not cause: one more of the given kind.
Fault(kind) ==
    /\ kind \in FaultKinds
    /\ faults < MaxFaults
    /\ faults' = faults + 1

\* Create: INSERT INTO jobs; ids are fresh uuids, so the primary key never
\* clashes.
Inserted(j, w, status, runAt, key) ==
    [jobs EXCEPT ![j] = [work |-> w, status |-> status, attempt |-> 0,
                         runAt |-> runAt, key |-> key]]

\* UpdateStatus: the UPDATE has no condition on the old status, and an id
\* without a row updates nothing.
Updated(j, status, attempt) ==
    IF jobs[j] = NoRow THEN jobs
    ELSE [jobs EXCEPT ![j].status = status, ![j].attempt = attempt]

\* A caller that ignores the error of UpdateStatus.
UpdateStatus(j, status, attempt) ==
    \/ jobs' = Updated(j, status, attempt) /\ UNCHANGED faults
    \/ Fault("store") /\ UNCHANGED jobs

\* Mutant: two statements without a transaction, the second of which may fail.
CompleteThenOutbox(j, status, attempt) ==
    /\ jobs' = Updated(j, status, attempt)
    /\ outbox' \in {outbox, Append(outbox, [job |-> j, status |-> "pending"])}

\* CompleteJobWithOutbox: the UPDATE and the INSERT commit together.
CompleteJobWithOutbox(j, status, attempt) ==
    /\ jobs' = Updated(j, status, attempt)
    /\ outbox' = Append(outbox, [job |-> j, status |-> "pending"])
=============================================================================
