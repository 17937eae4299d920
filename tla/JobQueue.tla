------------------------------ MODULE JobQueue ------------------------------
(***************************************************************************)
(* The Kafka topic job.requests and its producer                           *)
(* (internal/kafkaqueue/producer.go).  The topic is an append-only log of  *)
(* one partition; message i of the sequence has Kafka offset i - 1.        *)
(***************************************************************************)
EXTENDS JobStore

CONSTANTS
    Offered,   \* the work clients submit
    Budgets    \* the max_retry values they ask for

ASSUME ClientAssumption ==
    /\ Offered \subseteq Work
    /\ Budgets \subseteq Nat

VARIABLE topic   \* the log of job requests

JobRequest == [job : Jobs, work : Work, attempt : Nat, maxRetry : Nat]

QueueTypeOK == topic \in Seq(JobRequest)
QueueInit == topic = << >>

\* The message Enqueue builds from its arguments.
Request(j, w, attempt, maxRetry) ==
    [job |-> j, work |-> w, attempt |-> attempt, maxRetry |-> maxRetry]

\* WriteMessages returns nil.  The writer retries a write whose
\* acknowledgement is lost, so a broker failure may leave the message twice.
EnqueueOk(m) ==
    \/ topic' = Append(topic, m) /\ UNCHANGED faults
    \/ Fault("broker") /\ topic' = topic \o <<m, m>>

\* WriteMessages returns an error.  The message may be in the log all the same.
EnqueueError(m) ==
    Fault("broker") /\ topic' \in {topic, Append(topic, m)}
=============================================================================
