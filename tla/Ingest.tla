------------------------------- MODULE Ingest -------------------------------
(***************************************************************************)
(* The ingest consumer (internal/ingest/kafka.go): it reads job requests   *)
(* that other systems put in a Kafka topic and submits each.  A message is *)
(* committed as it is read, before it is submitted.  What SubmitFunc does  *)
(* is left to the module that extends this one: here it begins, and later  *)
(* it returns.                                                             *)
(***************************************************************************)
EXTENDS Naturals, Sequences

\* A message that is no JSON, one without a type, and a job request.
Contents == {"noJson", "noType", "job"}

CONSTANT Inbox   \* the topic: what is in each message other systems put there

ASSUME IngestAssumption == Inbox \in Seq(Contents)

VARIABLES
    read,        \* how far the reader has got in this session
    readCommit,  \* the committed offset of the consumer group
    hand         \* the message whose submit has not returned, 0 for none

ingestVars == <<read, readCommit, hand>>

IngestTypeOK ==
    /\ read \in 0 .. Len(Inbox)
    /\ readCommit \in 0 .. Len(Inbox)
    /\ hand \in 0 .. Len(Inbox)

IngestInit == read = 0 /\ readCommit = 0 /\ hand = 0

----------------------------------------------------------------------------
\* ReadMessage fetches and, CommitInterval being 0, commits at once.
ReadNext ==
    /\ hand = 0
    /\ read < Len(Inbox)
    /\ read' = read + 1

\* A message that cannot be submitted is dropped.
IngestDrop ==
    /\ ReadNext
    /\ Inbox[read + 1] # "job"
    /\ readCommit' = read + 1
    /\ UNCHANGED hand

\* Mutant: the message is committed when its submit has returned.
SubmitBeforeCommit ==
    /\ ReadNext
    /\ Inbox[read + 1] = "job"
    /\ hand' = read + 1
    /\ UNCHANGED readCommit

IngestSubmit ==
    /\ ReadNext
    /\ Inbox[read + 1] = "job"
    /\ readCommit' = read + 1
    /\ hand' = read + 1

\* The commit fails, or its answer is lost: ReadMessage returns the error
\* instead of the message, and the reader goes on with the next one.
IngestSkip ==
    /\ ReadNext
    /\ readCommit' \in {readCommit, read + 1}
    /\ UNCHANGED hand

\* submit returned an id or an error; either way the loop goes on.
IngestReturn ==
    /\ hand # 0
    /\ hand' = 0
    /\ UNCHANGED <<read, readCommit>>

\* Mutant: a new generation starts at the end of the topic.
IngestFromEnd == read' = Len(Inbox) /\ UNCHANGED <<readCommit, hand>>

\* A new generation of the group reads on from the committed offset; the
\* message in hand is submitted all the same.
IngestRebalance == read' = readCommit /\ UNCHANGED <<readCommit, hand>>

\* The process starts again after a crash.
IngestRestart == read' = readCommit /\ hand' = 0 /\ UNCHANGED readCommit
=============================================================================
