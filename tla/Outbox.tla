------------------------------- MODULE Outbox -------------------------------
(***************************************************************************)
(* The outbox processors (runOutboxProcessor and runOutboxBatch of         *)
(* cmd/worker/main.go): every worker process polls table job_outbox, sends *)
(* the email of each pending row it listed and then sets the row's status. *)
(* A worker that was started without SMTP_ADDR, as is the default, takes   *)
(* part in all of this but the sending.                                    *)
(***************************************************************************)
EXTENDS JobStore, FiniteSets

CONSTANTS
    Senders,     \* the worker processes, one processor each
    BatchSize,   \* the LIMIT of the listing, 10 in the code
    MaxRows      \* how many rows the workers insert, a bound of the model

ASSUME OutboxAssumption ==
    /\ IsFiniteSet(Senders)
    /\ BatchSize \in Nat \ {0}
    /\ MaxRows \in Nat

VARIABLES
    connected, \* the senders that were started with an SMTP_ADDR
    batch,     \* sender -> ids of the listed rows it has not dealt with, in
               \* their order
    outcome,   \* sender -> what Handle returned for the first of them
    mails,     \* id -> how many emails went out for the row
    silent     \* history: ids of the rows that Handle took without a server

senderVars == <<connected, batch, outcome>>
sentVars == <<mails, silent>>
outboxVars == <<jobs, paused, outbox, faults, connected, batch, outcome, mails, silent>>

Outcomes == {"none", "nil", "error"}

OutboxTypeOK ==
    /\ StoreTypeOK
    /\ connected \subseteq Senders
    /\ batch \in [Senders -> SUBSET (DOMAIN outbox)]
    /\ outcome \in [Senders -> Outcomes]
    /\ \A s \in Senders : outcome[s] # "none" => batch[s] # {}
    /\ mails \in Seq(Nat) /\ Len(mails) = Len(outbox)
    /\ silent \subseteq DOMAIN outbox

OutboxInit ==
    /\ StoreInit
    /\ connected \in SUBSET Senders
    /\ batch = [s \in Senders |-> {}]
    /\ outcome = [s \in Senders |-> "none"]
    /\ mails = << >>
    /\ silent = {}

----------------------------------------------------------------------------
\* A worker completes an email job: CompleteJobWithOutbox adds the row.
AddRow(j) ==
    /\ Len(outbox) < MaxRows
    /\ outbox' = Append(outbox, [job |-> j, status |-> "pending"])
    /\ mails' = Append(mails, 0)
    /\ UNCHANGED <<jobs, paused, faults, senderVars, silent>>

\* Mutant: the listing forgets the condition on the status.
AllRows == DOMAIN outbox

\* ListPendingOutbox: the oldest pending rows, at most BatchSize of them.
Pending == {i \in DOMAIN outbox : outbox[i].status = "pending"}

FirstPending == {i \in Pending : Cardinality({k \in Pending : k <= i}) <= BatchSize}

List(s) ==
    /\ batch[s] = {}
    /\ Pending # {}
    /\ batch' = [batch EXCEPT ![s] = FirstPending]
    /\ UNCHANGED <<storeVars, faults, connected, outcome, sentVars>>

\* The row the loop is at.
AtRow(s, i) == i \in batch[s] /\ \A k \in batch[s] : i <= k

\* SMTPAddr is empty: Handle logs the email and returns nil.
SendNothing(s, i) ==
    /\ s \notin connected
    /\ outcome' = [outcome EXCEPT ![s] = "nil"]
    /\ silent' = silent \cup {i}
    /\ UNCHANGED <<mails, faults>>

\* SendMail: an SMTP server that reports an error may have taken the mail.
SendMail(s, i) ==
    LET mailed == [mails EXCEPT ![i] = mails[i] + 1] IN
    /\ s \in connected
    /\ \/ mails' = mailed /\ outcome' = [outcome EXCEPT ![s] = "nil"] /\ UNCHANGED faults
       \/ /\ Fault("smtp")
          /\ mails' \in {mails, mailed}
          /\ outcome' = [outcome EXCEPT ![s] = "error"]
    /\ UNCHANGED silent

\* Handle of the email handler; the payload of a row is valid, since process
\* looked at it before the row was inserted.
Send(s, i) ==
    /\ AtRow(s, i) /\ outcome[s] = "none"
    /\ SendNothing(s, i) \/ SendMail(s, i)
    /\ UNCHANGED <<storeVars, connected, batch>>

NextRow(s, i) ==
    batch' = [batch EXCEPT ![s] = @ \ {i}] /\ outcome' = [outcome EXCEPT ![s] = "none"]

\* Mutant: an error of Handle ends the loop, so that nothing follows it.
MarkAfterNil(s, i) ==
    /\ AtRow(s, i) /\ outcome[s] = "nil"
    /\ outbox' = [outbox EXCEPT ![i].status = "sent"]
    /\ NextRow(s, i)
    /\ UNCHANGED <<jobs, paused, faults, connected, sentVars>>

\* Mutant: the error of Handle is not looked at.
MarkSent(s, i) ==
    /\ AtRow(s, i) /\ outcome[s] # "none"
    /\ outbox' = [outbox EXCEPT ![i].status = "sent"]
    /\ NextRow(s, i)
    /\ UNCHANGED <<jobs, paused, faults, connected, sentVars>>

\* UpdateOutboxStatus: unconditional, and its error is ignored.
Mark(s, i) ==
    LET status == IF outcome[s] = "nil" THEN "sent" ELSE "failed" IN
    /\ AtRow(s, i) /\ outcome[s] # "none"
    /\ \/ outbox' = [outbox EXCEPT ![i].status = status] /\ UNCHANGED faults
       \/ Fault("store") /\ UNCHANGED outbox
    /\ NextRow(s, i)
    /\ UNCHANGED <<jobs, paused, connected, sentVars>>

\* Mutant: a restarted processor takes up a verdict of its predecessor.
CrashKeepsOutcome(s) ==
    /\ Fault("crash")
    /\ batch' = [batch EXCEPT ![s] = {}]
    /\ UNCHANGED <<storeVars, connected, outcome, sentVars>>

\* The worker process dies and is restarted.
SenderCrash(s) ==
    /\ Fault("crash")
    /\ batch' = [batch EXCEPT ![s] = {}]
    /\ outcome' = [outcome EXCEPT ![s] = "none"]
    /\ UNCHANGED <<storeVars, connected, sentVars>>

SenderStep(s) == List(s) \/ \E i \in DOMAIN outbox : Send(s, i) \/ Mark(s, i)

OutboxNext ==
    \/ \E j \in Jobs : AddRow(j)
    \/ \E s \in Senders : SenderStep(s) \/ SenderCrash(s)

\* The ticker of every processor keeps firing.
OutboxSpec ==
    /\ OutboxInit
    /\ [][OutboxNext]_outboxVars
    /\ \A s \in Senders : WF_outboxVars(SenderStep(s))

----------------------------------------------------------------------------
\* A processor with a server sends the email of a row once, and once more for a
\* crash or a failed update: emails repeat without bound only if failures do.
OneMailPerFault ==
    \A i \in DOMAIN mails : mails[i] <= Cardinality(connected) + faults

\* A row says sent only if its email went out, whoever else works on the row, or
\* if a processor without a server took it: an error of SMTP, a crash or a
\* failed update never has a row say sent that nobody mailed.
SentMeansMailed ==
    \A i \in DOMAIN outbox :
        outbox[i].status = "sent" /\ i \notin silent => mails[i] > 0

\* No pending row waits forever, however the batches fail.
EveryRowHandled ==
    \A i \in 1 .. MaxRows :
        (i \in DOMAIN outbox) ~> (i \in DOMAIN outbox /\ outbox[i].status # "pending")
=============================================================================
