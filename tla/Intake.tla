------------------------------- MODULE Intake -------------------------------
(***************************************************************************)
(* Everything that makes jobs, side by side: the programs in front of the  *)
(* API and its own clients, the ingest consumer and the scheduler's fake   *)
(* jobs.  The workers and the promoter are left out: a job is in when its  *)
(* row is written and its message is in the topic, or the promoter's to    *)
(* send.  Nothing in the repository starts the ingest consumer; here it    *)
(* runs in the API process, as the name of its group says, and submits     *)
(* through the backend.  The clock stands still.                           *)
(***************************************************************************)
EXTENDS FrontEnds, FakeJobs, Ingest, FiniteSets

CONSTANT Ingester   \* the caller that stands for the ingest consumer

ASSUME IntakeAssumption == Ingester \in Callers \ Users

intakeVars == <<storeVars, faults, topic, now, apiVars, frontVars, fakeVars, ingestVars>>

IntakeTypeOK ==
    /\ StoreTypeOK /\ QueueTypeOK /\ ClockTypeOK /\ BackendTypeOK
    /\ FrontTypeOK /\ FakeTypeOK /\ IngestTypeOK

IntakeInit ==
    /\ StoreInit /\ QueueInit /\ ClockInit /\ BackendInit
    /\ FrontInit /\ FakeInit /\ IngestInit

----------------------------------------------------------------------------
UserStep ==
    \E u \in Users : FrontStep(u) /\ UNCHANGED <<fakeVars, ingestVars>>

\* SubmitFunc has no options: no key, no retry, no run_at.
BeginSubmit ==
    /\ IngestSubmit
    /\ \E w \in Offered : Submit(Ingester, w, 0, 0, NoKey)
    /\ UNCHANGED maker

SubmitGoesOn ==
    /\ CallStep(Ingester)
    /\ MadeFor(Message(hand))
    /\ IF call'[Ingester].pc = "idle" THEN IngestReturn ELSE UNCHANGED ingestVars

IngestAlone == UNCHANGED <<storeVars, topic, now, apiVars, maker>>

IngestStep ==
    /\ \/ IngestAlone /\ UNCHANGED faults /\ IngestDrop
       \/ IngestAlone /\ Fault("commit") /\ IngestSkip
       \/ IngestAlone /\ Fault("rebalance") /\ IngestRebalance
       \/ BeginSubmit
       \/ SubmitGoesOn
    /\ UNCHANGED <<user, fakeVars>>

SchedulerStep ==
    /\ \/ RunRound \/ FakeEnqueue \/ SchedulerCrash
       \/ \E j \in Jobs : Fresh(j) /\ FakeCreate(j)
    /\ MadeFor(Scheduler)
    /\ UNCHANGED <<now, apiVars, user, ingestVars>>

ApiRestart ==
    /\ ApiCrash /\ UsersCutOff /\ IngestRestart
    /\ UNCHANGED <<maker, fakeVars>>

IntakeNext == UserStep \/ IngestStep \/ SchedulerStep \/ ApiRestart

IntakeSpec == IntakeInit /\ [][IntakeNext]_intakeVars

----------------------------------------------------------------------------
(***************************************************************************)
(* Correctness (and SameKeySameJob).                                       *)
(***************************************************************************)
Sent(j) == \E i \in DOMAIN topic : topic[i].job = j

\* The job will be run without anybody doing anything more for it.
Durable(j) == jobs[j] # NoRow /\ (Sent(j) \/ jobs[j].status = "scheduled")

\* A user without a key who is told that the request went well has a job in the
\* queue, although codes and errors went through two programs.
QueuedMeansQueued ==
    \A u \in Users :
        user[u].pc = "told" /\ user[u].code < 400 /\ user[u].request.key = NoKey
            => \E j \in MadeBy(User(u)) : Durable(j)

\* The job a user without a key asked for once is made once, up to the outside
\* failures: no program answers a success with an error, so a user asks again
\* only after one of them or when nothing was made.
OneJobPerIntent ==
    \A u \in Users : Cardinality(MadeBy(User(u))) <= 1 + faults

\* A message of the ingest topic makes one job at most, though it may be read again
\* after a crash, a rebalance or a failed commit.
IngestOnce ==
    \A n \in DOMAIN Inbox : \A j, k \in MadeBy(Message(n)) : j = k

\* The job requests the reader is past that have no job: each cost a failure.
Lost ==
    {n \in 1 .. read : /\ Inbox[n] = "job" /\ n # hand
                       /\ \A j \in MadeBy(Message(n)) : ~Durable(j)}

LossPerFault == Cardinality(Lost) <= faults

\* The pending rows of one origin that nothing will ever run, because their
\* message was not sent, are no more than the failures.
InHand(j) == fakeJob = j \/ \E c \in Callers : call[c].job = j /\ call[c].pc = "enqueue"

Orphans(who) == {j \in MadeBy(who) : ~Durable(j) /\ ~InHand(j)}

OrphansPerFault ==
    \A who \in {User(u) : u \in Users} \cup {Scheduler} : Cardinality(Orphans(who)) <= faults
=============================================================================
