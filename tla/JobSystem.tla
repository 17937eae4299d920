----------------------------- MODULE JobSystem -----------------------------
(***************************************************************************)
(* The whole path of a job: the API's backend, the scheduler's promoter    *)
(* and the workers, which share the store, the topic and the clock and     *)
(* take their steps in any order.                                          *)
(***************************************************************************)
EXTENDS Backend, Promoter, Worker

sysVars == <<vars, now, apiVars, promoterVars>>

SysInit ==
    /\ StoreInit /\ QueueInit /\ ClockInit
    /\ BackendInit /\ PromoterInit /\ WorkerInit

ApiStep == BackendNext /\ UNCHANGED <<workerVars, promoterVars>>
SchedulerStep == PromoterNext /\ UNCHANGED <<workerVars, apiVars>>
WorkerStep == WorkerNext /\ UNCHANGED <<now, apiVars, promoterVars>>
TimeStep ==
    /\ Tick
    /\ UNCHANGED <<storeVars, faults, topic, workerVars, apiVars, promoterVars>>

SysNext == ApiStep \/ SchedulerStep \/ WorkerStep \/ TimeStep

SysSpec == SysInit /\ [][SysNext]_sysVars

----------------------------------------------------------------------------
\* Every variable of every component keeps its type.
SysTypeOK == TypeOK /\ ClockTypeOK /\ BackendTypeOK /\ PromoterTypeOK

\* A delayed job is not handed to the workers before its time, by Submit or by
\* the promoter, whatever fails.
NotBeforeDue ==
    \A i \in DOMAIN topic :
        LET rec == jobs[topic[i].job] IN rec # NoRow => rec.runAt <= now

\* The id that Submit returns for a new job is the id of a row, and the job is
\* in the topic or left to the promoter or was cancelled.
SubmittedIsDurable ==
    \A r \in submitted :
        r.key = NoKey =>
            /\ jobs[r.job] # NoRow
            /\ \/ \E i \in DOMAIN topic : topic[i].job = r.job
               \/ jobs[r.job].runAt > 0 /\ jobs[r.job].status \in {"scheduled", "cancelled"}

\* A job that is not settled is never forgotten by all components at once.
NoJobForgotten ==
    \A j \in Jobs :
        jobs[j] # NoRow /\ ~Settled(j) =>
            \/ InFlight(j) \/ Awaiting(j)
            \/ \E c \in Callers : call[c].job = j /\ call[c].pc = "enqueue"
            \/ jobs[j].status = "scheduled"
=============================================================================
