----------------------------- MODULE Recurring -----------------------------
(***************************************************************************)
(* Recurring jobs: the API's CreateSchedule and DeleteSchedule             *)
(* (internal/api/backend.go) and the scheduler's runRecurringTick          *)
(* (internal/scheduler/recurring.go), over the table schedules.  A tick    *)
(* lists the schedules that are due and, for each, inserts a job, enqueues *)
(* it and moves next_run_at on: three calls, each of which may fail.       *)
(***************************************************************************)
EXTENDS JobQueue, Clock, FiniteSets

CONSTANTS
    Schedules,      \* the ids the sequence of table schedules gives out
    NoSchedule,     \* an id without a row
    Periods,        \* the cron expressions, each by the time between its runs
    ScheduleLimit   \* the LIMIT of the listing, 50 in the code

\* A row of table schedules; since is created_at.
ScheduleRecord == [work : Work, every : Periods, maxRetry : Nat,
                   since : Nat, nextRun : Nat]

ASSUME RecurringAssumption ==
    /\ Schedules \subseteq Nat
    /\ Periods \subseteq Nat \ {0}
    /\ NoSchedule \notin ScheduleRecord
    /\ ScheduleLimit \in Nat \ {0}

VARIABLES
    schedules,   \* id -> row of table schedules, or NoSchedule
    dropped,     \* the ids whose DeleteSchedule returned nil
    listed,      \* the rows the tick has listed and not yet dealt with
    doing,       \* the one it is working on, with the job made for it
    made         \* history: the job rows made, with schedule and run

recurringVars == <<schedules, dropped, listed, doing, made>>
recVars == <<storeVars, faults, topic, now, recurringVars>>

Entry == [id : Schedules, row : ScheduleRecord]

RecurringTypeOK ==
    /\ StoreTypeOK /\ QueueTypeOK /\ ClockTypeOK
    /\ schedules \in [Schedules -> ScheduleRecord \cup {NoSchedule}]
    /\ dropped \subseteq Schedules
    /\ listed \subseteq Entry
    /\ doing \subseteq [entry : listed, job : Jobs, pc : {"enqueue", "advance"}]
    /\ made \subseteq [schedule : Schedules, run : Nat, job : Jobs, late : BOOLEAN]

RecurringInit ==
    /\ StoreInit /\ QueueInit /\ ClockInit
    /\ schedules = [s \in Schedules |-> NoSchedule]
    /\ dropped = {} /\ listed = {} /\ doing = {} /\ made = {}

----------------------------------------------------------------------------
(***************************************************************************)
(* The API.                                                                *)
(***************************************************************************)
\* cron's Next: the first run of the schedule after time t.
NextAfter(every, t) == (t \div every + 1) * every

Existing == {s \in Schedules : schedules[s] # NoSchedule}

\* BIGSERIAL: ids ascend and are not given out again.
NextId(s) ==
    /\ s \notin Existing \cup dropped
    /\ \A r \in Schedules : r < s => r \in Existing \cup dropped

NewRow(s, w, every, n) ==
    [schedules EXCEPT ![s] = [work |-> w, every |-> every, maxRetry |-> n,
                              since |-> now, nextRun |-> NextAfter(every, now)]]

CreateSchedule(s, w, every, n) ==
    /\ NextId(s)
    /\ schedules' = NewRow(s, w, every, n)
    /\ UNCHANGED <<storeVars, faults, topic, now, dropped, listed, doing, made>>

\* DELETE affects no row when there is none, and that is no error.
DeleteSchedule(s) ==
    /\ s \in Existing
    /\ schedules' = [schedules EXCEPT ![s] = NoSchedule]
    /\ dropped' = dropped \cup {s}
    /\ UNCHANGED <<storeVars, faults, topic, now, listed, doing, made>>

----------------------------------------------------------------------------
(***************************************************************************)
(* The tick.                                                               *)
(***************************************************************************)
\* Mutant: the listing forgets to compare with the time.
AllSchedules == Existing
DueSchedules == {s \in Existing : schedules[s].nextRun <= now}

\* ListSchedulesDue: ORDER BY next_run_at LIMIT ScheduleLimit.
FirstListed(S) ==
    /\ S \subseteq DueSchedules
    /\ Cardinality(S) <= ScheduleLimit
    /\ S = DueSchedules \/ Cardinality(S) = ScheduleLimit
    /\ \A s \in S, r \in DueSchedules \ S :
          schedules[s].nextRun <= schedules[r].nextRun

ListSchedulesDue ==
    /\ listed = {}
    /\ \E S \in SUBSET DueSchedules :
          /\ S # {} /\ FirstListed(S)
          /\ listed' = {[id |-> s, row |-> schedules[s]] : s \in S}
    /\ UNCHANGED <<storeVars, faults, topic, now, schedules, dropped, doing, made>>

\* uuid.New; which id it returns makes no difference, so one stands for all.
HasFresh == \E j \in Jobs : jobs[j] = NoRow
FreshJob == CHOOSE j \in Jobs : jobs[j] = NoRow

Foremost(e) == \A f \in listed : e.row.nextRun <= f.row.nextRun

\* Create; after an error, which leaves the schedule to a later tick, the row
\* may be there or not.
CreateJob(e) ==
    LET j == FreshJob
        new == Inserted(j, e.row.work, "pending", 0, NoKey)
        run == [schedule |-> e.id, run |-> e.row.nextRun, job |-> j,
                late |-> e.id \in dropped]
    IN
    /\ doing = {} /\ Foremost(e) /\ HasFresh
    /\ \/ /\ jobs' = new /\ made' = made \cup {run}
          /\ doing' = {[entry |-> e, job |-> j, pc |-> "enqueue"]}
          /\ UNCHANGED <<faults, listed>>
       \/ /\ Fault("store")
          /\ jobs' \in {jobs, new}
          /\ made' = IF jobs' = jobs THEN made ELSE made \cup {run}
          /\ listed' = listed \ {e}
          /\ UNCHANGED doing
    /\ UNCHANGED <<paused, outbox, topic, now, schedules, dropped>>

JobMessage(d) == Request(d.job, d.entry.row.work, 0, d.entry.row.maxRetry)

\* Mutant: an error of Enqueue does not end the work on the schedule.
EnqueueRegardless(d) ==
    /\ d.pc = "enqueue"
    /\ EnqueueOk(JobMessage(d)) \/ EnqueueError(JobMessage(d))
    /\ doing' = {[d EXCEPT !.pc = "advance"]}
    /\ UNCHANGED <<storeVars, now, schedules, dropped, listed, made>>

EnqueueJob(d) ==
    /\ d.pc = "enqueue"
    /\ \/ /\ EnqueueOk(JobMessage(d))
          /\ doing' = {[d EXCEPT !.pc = "advance"]}
          /\ UNCHANGED listed
       \/ /\ EnqueueError(JobMessage(d))
          /\ doing' = {} /\ listed' = listed \ {d.entry}
    /\ UNCHANGED <<storeVars, now, schedules, dropped, made>>

\* Mutants: the next run is the one after now, not after the run just made;
\* the statement inserts the row again if it is gone; the row is not moved on.
AdvancedFromNow(e) ==
    IF schedules[e.id] = NoSchedule THEN schedules
    ELSE [schedules EXCEPT ![e.id].nextRun = NextAfter(e.row.every, now)]
AdvancedOrInserted(e) ==
    [schedules EXCEPT ![e.id] =
        [e.row EXCEPT !.nextRun = NextAfter(e.row.every, e.row.nextRun)]]
AdvancedToItself(e) == schedules

\* UpdateScheduleNextRun: the UPDATE affects no row when there is none.
Advanced(e) ==
    IF schedules[e.id] = NoSchedule THEN schedules
    ELSE [schedules EXCEPT ![e.id].nextRun = NextAfter(e.row.every, e.row.nextRun)]

\* Mutant: the loop ends after the first schedule without ending the tick.
AdvanceOnly(d) ==
    /\ d.pc = "advance"
    /\ schedules' = Advanced(d.entry)
    /\ listed' = listed \ {d.entry}
    /\ UNCHANGED <<storeVars, faults, topic, now, dropped, doing, made>>

Advance(d) ==
    /\ d.pc = "advance"
    /\ \/ schedules' = Advanced(d.entry) /\ UNCHANGED faults
       \/ Fault("store") /\ schedules' \in {schedules, Advanced(d.entry)}
    /\ doing' = {} /\ listed' = listed \ {d.entry}
    /\ UNCHANGED <<storeVars, topic, now, dropped, made>>

\* The scheduler process dies and is restarted.
SchedulerCrash ==
    /\ Fault("schedulerCrash")
    /\ listed' = {} /\ doing' = {}
    /\ UNCHANGED <<storeVars, topic, now, schedules, dropped, made>>

TickStep ==
    \/ ListSchedulesDue
    \/ \E e \in listed : CreateJob(e)
    \/ \E d \in doing : EnqueueJob(d) \/ Advance(d)

RecurringNext ==
    \/ \E s \in Schedules, w \in Offered, p \in Periods, n \in Budgets :
          CreateSchedule(s, w, p, n)
    \/ \E s \in Schedules : DeleteSchedule(s)
    \/ TickStep
    \/ SchedulerCrash
    \/ Tick /\ UNCHANGED <<storeVars, faults, topic, recurringVars>>

\* The ticker keeps firing and every call of a tick returns.
RecurringSpec ==
    RecurringInit /\ [][RecurringNext]_recVars /\ WF_recVars(TickStep)

----------------------------------------------------------------------------
(***************************************************************************)
(* Correctness.                                                            *)
(***************************************************************************)
\* The message of some job made for run t of schedule s is in the topic.
Ran(s, t) ==
    \E m \in made :
        /\ m.schedule = s /\ m.run = t
        /\ \E i \in DOMAIN topic : topic[i].job = m.job

IsRun(r, t) == r.since < t /\ t % r.every = 0

\* next_run_at never moves past a run that was not handed to the workers:
\* no run is skipped, however late the tick and whatever call of it fails.
NoRunSkipped ==
    \A s \in Existing : \A t \in 1 .. schedules[s].nextRun - 1 :
        IsRun(schedules[s], t) => Ran(s, t)

\* No job is made for a run that is still to come.
NoRunEarly == \A m \in made : m.run <= now

\* A run is made twice only if a call or the process failed in between: each
\* failure costs at most one more job.
JobsPerRun ==
    \A s \in Schedules, t \in 1 .. MaxTime :
        Cardinality({m \in made : m.schedule = s /\ m.run = t}) <= 1 + faults

\* A schedule deleted while a tick has it in hand still gets the job of that
\* tick, but no other: the tick does not bring the row back.
OneJobAfterDelete ==
    \A s \in dropped : Cardinality({m \in made : m.schedule = s /\ m.late}) <= 1

\* Every run that is due is handed to the workers in the end, missed ones one
\* by one, unless the schedule is deleted first.
EveryRunHappens ==
    \A s \in Schedules, t \in 1 .. MaxTime :
        (s \in Existing /\ IsRun(schedules[s], t) /\ t <= now)
            ~> (Ran(s, t) \/ s \notin Existing)
=============================================================================
