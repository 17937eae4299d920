-------------------------- MODULE RecurringProofs --------------------------
(***************************************************************************)
(* Theorems about recurring jobs, for any schedules, periods, LIMIT of the *)
(* listing and failures: no run is skipped, none is made early, each is    *)
(* made once up to the failures, and a deleted schedule gets at most the   *)
(* one job already in hand.                                                *)
(***************************************************************************)
EXTENDS Recurring, FiniteSetTheorems, SequenceTheorems, TLAPS

----------------------------------------------------------------------------
(***************************************************************************)
(* The runs of a schedule are the multiples of its period.                 *)
(***************************************************************************)
LEMMA NextAfterType ==
    ASSUME NEW every \in Nat \ {0}, NEW t \in Nat
    PROVE  NextAfter(every, t) \in Nat /\ NextAfter(every, t) > t
  <1>1. t \div every \in Nat
    BY SMT
  <1>2. (t \div every + 1) * every \in Nat
    BY <1>1, SMT
  <1>3. t < every * (t \div every + 1)
    BY SMT
  <1>4. every * (t \div every + 1) = (t \div every + 1) * every
    BY <1>1, SMT
  <1> QED
    BY <1>2, <1>3, <1>4 DEF NextAfter

LEMMA FactorOrder ==
    ASSUME NEW k \in Nat \ {0}, NEW p \in Nat, NEW q \in Nat, k * p < k * q
    PROVE  p < q
  <1> SUFFICES ASSUME p >= q
               PROVE  FALSE
    BY SMT
  <1>1. PICK d \in Nat : p = q + d
    BY SMT
  <1>2. k * p = k * q + k * d /\ k * d \in Nat /\ k * q \in Nat
    BY <1>1, SMT
  <1> QED
    BY <1>2, SMT

\* Between a time and the run that follows it there is no other run.
LEMMA NoRunBetween ==
    ASSUME NEW every \in Nat \ {0}, NEW t \in Nat, NEW u \in Nat,
           u % every = 0, t < u, u < NextAfter(every, t)
    PROVE  FALSE
  <1> DEFINE p == t \div every  q == u \div every
  <1>1. p \in Nat /\ q \in Nat
    BY SMT
  <1>2. u = every * q
    BY SMT
  <1>3. every * p <= t
    BY SMT
  <1>4. NextAfter(every, t) = every * (p + 1)
    BY <1>1, SMT DEF NextAfter
  <1>5. every * p \in Nat /\ every * q \in Nat /\ every * (p + 1) \in Nat /\ p + 1 \in Nat
    BY <1>1, SMT
  <1> HIDE DEF p, q
  <1>6. p < q
    <2>1. every * p < every * q
      BY <1>2, <1>3, <1>5, SMT
    <2> QED
      BY <1>1, <2>1, FactorOrder
  <1>7. q < p + 1
    <2>1. every * q < every * (p + 1)
      BY <1>2, <1>4
    <2> QED
      BY <1>1, <1>5, <2>1, FactorOrder
  <1> QED
    BY <1>1, <1>6, <1>7, SMT

----------------------------------------------------------------------------
(***************************************************************************)
(* Types, and what every step keeps.                                       *)
(***************************************************************************)
\* The jobs of the messages in the topic.
Handed == {topic[i].job : i \in DOMAIN topic}

\* A log that goes on with at least one message m, and keeps what it had.
GoesOn(m) ==
    /\ topic' \in Seq(JobRequest)
    /\ Len(topic') \in Nat /\ Len(topic') > Len(topic)
    /\ \A i \in 1 .. Len(topic) : topic'[i] = topic[i]
    /\ topic'[Len(topic) + 1] = m

LEMMA OneMore ==
    ASSUME QueueTypeOK, NEW m \in JobRequest, topic' = Append(topic, m)
    PROVE  GoesOn(m)
  BY AppendProperties, LenProperties DEF QueueTypeOK, GoesOn

LEMMA TwoMore ==
    ASSUME QueueTypeOK, NEW m \in JobRequest, topic' = topic \o <<m, m>>
    PROVE  GoesOn(m)
  <1>1. topic \in Seq(JobRequest) /\ Len(topic) \in Nat
    BY LenProperties DEF QueueTypeOK
  <1>2. <<m, m>> \in Seq(JobRequest) /\ Len(<<m, m>>) = 2 /\ <<m, m>>[1] = m
    OBVIOUS
  <1>3. /\ topic' \in Seq(JobRequest)
        /\ Len(topic') = Len(topic) + 2
        /\ \A i \in 1 .. Len(topic) + 2 :
              topic'[i] = IF i <= Len(topic) THEN topic[i] ELSE <<m, m>>[i - Len(topic)]
    BY <1>1, <1>2, ConcatProperties
  <1>4. topic'[Len(topic) + 1] = m
    <2>1. /\ Len(topic) + 1 \in 1 .. Len(topic) + 2
          /\ ~(Len(topic) + 1 <= Len(topic)) /\ (Len(topic) + 1) - Len(topic) = 1
      BY <1>1
    <2> QED
      BY <1>2, <1>3, <2>1
  <1>5. \A i \in 1 .. Len(topic) : i \in 1 .. Len(topic) + 2 /\ i <= Len(topic)
    BY <1>1
  <1> QED
    BY <1>1, <1>3, <1>4, <1>5 DEF GoesOn

LEMMA EnqueueKeeps ==
    ASSUME QueueTypeOK, faults \in 0 .. MaxFaults, NEW m \in JobRequest,
           EnqueueOk(m) \/ EnqueueError(m)
    PROVE  /\ QueueTypeOK' /\ faults' \in 0 .. MaxFaults
           /\ Handed \subseteq Handed'
           /\ EnqueueOk(m) => m.job \in Handed'
  <1>1. faults' \in 0 .. MaxFaults
    BY StoreAssumption DEF EnqueueOk, EnqueueError, Fault
  <1>2. EnqueueOk(m) => GoesOn(m)
    BY OneMore, TwoMore DEF EnqueueOk
  <1>3. EnqueueError(m) => GoesOn(m) \/ topic' = topic
    BY OneMore DEF EnqueueError
  <1>4. ASSUME GoesOn(m)
        PROVE  QueueTypeOK' /\ Handed \subseteq Handed' /\ m.job \in Handed'
    <2>1. Len(topic) \in Nat /\ DOMAIN topic = 1 .. Len(topic)
      BY LenProperties DEF QueueTypeOK
    <2>2. DOMAIN topic' = 1 .. Len(topic')
      BY <1>4, LenProperties DEF GoesOn
    <2>3. DOMAIN topic \subseteq DOMAIN topic' /\ Len(topic) + 1 \in DOMAIN topic'
      BY <1>4, <2>1, <2>2 DEF GoesOn
    <2> QED
      BY <1>4, <2>1, <2>3 DEF GoesOn, QueueTypeOK, Handed
  <1>5. CASE topic' = topic
    BY <1>1, <1>2, <1>4, <1>5 DEF QueueTypeOK, Handed
  <1> QED
    BY <1>1, <1>2, <1>3, <1>4, <1>5

LEMMA FreshType == HasFresh => FreshJob \in Jobs
  BY DEF HasFresh, FreshJob

LEMMA RowType ==
    ASSUME NEW w \in Offered, NEW p \in Periods, NEW n \in Budgets, now \in Nat
    PROVE  [work |-> w, every |-> p, maxRetry |-> n, since |-> now,
            nextRun |-> NextAfter(p, now)] \in ScheduleRecord
  <1>1. w \in Work /\ n \in Nat /\ p \in Nat \ {0}
    BY ClientAssumption, RecurringAssumption
  <1>2. NextAfter(p, now) \in Nat
    BY <1>1, NextAfterType
  <1> QED
    BY <1>1, <1>2 DEF ScheduleRecord

LEMMA AdvancedType ==
    ASSUME schedules \in [Schedules -> ScheduleRecord \cup {NoSchedule}], NEW e \in Entry
    PROVE  LET moved == [schedules[e.id] EXCEPT !.nextRun = NextAfter(e.row.every, e.row.nextRun)]
           IN  /\ Advanced(e) \in [Schedules -> ScheduleRecord \cup {NoSchedule}]
               /\ \A s \in Schedules : s # e.id => Advanced(e)[s] = schedules[s]
               /\ schedules[e.id] = NoSchedule => Advanced(e)[e.id] = NoSchedule
               /\ schedules[e.id] # NoSchedule =>
                     moved \in ScheduleRecord /\ Advanced(e)[e.id] = moved
  <1>1. e.id \in Schedules /\ e.row \in ScheduleRecord
    BY DEF Entry
  <1>2. NextAfter(e.row.every, e.row.nextRun) \in Nat
    BY <1>1, NextAfterType, RecurringAssumption DEF ScheduleRecord
  <1>3. CASE schedules[e.id] = NoSchedule
    BY <1>1, <1>3 DEF Advanced
  <1>4. CASE schedules[e.id] # NoSchedule
    <2>1. schedules[e.id] \in ScheduleRecord
      BY <1>1, <1>4
    <2>2. [schedules[e.id] EXCEPT !.nextRun = NextAfter(e.row.every, e.row.nextRun)]
             \in ScheduleRecord
      BY <1>2, <2>1 DEF ScheduleRecord
    <2> QED
      BY <1>1, <1>4, <2>2 DEF Advanced
  <1> QED
    BY <1>3, <1>4

----------------------------------------------------------------------------
(***************************************************************************)
(* The invariant.  While a tick has a row in hand nobody but it moves that *)
(* row: it can only be deleted, for good.  What is moved on has been       *)
(* handed to the workers a step before.                                    *)
(***************************************************************************)
\* A row in hand is still the one in the table, or gone for good.
RowsKept ==
    \A e \in listed :
        /\ e.row.nextRun <= now
        /\ \/ schedules[e.id] = e.row
           \/ schedules[e.id] = NoSchedule /\ e.id \in dropped

OneRowEach == \A e, f \in listed : e.id = f.id => e = f

DroppedAreGone == \A s \in dropped : schedules[s] = NoSchedule

\* The job the tick works on is recorded, and in the topic once Enqueue returned.
WorkedOn ==
    /\ \A d, f \in doing : d = f
    /\ \A d \in doing :
          /\ \E m \in made :
                m.schedule = d.entry.id /\ m.run = d.entry.row.nextRun /\ m.job = d.job
          /\ d.pc = "advance" => d.job \in Handed

\* What was made after the deletion was made once, and is not to be made again.
LateOnes ==
    /\ \A m \in made : m.late => m.schedule \in dropped
    /\ \A m, k \in made : m.late /\ k.late /\ m.schedule = k.schedule => m = k
    /\ \A m \in made, e \in listed :
          m.late /\ e.id = m.schedule => \E d \in doing : d.entry = e

\* NoRunSkipped of one schedule, in terms of Handed.
Done(s, t) == \E m \in made : m.schedule = s /\ m.run = t /\ m.job \in Handed

AllDone ==
    \A s \in Schedules : schedules[s] # NoSchedule =>
        \A t \in 1 .. schedules[s].nextRun - 1 :
            IsRun(schedules[s], t) => Done(s, t)

RecurringInv ==
    /\ RecurringTypeOK
    /\ RowsKept /\ OneRowEach /\ DroppedAreGone
    /\ WorkedOn /\ LateOnes /\ AllDone /\ NoRunEarly

LEMMA RanIsDone ==
    ASSUME NEW s, NEW t
    PROVE  Ran(s, t) <=> Done(s, t)
  BY DEF Ran, Done, Handed

LEMMA RecurringInitInv == RecurringInit => RecurringInv
  <1> SUFFICES ASSUME RecurringInit
               PROVE  RecurringInv
    OBVIOUS
  <1>1. /\ jobs = [j \in Jobs |-> NoRow] /\ paused = {} /\ outbox = << >> /\ faults = 0
        /\ topic = << >> /\ now = 1 /\ schedules = [s \in Schedules |-> NoSchedule]
        /\ dropped = {} /\ listed = {} /\ doing = {} /\ made = {}
    BY DEF RecurringInit, StoreInit, QueueInit, ClockInit
  <1>2. StoreTypeOK /\ QueueTypeOK /\ ClockTypeOK
    <2>1. << >> \in Seq(OutboxRecord) /\ << >> \in Seq(JobRequest)
      OBVIOUS
    <2>2. 0 \in 0 .. MaxFaults /\ 1 \in 1 .. MaxTime
      BY StoreAssumption, ClockAssumption
    <2> QED
      BY <1>1, <2>1, <2>2 DEF StoreTypeOK, QueueTypeOK, ClockTypeOK
  <1>3. RecurringTypeOK
    BY <1>1, <1>2 DEF RecurringTypeOK
  <1>4. RowsKept /\ OneRowEach /\ DroppedAreGone /\ WorkedOn /\ LateOnes /\ NoRunEarly
    BY <1>1 DEF RowsKept, OneRowEach, DroppedAreGone, WorkedOn, LateOnes, NoRunEarly
  <1>5. AllDone
    BY <1>1 DEF AllDone
  <1> QED
    BY <1>3, <1>4, <1>5 DEF RecurringInv

\* What is done stays done.
LEMMA DoneStays ==
    ASSUME made \subseteq made', Handed \subseteq Handed', NEW s, NEW t, Done(s, t)
    PROVE  Done(s, t)'
  BY DEF Done

----------------------------------------------------------------------------
(***************************************************************************)
(* The API.                                                                *)
(***************************************************************************)
LEMMA CreateStep ==
    ASSUME RecurringInv, NEW s \in Schedules, NEW w \in Offered, NEW p \in Periods,
           NEW n \in Budgets, CreateSchedule(s, w, p, n)
    PROVE  RecurringInv'
  <1> DEFINE row == [work |-> w, every |-> p, maxRetry |-> n, since |-> now,
                     nextRun |-> NextAfter(p, now)]
  <1>0. /\ UNCHANGED <<jobs, paused, outbox, faults, topic, now, dropped, listed, doing, made>>
        /\ schedules \in [Schedules -> ScheduleRecord \cup {NoSchedule}]
        /\ now \in Nat
    BY DEF CreateSchedule, storeVars, RecurringInv, RecurringTypeOK, ClockTypeOK
  <1>1. row \in ScheduleRecord
    BY <1>0, RowType
  <1>2. schedules[s] = NoSchedule /\ s \notin dropped
    BY DEF CreateSchedule, NextId, Existing
  <1>3. schedules' = [schedules EXCEPT ![s] = row]
    BY DEF CreateSchedule, NewRow
  <1> HIDE DEF row
  <1>4. schedules' \in [Schedules -> ScheduleRecord \cup {NoSchedule}]
        /\ schedules'[s] = row /\ \A r \in Schedules : r # s => schedules'[r] = schedules[r]
    BY <1>0, <1>1, <1>3
  <1>5. RecurringTypeOK'
    BY <1>0, <1>4 DEF RecurringInv, RecurringTypeOK, StoreTypeOK, QueueTypeOK, ClockTypeOK
  <1>6. RowsKept'
    <2>1. \A e \in listed : e.id # s /\ e.id \in Schedules
      BY <1>1, <1>2, RecurringAssumption DEF RecurringInv, RowsKept, RecurringTypeOK, Entry
    <2> QED
      BY <1>0, <1>4, <2>1 DEF RecurringInv, RowsKept
  <1>7. OneRowEach' /\ WorkedOn' /\ LateOnes' /\ NoRunEarly'
    BY <1>0 DEF RecurringInv, OneRowEach, WorkedOn, LateOnes, NoRunEarly, Handed
  <1>8. DroppedAreGone'
    BY <1>0, <1>2, <1>4 DEF RecurringInv, DroppedAreGone, RecurringTypeOK
  <1>9. AllDone'
    <2> SUFFICES ASSUME NEW r \in Schedules, schedules'[r] # NoSchedule,
                        NEW t \in 1 .. schedules'[r].nextRun - 1, IsRun(schedules'[r], t)
                 PROVE  Done(r, t)'
      BY DEF AllDone, IsRun
    <2>1. CASE r # s
      BY <1>0, <1>4, <2>1 DEF RecurringInv, AllDone, IsRun, Done, Handed
    <2>2. CASE r = s
      <3>1. /\ schedules'[r].every = p /\ schedules'[r].since = now
            /\ schedules'[r].nextRun = NextAfter(p, now) /\ p \in Nat \ {0}
        BY <1>4, <2>2, RecurringAssumption DEF row
      <3>2. NextAfter(p, now) \in Nat
        BY <1>0, <3>1, NextAfterType
      <3>3. t \in Nat /\ t % p = 0 /\ now < t /\ t < NextAfter(p, now)
        BY <3>1, <3>2, SMT DEF IsRun
      <3> QED
        BY <1>0, <3>1, <3>3, NoRunBetween
    <2> QED
      BY <2>1, <2>2
  <1> QED
    BY <1>5, <1>6, <1>7, <1>8, <1>9 DEF RecurringInv

LEMMA DeleteStep ==
    ASSUME RecurringInv, NEW s \in Schedules, DeleteSchedule(s)
    PROVE  RecurringInv'
  <1>0. /\ UNCHANGED <<jobs, paused, outbox, faults, topic, now, listed, doing, made>>
        /\ schedules \in [Schedules -> ScheduleRecord \cup {NoSchedule}]
        /\ dropped \subseteq Schedules
    BY DEF DeleteSchedule, storeVars, RecurringInv, RecurringTypeOK
  <1>1. /\ schedules' \in [Schedules -> ScheduleRecord \cup {NoSchedule}]
        /\ schedules'[s] = NoSchedule
        /\ \A r \in Schedules : r # s => schedules'[r] = schedules[r]
        /\ dropped' = dropped \cup {s}
    BY <1>0 DEF DeleteSchedule
  <1>2. RecurringTypeOK'
    BY <1>0, <1>1 DEF RecurringInv, RecurringTypeOK, StoreTypeOK, QueueTypeOK, ClockTypeOK
  <1>3. \A e \in listed : e.id \in Schedules
    BY DEF RecurringInv, RecurringTypeOK, Entry
  <1>4. RowsKept' /\ DroppedAreGone'
    BY <1>0, <1>1, <1>3 DEF RecurringInv, RowsKept, DroppedAreGone
  <1>5. OneRowEach' /\ WorkedOn' /\ LateOnes' /\ NoRunEarly'
    BY <1>0, <1>1 DEF RecurringInv, OneRowEach, WorkedOn, LateOnes, NoRunEarly, Handed
  <1>6. AllDone'
    BY <1>0, <1>1 DEF RecurringInv, AllDone, IsRun, Done, Handed
  <1> QED
    BY <1>2, <1>4, <1>5, <1>6 DEF RecurringInv

----------------------------------------------------------------------------
(***************************************************************************)
(* The tick.                                                               *)
(***************************************************************************)
LEMMA ListStep ==
    ASSUME RecurringInv, ListSchedulesDue
    PROVE  RecurringInv'
  <1>0. /\ UNCHANGED <<jobs, paused, outbox, faults, topic, now, schedules, dropped, doing, made>>
        /\ schedules \in [Schedules -> ScheduleRecord \cup {NoSchedule}]
        /\ listed = {} /\ doing = {}
    BY DEF ListSchedulesDue, storeVars, RecurringInv, RecurringTypeOK
  <1>1. PICK S \in SUBSET DueSchedules :
            listed' = {[id |-> s, row |-> schedules[s]] : s \in S}
    BY DEF ListSchedulesDue
  <1>2. \A s \in S : /\ s \in Schedules /\ schedules[s] \in ScheduleRecord
                     /\ schedules[s] # NoSchedule /\ schedules[s].nextRun <= now
    BY <1>0, <1>1 DEF DueSchedules, Existing
  <1>3. \A e \in listed' : /\ e \in Entry /\ e.id \in S /\ e.row = schedules[e.id]
                           /\ e = [id |-> e.id, row |-> schedules[e.id]]
    BY <1>1, <1>2 DEF Entry
  <1>4. RecurringTypeOK'
    BY <1>0, <1>3 DEF RecurringInv, RecurringTypeOK, StoreTypeOK, QueueTypeOK, ClockTypeOK
  <1>5. RowsKept' /\ OneRowEach'
    BY <1>0, <1>2, <1>3 DEF RowsKept, OneRowEach
  <1>6. LateOnes'
    <2>1. \A e \in listed' : e.id \notin dropped
      BY <1>2, <1>3 DEF RecurringInv, DroppedAreGone
    <2> QED
      BY <1>0, <2>1 DEF RecurringInv, LateOnes
  <1>7. DroppedAreGone' /\ WorkedOn' /\ NoRunEarly' /\ AllDone'
    BY <1>0 DEF RecurringInv, DroppedAreGone, WorkedOn, NoRunEarly, AllDone, IsRun, Done, Handed
  <1> QED
    BY <1>4, <1>5, <1>6, <1>7 DEF RecurringInv

LEMMA CreateJobStep ==
    ASSUME RecurringInv, NEW e \in listed, CreateJob(e)
    PROVE  RecurringInv'
  <1> DEFINE j == FreshJob
             run == [schedule |-> e.id, run |-> e.row.nextRun, job |-> j,
                     late |-> e.id \in dropped]
             d == [entry |-> e, job |-> j, pc |-> "enqueue"]
  <1>0. /\ UNCHANGED <<paused, outbox, topic, now, schedules, dropped>>
        /\ doing = {} /\ j \in Jobs
        /\ e \in Entry /\ e.id \in Schedules /\ e.row \in ScheduleRecord
        /\ e.row.nextRun \in Nat /\ e.row.nextRun <= now
    BY FreshType DEF CreateJob, RecurringInv, RecurringTypeOK, RowsKept, Entry, ScheduleRecord
  <1>1. /\ run \in [schedule : Schedules, run : Nat, job : Jobs, late : BOOLEAN]
        /\ run.schedule = e.id /\ run.run = e.row.nextRun /\ run.job = j
        /\ run.late <=> e.id \in dropped
    <2>1. (e.id \in dropped) \in BOOLEAN
      OBVIOUS
    <2>2. run \in [schedule : Schedules, run : Nat, job : Jobs, late : BOOLEAN]
      BY <1>0, <2>1, Zenon
    <2>3. run.schedule = e.id /\ run.run = e.row.nextRun /\ run.job = j
      OBVIOUS
    <2>4. run.late <=> e.id \in dropped
      BY Zenon
    <2> QED
      BY <2>2, <2>3, <2>4
  <1>2. made' \in {made, made \cup {run}}
    BY DEF CreateJob
  <1>3. \/ /\ UNCHANGED <<faults, listed>> /\ doing' = {d} /\ made' = made \cup {run}
        \/ Fault("store") /\ listed' = listed \ {e} /\ doing' = {}
    BY <1>0 DEF CreateJob
  <1>4. jobs' \in [Jobs -> JobRecord \cup {NoRow}]
    <2>1. e.row.work \in Work
      BY <1>0 DEF ScheduleRecord
    <2>2. [work |-> e.row.work, status |-> "pending", attempt |-> 0, runAt |-> 0, key |-> NoKey]
             \in JobRecord
      BY <2>1 DEF JobRecord, Statuses
    <2>3. Inserted(j, e.row.work, "pending", 0, NoKey) \in [Jobs -> JobRecord \cup {NoRow}]
      BY <1>0, <2>2 DEF Inserted, RecurringInv, RecurringTypeOK, StoreTypeOK
    <2>4. jobs' \in {jobs, Inserted(j, e.row.work, "pending", 0, NoKey)}
      BY DEF CreateJob
    <2> QED
      BY <2>3, <2>4 DEF RecurringInv, RecurringTypeOK, StoreTypeOK
  <1>5. faults' \in 0 .. MaxFaults
    BY <1>3, StoreAssumption DEF RecurringInv, RecurringTypeOK, StoreTypeOK, Fault
  <1>6. d.entry = e /\ d.job = j /\ d.pc = "enqueue"
    OBVIOUS
  <1> HIDE DEF j, run
  <1>7. listed' \subseteq listed /\ made \subseteq made'
    BY <1>2, <1>3
  <1>8. RecurringTypeOK'
    <2>1. doing' \subseteq [entry : listed', job : Jobs, pc : {"enqueue", "advance"}]
      BY <1>0, <1>3
    <2>2. made' \subseteq [schedule : Schedules, run : Nat, job : Jobs, late : BOOLEAN]
      BY <1>1, <1>2 DEF RecurringInv, RecurringTypeOK
    <2> QED
      BY <1>0, <1>4, <1>5, <1>7, <2>1, <2>2
         DEF RecurringInv, RecurringTypeOK, StoreTypeOK, QueueTypeOK, ClockTypeOK
  <1>9. RowsKept' /\ OneRowEach' /\ DroppedAreGone'
    BY <1>0, <1>7 DEF RecurringInv, RowsKept, OneRowEach, DroppedAreGone
  <1> HIDE DEF d
  <1>10. WorkedOn'
    <2>1. \A f \in doing' : f = d /\ run \in made'
      BY <1>3
    <2> QED
      BY <1>1, <1>6, <2>1 DEF WorkedOn
  <1>11. LateOnes'
    <2>1. \A m \in made : m.late => m.schedule # e.id
      BY <1>0 DEF RecurringInv, LateOnes
    <2>2. \A m \in made', k \in made' :
              m.late /\ k.late /\ m.schedule = k.schedule => m = k
      BY <1>1, <1>2, <2>1 DEF RecurringInv, LateOnes
    <2>3. \A m \in made' : m.late => m.schedule \in dropped'
      BY <1>0, <1>1, <1>2 DEF RecurringInv, LateOnes
    <2>4. ASSUME NEW m \in made', NEW f \in listed', m.late, f.id = m.schedule
          PROVE  \E c \in doing' : c.entry = f
      <3>1. f \in listed
        BY <1>7, <2>4
      <3>2. m \notin made
        BY <1>0, <2>4, <3>1 DEF RecurringInv, LateOnes
      <3>3. m = run
        BY <1>2, <3>2
      <3>4. f = e
        BY <1>1, <2>4, <3>1, <3>3 DEF RecurringInv, OneRowEach
      <3>5. e \in listed'
        BY <3>4
      <3>6. doing' = {d}
        BY <1>3, <3>5
      <3> QED
        BY <1>6, <3>4, <3>6
    <2> QED
      BY <2>2, <2>3, <2>4 DEF LateOnes
  <1>12. NoRunEarly'
    BY <1>0, <1>1, <1>2 DEF RecurringInv, NoRunEarly
  <1>13. AllDone'
    BY <1>0, <1>7 DEF RecurringInv, AllDone, IsRun, Done, Handed
  <1> QED
    BY <1>8, <1>9, <1>10, <1>11, <1>12, <1>13 DEF RecurringInv

LEMMA EnqueueStep ==
    ASSUME RecurringInv, NEW d \in doing, EnqueueJob(d)
    PROVE  RecurringInv'
  <1> DEFINE next == [d EXCEPT !.pc = "advance"]  m == JobMessage(d)
  <1>0. /\ UNCHANGED <<jobs, paused, outbox, now, schedules, dropped, made>>
        /\ d \in [entry : listed, job : Jobs, pc : {"enqueue", "advance"}]
        /\ d.entry \in listed /\ d.entry \in Entry /\ d.job \in Jobs
        /\ \A f \in doing : f = d
    BY DEF EnqueueJob, storeVars, RecurringInv, RecurringTypeOK, WorkedOn
  <1>1. m \in JobRequest /\ m.job = d.job
    BY <1>0 DEF JobMessage, Request, JobRequest, Entry, ScheduleRecord
  <1>2. /\ EnqueueOk(m) \/ EnqueueError(m)
        /\ \/ EnqueueOk(m) /\ doing' = {next} /\ listed' = listed
           \/ doing' = {} /\ listed' = listed \ {d.entry}
    BY DEF EnqueueJob
  <1>3. next \in [entry : listed, job : Jobs, pc : {"enqueue", "advance"}]
        /\ next.entry = d.entry /\ next.job = d.job
    BY <1>0
  <1> HIDE DEF next, m
  <1>4. /\ QueueTypeOK' /\ faults' \in 0 .. MaxFaults
        /\ Handed \subseteq Handed' /\ (EnqueueOk(m) => d.job \in Handed')
    BY <1>1, <1>2, EnqueueKeeps DEF RecurringInv, RecurringTypeOK, StoreTypeOK
  <1>5. listed' \subseteq listed
    BY <1>2
  <1>6. RecurringTypeOK'
    <2>1. doing' \subseteq [entry : listed', job : Jobs, pc : {"enqueue", "advance"}]
      BY <1>2, <1>3
    <2> QED
      BY <1>0, <1>4, <1>5, <2>1 DEF RecurringInv, RecurringTypeOK, StoreTypeOK, ClockTypeOK
  <1>7. RowsKept' /\ OneRowEach' /\ DroppedAreGone' /\ NoRunEarly'
    BY <1>0, <1>5 DEF RecurringInv, RowsKept, OneRowEach, DroppedAreGone, NoRunEarly
  <1>8. WorkedOn'
    <2>1. CASE EnqueueOk(m) /\ doing' = {next} /\ listed' = listed
      <3>1. \E k \in made : /\ k.schedule = d.entry.id /\ k.run = d.entry.row.nextRun
                            /\ k.job = d.job
        BY DEF RecurringInv, WorkedOn
      <3> QED
        BY <1>0, <1>3, <1>4, <2>1, <3>1 DEF WorkedOn
    <2>2. CASE doing' = {}
      BY <2>2 DEF WorkedOn
    <2> QED
      BY <1>2, <2>1, <2>2
  <1>9. LateOnes'
    <2>1. ASSUME NEW k \in made, NEW e \in listed', k.late, e.id = k.schedule
          PROVE  \E f \in doing' : f.entry = e
      <3>1. e = d.entry
        BY <1>0, <1>5, <2>1 DEF RecurringInv, LateOnes
      <3>2. doing' = {next}
        BY <1>2, <2>1, <3>1
      <3> QED
        BY <1>3, <3>1, <3>2
    <2> QED
      BY <1>0, <2>1 DEF RecurringInv, LateOnes
  <1>10. AllDone'
    BY <1>0, <1>4 DEF RecurringInv, AllDone, IsRun, Done
  <1> QED
    BY <1>6, <1>7, <1>8, <1>9, <1>10 DEF RecurringInv

LEMMA AdvanceStep ==
    ASSUME RecurringInv, NEW d \in doing, Advance(d)
    PROVE  RecurringInv'
  <1> DEFINE e == d.entry
             moved == [schedules[e.id] EXCEPT !.nextRun = NextAfter(e.row.every, e.row.nextRun)]
  <1>0. /\ UNCHANGED <<jobs, paused, outbox, topic, now, dropped, made>>
        /\ e \in listed /\ e \in Entry /\ e.id \in Schedules /\ e.row \in ScheduleRecord
        /\ doing' = {} /\ listed' = listed \ {e}
        /\ \A f \in doing : f = d
        /\ schedules \in [Schedules -> ScheduleRecord \cup {NoSchedule}]
    BY DEF Advance, storeVars, RecurringInv, RecurringTypeOK, WorkedOn, Entry
  <1>1. schedules' = schedules \/ schedules' = Advanced(e)
    BY DEF Advance
  <1>2. faults' \in 0 .. MaxFaults
    BY StoreAssumption DEF Advance, Fault, RecurringInv, RecurringTypeOK, StoreTypeOK
  <1>3. \/ schedules[e.id] = e.row
        \/ schedules[e.id] = NoSchedule /\ e.id \in dropped
    BY <1>0 DEF RecurringInv, RowsKept
  <1>4. Done(e.id, e.row.nextRun)
    BY DEF Advance, RecurringInv, WorkedOn, Done
  <1>5. /\ schedules' \in [Schedules -> ScheduleRecord \cup {NoSchedule}]
        /\ \A s \in Schedules : s # e.id => schedules'[s] = schedules[s]
        /\ schedules[e.id] = NoSchedule => schedules'[e.id] = NoSchedule
        /\ schedules[e.id] # NoSchedule =>
              moved \in ScheduleRecord /\ schedules'[e.id] \in {schedules[e.id], moved}
    BY <1>0, <1>1, AdvancedType
  <1>6. RecurringTypeOK'
    BY <1>0, <1>2, <1>5
       DEF RecurringInv, RecurringTypeOK, StoreTypeOK, QueueTypeOK, ClockTypeOK
  <1>7. RowsKept'
    <2>1. \A f \in listed' : f \in listed /\ f.id # e.id /\ f.id \in Schedules
      BY <1>0 DEF RecurringInv, OneRowEach, RecurringTypeOK, Entry
    <2> QED
      BY <1>0, <1>5, <2>1 DEF RecurringInv, RowsKept
  <1>8. OneRowEach' /\ WorkedOn' /\ NoRunEarly'
    BY <1>0 DEF RecurringInv, OneRowEach, WorkedOn, NoRunEarly
  <1>9. DroppedAreGone'
    BY <1>0, <1>5 DEF RecurringInv, DroppedAreGone, RecurringTypeOK
  <1>10. LateOnes'
    <2>1. ASSUME NEW k \in made, NEW f \in listed', k.late, f.id = k.schedule
          PROVE  FALSE
      BY <1>0, <2>1 DEF RecurringInv, LateOnes
    <2> QED
      BY <1>0, <2>1 DEF RecurringInv, LateOnes
  <1>11. AllDone'
    <2> SUFFICES ASSUME NEW s \in Schedules, schedules'[s] # NoSchedule,
                        NEW t \in 1 .. schedules'[s].nextRun - 1, IsRun(schedules'[s], t)
                 PROVE  Done(s, t)
      BY <1>0 DEF AllDone, IsRun, Done, Handed
    <2>1. CASE schedules'[s] = schedules[s]
      BY <2>1 DEF RecurringInv, AllDone, IsRun
    <2>2. CASE schedules'[s] # schedules[s]
      <3>1. s = e.id
        BY <1>5, <2>2
      <3>2. schedules[s] = e.row /\ schedules[s] # NoSchedule
        BY <1>3, <1>5, <2>2, <3>1
      <3>3. schedules'[s] = [e.row EXCEPT !.nextRun = NextAfter(e.row.every, e.row.nextRun)]
        BY <1>5, <2>2, <3>1, <3>2
      <3>4. /\ e.row.every \in Nat \ {0} /\ e.row.nextRun \in Nat /\ e.row.since \in Nat
            /\ schedules'[s].every = e.row.every /\ schedules'[s].since = e.row.since
            /\ schedules'[s].nextRun = NextAfter(e.row.every, e.row.nextRun)
        BY <1>0, <3>3, RecurringAssumption DEF ScheduleRecord
      <3>5. NextAfter(e.row.every, e.row.nextRun) \in Nat
        BY <3>4, NextAfterType
      <3>6. t \in Nat /\ 1 <= t /\ t < NextAfter(e.row.every, e.row.nextRun)
            /\ t % e.row.every = 0 /\ e.row.since < t
        BY <3>4, <3>5, SMT DEF IsRun
      <3>7. CASE t < e.row.nextRun
        <4>1. t \in 1 .. e.row.nextRun - 1 /\ IsRun(e.row, t)
          BY <3>4, <3>6, <3>7, SMT DEF IsRun
        <4> QED
          BY <3>2, <4>1 DEF RecurringInv, AllDone
      <3>8. CASE t = e.row.nextRun
        BY <1>4, <3>1, <3>8
      <3>9. CASE e.row.nextRun < t
        BY <3>4, <3>6, <3>9, NoRunBetween
      <3> QED
        BY <3>4, <3>6, <3>7, <3>8, <3>9, SMT
    <2> QED
      BY <2>1, <2>2
  <1> QED
    BY <1>6, <1>7, <1>8, <1>9, <1>10, <1>11 DEF RecurringInv

----------------------------------------------------------------------------
\* The scheduler dies: no row is in hand any more.
LEMMA CrashStep ==
    ASSUME RecurringInv, SchedulerCrash
    PROVE  RecurringInv'
  <1>0. /\ UNCHANGED <<jobs, paused, outbox, topic, now, schedules, dropped, made>>
        /\ listed' = {} /\ doing' = {}
    BY DEF SchedulerCrash, storeVars
  <1>1. faults' \in 0 .. MaxFaults
    BY StoreAssumption DEF SchedulerCrash, Fault, RecurringInv, RecurringTypeOK, StoreTypeOK
  <1>2. RecurringTypeOK'
    BY <1>0, <1>1 DEF RecurringInv, RecurringTypeOK, StoreTypeOK, QueueTypeOK, ClockTypeOK
  <1>3. RowsKept' /\ OneRowEach' /\ DroppedAreGone' /\ WorkedOn' /\ NoRunEarly'
    BY <1>0 DEF RecurringInv, RowsKept, OneRowEach, DroppedAreGone, WorkedOn, NoRunEarly
  <1>4. LateOnes' /\ AllDone'
    BY <1>0 DEF RecurringInv, LateOnes, AllDone, IsRun, Done, Handed
  <1> QED
    BY <1>2, <1>3, <1>4 DEF RecurringInv

LEMMA TimePasses ==
    ASSUME RecurringInv, Tick, UNCHANGED <<storeVars, faults, topic, recurringVars>>
    PROVE  RecurringInv'
  <1>0. UNCHANGED <<jobs, paused, outbox, faults, topic, schedules, dropped, listed, doing, made>>
    BY DEF storeVars, recurringVars
  <1>1. now \in Nat /\ now' = now + 1 /\ now' \in 1 .. MaxTime
    BY ClockAssumption DEF Tick, RecurringInv, RecurringTypeOK, ClockTypeOK
  <1>2. RecurringTypeOK'
    BY <1>0, <1>1 DEF RecurringInv, RecurringTypeOK, StoreTypeOK, QueueTypeOK, ClockTypeOK
  <1>3. RowsKept'
    <2>1. \A e \in listed : e.row.nextRun \in Nat
      BY DEF RecurringInv, RecurringTypeOK, Entry, ScheduleRecord
    <2>2. \A e \in listed : e.row.nextRun <= now'
      BY <1>1, <2>1, SMT DEF RecurringInv, RowsKept
    <2> QED
      BY <1>0, <2>2 DEF RecurringInv, RowsKept
  <1>4. NoRunEarly'
    <2>1. \A m \in made : m.run \in Nat
      BY DEF RecurringInv, RecurringTypeOK
    <2>2. \A m \in made : m.run <= now'
      BY <1>1, <2>1, SMT DEF RecurringInv, NoRunEarly
    <2> QED
      BY <1>0, <2>2 DEF NoRunEarly
  <1>5. OneRowEach' /\ DroppedAreGone' /\ WorkedOn' /\ LateOnes' /\ AllDone'
    BY <1>0 DEF RecurringInv, OneRowEach, DroppedAreGone, WorkedOn, LateOnes, AllDone,
                IsRun, Done, Handed
  <1> QED
    BY <1>2, <1>3, <1>4, <1>5 DEF RecurringInv

LEMMA RecurringStep == RecurringInv /\ [RecurringNext]_recVars => RecurringInv'
  <1> SUFFICES ASSUME RecurringInv, [RecurringNext]_recVars
               PROVE  RecurringInv'
    OBVIOUS
  <1>1. CASE UNCHANGED recVars
    <2>1. UNCHANGED <<jobs, paused, outbox, faults, topic, now, schedules, dropped, listed,
                      doing, made>>
      BY <1>1 DEF recVars, storeVars, recurringVars
    <2>2. RecurringTypeOK'
      BY <2>1 DEF RecurringInv, RecurringTypeOK, StoreTypeOK, QueueTypeOK, ClockTypeOK
    <2>3. RowsKept' /\ OneRowEach' /\ DroppedAreGone' /\ WorkedOn' /\ LateOnes' /\ NoRunEarly'
      BY <2>1 DEF RecurringInv, RowsKept, OneRowEach, DroppedAreGone, WorkedOn, LateOnes,
                  NoRunEarly, Handed
    <2>4. AllDone'
      BY <2>1 DEF RecurringInv, AllDone, IsRun, Done, Handed
    <2> QED
      BY <2>2, <2>3, <2>4 DEF RecurringInv
  <1>2. CASE TickStep
    BY <1>2, ListStep, CreateJobStep, EnqueueStep, AdvanceStep DEF TickStep
  <1> QED
    BY <1>1, <1>2, CreateStep, DeleteStep, CrashStep, TimePasses DEF RecurringNext

LEMMA RecurringAlways == RecurringSpec => []RecurringInv
  BY RecurringInitInv, RecurringStep, PTL DEF RecurringSpec

----------------------------------------------------------------------------
\* next_run_at never moves past a run that was not handed to the workers,
\* whichever of the tick's calls fails and whenever the scheduler dies.
THEOREM NoRunIsSkipped == RecurringSpec => []NoRunSkipped
  <1>1. RecurringInv => NoRunSkipped
    <2> SUFFICES ASSUME RecurringInv, NEW s \in Existing,
                        NEW t \in 1 .. schedules[s].nextRun - 1, IsRun(schedules[s], t)
                 PROVE  Ran(s, t)
      BY DEF NoRunSkipped
    <2>1. s \in Schedules /\ schedules[s] # NoSchedule
      BY DEF Existing
    <2> QED
      BY <2>1, RanIsDone DEF RecurringInv, AllDone
  <1> QED
    BY <1>1, RecurringAlways, PTL

\* Every variable keeps its type; in particular the tick only works on a row it
\* has listed.
THEOREM RecurringTypes == RecurringSpec => []RecurringTypeOK
  <1>1. RecurringInv => RecurringTypeOK
    BY DEF RecurringInv
  <1> QED
    BY <1>1, RecurringAlways, PTL

\* No job is made for a run that is still to come.
THEOREM NoRunIsEarly == RecurringSpec => []NoRunEarly
  <1>1. RecurringInv => NoRunEarly
    BY DEF RecurringInv
  <1> QED
    BY <1>1, RecurringAlways, PTL

\* A deleted schedule gets at most the job of the tick that had it in hand.
THEOREM OneJobIsLate == RecurringSpec => []OneJobAfterDelete
  <1>1. RecurringInv => OneJobAfterDelete
    <2> SUFFICES ASSUME RecurringInv, NEW s \in dropped
                 PROVE  Cardinality({m \in made : m.schedule = s /\ m.late}) <= 1
      BY DEF OneJobAfterDelete
    <2> DEFINE late == {m \in made : m.schedule = s /\ m.late}
    <2>1. CASE late = {}
      BY <2>1, FS_EmptySet
    <2>2. CASE late # {}
      <3>1. PICK m \in late : TRUE
        BY <2>2
      <3>2. late = {m}
        BY <3>1 DEF RecurringInv, LateOnes
      <3>3. Cardinality({m}) = 1
        BY FS_Singleton
      <3> QED
        BY <3>2, <3>3
    <2> QED
      BY <2>1, <2>2
  <1> QED
    BY <1>1, RecurringAlways, PTL

----------------------------------------------------------------------------
(***************************************************************************)
(* What a failure costs: a run whose job is made is settled when its row   *)
(* is moved on or deleted; until then only the job in hand counts for it,  *)
(* and the tick that makes another one has lost that one to a failure.     *)
(***************************************************************************)
\* A row can still be made for run t of schedule s without another failure.
ToCome(s, t) ==
    \/ s \notin Existing \cup dropped
    \/ /\ s \in Existing /\ schedules[s].nextRun <= t
       /\ ~\E d \in doing : d.entry.id = s /\ d.entry.row.nextRun = t
    \/ /\ s \in dropped
       /\ \E e \in listed : /\ e.id = s /\ e.row.nextRun = t
                            /\ ~\E d \in doing : d.entry = e

Settled(s, t) == IF ToCome(s, t) THEN 0 ELSE 1

MadeOf(s, t) == {m \in made : m.schedule = s /\ m.run = t}

RunPriced(s, t) ==
    IsFiniteSet(MadeOf(s, t)) /\ Cardinality(MadeOf(s, t)) <= faults + Settled(s, t)

RunsPriced == \A s \in Schedules, t \in Nat : RunPriced(s, t)

LEMMA Grown ==
    ASSUME NEW S, IsFiniteSet(S), NEW x, NEW T, T \subseteq S \cup {x}
    PROVE  IsFiniteSet(T) /\ Cardinality(S) \in Nat /\ Cardinality(T) \in Nat
           /\ Cardinality(T) <= Cardinality(S) + 1
           /\ (T \subseteq S => Cardinality(T) <= Cardinality(S))
  <1>1. /\ IsFiniteSet(S \cup {x}) /\ Cardinality(S) \in Nat
        /\ Cardinality(S \cup {x}) <= Cardinality(S) + 1 /\ Cardinality(S \cup {x}) \in Nat
    BY FS_AddElement, FS_CardinalityType
  <1>2. /\ IsFiniteSet(T) /\ Cardinality(T) <= Cardinality(S \cup {x})
        /\ Cardinality(T) \in Nat
    BY <1>1, FS_Subset, FS_CardinalityType
  <1>3. T \subseteq S => Cardinality(T) <= Cardinality(S)
    BY FS_Subset
  <1> QED
    BY <1>1, <1>2, <1>3

LEMMA PaidFor ==
    ASSUME NEW S, NEW T, IsFiniteSet(S), NEW f \in Nat, NEW g \in Nat,
           NEW p \in {0, 1}, NEW q \in {0, 1}, Cardinality(S) <= f + p,
           \/ T \subseteq S /\ f + p <= g + q
           \/ (\E x : T \subseteq S \cup {x}) /\ f + p + 1 <= g + q
    PROVE  IsFiniteSet(T) /\ Cardinality(T) <= g + q
  <1>1. PICK x : T \subseteq S \cup {x}
    OBVIOUS
  <1>2. /\ IsFiniteSet(T) /\ Cardinality(S) \in Nat /\ Cardinality(T) \in Nat
        /\ Cardinality(T) <= Cardinality(S) + 1
        /\ (T \subseteq S => Cardinality(T) <= Cardinality(S))
    BY <1>1, Grown
  <1>3. CASE T \subseteq S /\ f + p <= g + q
    BY <1>2, <1>3
  <1>4. CASE f + p + 1 <= g + q
    BY <1>2, <1>4
  <1> QED
    BY <1>3, <1>4

LEMMA PricedAgain ==
    ASSUME NEW s, NEW t, RunPriced(s, t), faults \in Nat, faults' \in Nat,
           \/ /\ MadeOf(s, t)' \subseteq MadeOf(s, t)
              /\ faults + Settled(s, t) <= faults' + Settled(s, t)'
           \/ /\ \E x : MadeOf(s, t)' \subseteq MadeOf(s, t) \cup {x}
              /\ faults + Settled(s, t) + 1 <= faults' + Settled(s, t)'
    PROVE  RunPriced(s, t)'
  <1>1. PICK S, T, p, q : /\ S = MadeOf(s, t) /\ T = MadeOf(s, t)'
                          /\ p = Settled(s, t) /\ q = Settled(s, t)'
    OBVIOUS
  <1>2. p \in {0, 1} /\ q \in {0, 1}
    BY <1>1 DEF Settled
  <1>3. IsFiniteSet(S) /\ Cardinality(S) <= faults + p
    BY <1>1 DEF RunPriced
  <1>4. \/ T \subseteq S /\ faults + p <= faults' + q
        \/ (\E x : T \subseteq S \cup {x}) /\ faults + p + 1 <= faults' + q
    BY <1>1
  <1>5. IsFiniteSet(T) /\ Cardinality(T) <= faults' + q
    BY <1>2, <1>3, <1>4, PaidFor
  <1> QED
    BY <1>1, <1>5 DEF RunPriced

\* A step that makes no row fails, or makes no run one that is to come again.
LEMMA NothingMade ==
    ASSUME NEW s, NEW t, RunPriced(s, t), faults \in Nat, made' = made,
           \/ faults' = faults + 1
           \/ faults' = faults /\ (ToCome(s, t)' => ToCome(s, t))
    PROVE  RunPriced(s, t)'
  <1>1. MadeOf(s, t)' = MadeOf(s, t)
    BY DEF MadeOf
  <1>2. PICK p, q : p = Settled(s, t) /\ q = Settled(s, t)'
    OBVIOUS
  <1>3. p \in {0, 1} /\ q \in {0, 1}
    BY <1>2 DEF Settled
  <1>4. faults' = faults => p <= q
    <2>1. CASE ToCome(s, t)
      <3>1. p = 0
        BY <1>2, <2>1 DEF Settled
      <3> QED
        BY <1>3, <3>1
    <2>2. CASE ~ToCome(s, t)' /\ faults' = faults
      <3>1. q = 1
        BY <1>2, <2>2 DEF Settled
      <3> QED
        BY <1>3, <3>1
    <2> QED
      BY <2>1, <2>2
  <1> QED
    BY <1>1, <1>2, <1>3, <1>4, PricedAgain

\* Making the job of a run settles it, or fails.
LEMMA JobPriced ==
    ASSUME RecurringInv, NEW e \in listed, CreateJob(e), NEW s \in Schedules, NEW t \in Nat,
           RunPriced(s, t)
    PROVE  RunPriced(s, t)'
  <1> DEFINE j == FreshJob
             run == [schedule |-> e.id, run |-> e.row.nextRun, job |-> j,
                     late |-> e.id \in dropped]
             d == [entry |-> e, job |-> j, pc |-> "enqueue"]
  <1>0. /\ faults \in Nat /\ UNCHANGED <<schedules, dropped>> /\ doing = {}
        /\ e \in Entry /\ e.id \in Schedules
        /\ \/ schedules[e.id] = e.row
           \/ schedules[e.id] = NoSchedule /\ e.id \in dropped
        /\ e.row \in ScheduleRecord /\ e.row.nextRun \in Nat
    BY DEF CreateJob, RecurringInv, RecurringTypeOK, StoreTypeOK, RowsKept, Entry, ScheduleRecord
  <1>1. /\ made' \in {made, made \cup {run}}
        /\ \/ faults' = faults /\ listed' = listed /\ doing' = {d}
           \/ faults' = faults + 1
    BY DEF CreateJob, Fault
  <1>2. run.schedule = e.id /\ run.run = e.row.nextRun /\ d.entry = e
    OBVIOUS
  <1> HIDE DEF run, d, j
  <1>3. PICK p, q : p = Settled(s, t) /\ q = Settled(s, t)'
    OBVIOUS
  <1>4. p \in {0, 1} /\ q \in {0, 1}
    BY <1>3 DEF Settled
  <1>5. CASE s = e.id /\ t = e.row.nextRun
    <2>1. p = 0
      <3>1. ToCome(s, t)
        BY <1>0, <1>5 DEF ToCome, Existing
      <3> QED
        BY <1>3, <3>1 DEF Settled
    <2>2. faults' = faults => q = 1
      <3>1. ASSUME faults' = faults
            PROVE  ~ToCome(s, t)'
        <4>1. listed' = listed /\ doing' = {d}
          BY <1>0, <1>1, <3>1
        <4>2. s \in Existing' \cup dropped'
          BY <1>0, <1>5, RecurringAssumption DEF Existing
        <4>3. \A f \in listed' : f.id = s => f = e
          BY <1>5, <4>1 DEF RecurringInv, OneRowEach
        <4>4. \E c \in doing' : c.entry = e
          BY <1>2, <4>1
        <4>5. ~(/\ s \in Existing' /\ schedules'[s].nextRun <= t
                /\ ~\E c \in doing' : c.entry.id = s /\ c.entry.row.nextRun = t)
          BY <1>5, <4>4
        <4>6. ~\E f \in listed' : /\ f.id = s /\ f.row.nextRun = t
                                   /\ ~\E c \in doing' : c.entry = f
          BY <4>3, <4>4
        <4> QED
          BY <4>2, <4>5, <4>6 DEF ToCome
      <3> QED
        BY <1>3, <3>1 DEF Settled
    <2>3. MadeOf(s, t)' \subseteq MadeOf(s, t) \cup {run}
      BY <1>1 DEF MadeOf
    <2>4. faults' \in Nat /\ faults + p + 1 <= faults' + q
      BY <1>0, <1>1, <1>4, <2>1, <2>2
    <2>5. faults + Settled(s, t) + 1 <= faults' + Settled(s, t)'
      BY <1>3, <2>4
    <2>6. \E x : MadeOf(s, t)' \subseteq MadeOf(s, t) \cup {x}
      BY <2>3
    <2> QED
      BY <1>0, <2>4, <2>5, <2>6, PricedAgain
  <1>6. CASE ~(s = e.id /\ t = e.row.nextRun)
    <2>1. MadeOf(s, t)' \subseteq MadeOf(s, t)
      BY <1>1, <1>2, <1>6 DEF MadeOf
    <2>2. faults' = faults => (ToCome(s, t)' => ToCome(s, t))
      <3>1. ASSUME faults' = faults
            PROVE  listed' = listed /\ Existing' = Existing /\ dropped' = dropped
          BY <1>0, <1>1, <3>1 DEF Existing
      <3> QED
        BY <1>0, <3>1 DEF ToCome
    <2>3. faults' = faults => p <= q
      <3>1. CASE ToCome(s, t)
        <4>1. p = 0
          BY <1>3, <3>1 DEF Settled
        <4> QED
          BY <1>4, <4>1
      <3>2. CASE ~ToCome(s, t)' /\ faults' = faults
        <4>1. q = 1
          BY <1>3, <3>2 DEF Settled
        <4> QED
          BY <1>4, <4>1
      <3> QED
        BY <2>2, <3>1, <3>2
    <2> QED
      BY <1>0, <1>1, <1>3, <1>4, <2>1, <2>3, PricedAgain
  <1> QED
    BY <1>5, <1>6

\* Moving a row on leaves no run of it to come that was not to come before.
LEMMA AdvancePriced ==
    ASSUME RecurringInv, NEW d \in doing, Advance(d), NEW s \in Schedules, NEW t \in Nat,
           RunPriced(s, t)
    PROVE  RunPriced(s, t)'
  <1> DEFINE e == d.entry
             moved == [schedules[e.id] EXCEPT !.nextRun = NextAfter(e.row.every, e.row.nextRun)]
  <1>0. /\ faults \in Nat /\ UNCHANGED <<dropped, made>>
        /\ e \in listed /\ e \in Entry /\ e.id \in Schedules /\ e.row \in ScheduleRecord
        /\ doing' = {} /\ listed' = listed \ {e}
        /\ \A f \in doing : f = d
        /\ schedules \in [Schedules -> ScheduleRecord \cup {NoSchedule}]
    BY DEF Advance, RecurringInv, RecurringTypeOK, StoreTypeOK, WorkedOn, Entry
  <1>1. \/ schedules' = Advanced(e) /\ faults' = faults
        \/ faults' = faults + 1
    BY DEF Advance, Fault
  <1>2. CASE faults' = faults + 1
    BY <1>0, <1>2, NothingMade
  <1>3. CASE schedules' = Advanced(e) /\ faults' = faults
    <2>1. \/ schedules[e.id] = e.row /\ schedules[e.id] # NoSchedule
          \/ schedules[e.id] = NoSchedule /\ e.id \in dropped
      BY <1>0, RecurringAssumption DEF RecurringInv, RowsKept
    <2>2. /\ \A r \in Schedules : r # e.id => schedules'[r] = schedules[r]
          /\ schedules[e.id] = NoSchedule => schedules'[e.id] = NoSchedule
          /\ schedules[e.id] # NoSchedule =>
                moved \in ScheduleRecord /\ schedules'[e.id] = moved
      BY <1>0, <1>3, AdvancedType
    <2>3. /\ e.row.nextRun \in Nat /\ NextAfter(e.row.every, e.row.nextRun) \in Nat
          /\ NextAfter(e.row.every, e.row.nextRun) > e.row.nextRun
      BY <1>0, NextAfterType, RecurringAssumption DEF ScheduleRecord
    <2>4. \A f \in listed : f.id = e.id => f = e
      BY <1>0 DEF RecurringInv, OneRowEach
    <2>5. \A r \in dropped : schedules[r] = NoSchedule
      BY DEF RecurringInv, DroppedAreGone
    <2>6. ASSUME ToCome(s, t)'
          PROVE  ToCome(s, t)
      <3>1. CASE s # e.id
        <4>1. schedules'[s] = schedules[s]
          BY <2>2, <3>1
        <4>2. \A f \in doing : f.entry.id # s
          BY <1>0, <3>1
        <4>3. \A f \in listed : f.id = s => f \in listed' /\ ~\E g \in doing : g.entry = f
          BY <1>0, <3>1
        <4> QED
          BY <1>0, <2>6, <4>1, <4>2, <4>3 DEF ToCome, Existing
      <3>2. CASE s = e.id /\ schedules[e.id] = e.row /\ schedules[e.id] # NoSchedule
        <4>1. /\ schedules'[s] = moved /\ moved \in ScheduleRecord
              /\ schedules'[s].nextRun = NextAfter(e.row.every, e.row.nextRun)
          BY <1>0, <2>2, <3>2 DEF ScheduleRecord
        <4>2. s \in Existing /\ s \in Existing' /\ s \notin dropped
          BY <2>5, <3>2, <4>1, RecurringAssumption DEF Existing
        <4>3. NextAfter(e.row.every, e.row.nextRun) <= t
          BY <1>0, <2>6, <4>1, <4>2 DEF ToCome
        <4>4. schedules[s].nextRun <= t /\ e.row.nextRun # t
          BY <2>3, <3>2, <4>3
        <4> QED
          BY <1>0, <4>2, <4>4 DEF ToCome
      <3>3. CASE s = e.id /\ schedules[e.id] = NoSchedule /\ e.id \in dropped
        <4>1. s \notin Existing' /\ \A f \in listed' : f.id # s
          BY <1>0, <2>2, <2>4, <3>3 DEF Existing
        <4> QED
          BY <1>0, <2>6, <3>3, <4>1 DEF ToCome
      <3> QED
        BY <2>1, <3>1, <3>2, <3>3
    <2> QED
      BY <1>0, <1>3, <2>6, NothingMade
  <1> QED
    BY <1>1, <1>2, <1>3

LEMMA RunPricedStep ==
    ASSUME RecurringInv, [RecurringNext]_recVars, NEW s \in Schedules, NEW t \in Nat,
           RunPriced(s, t)
    PROVE  RunPriced(s, t)'
  <1>0. /\ faults \in Nat
        /\ \A e \in listed : e.id \in Schedules /\ e.row \in ScheduleRecord
        /\ \A d \in doing : d.entry \in listed
    BY DEF RecurringInv, RecurringTypeOK, StoreTypeOK, Entry
  <1>1. ASSUME UNCHANGED <<faults, made, schedules, dropped, listed, doing>>
        PROVE  RunPriced(s, t)'
    <2>1. ToCome(s, t)' => ToCome(s, t)
      BY <1>1 DEF ToCome, Existing
    <2> QED
      BY <1>0, <1>1, <2>1, NothingMade
  <1>2. ASSUME NEW r \in Schedules, NEW w, NEW p, NEW n, CreateSchedule(r, w, p, n)
        PROVE  RunPriced(s, t)'
    <2>1. /\ UNCHANGED <<faults, made, dropped, listed, doing>>
          /\ r \notin Existing /\ r \notin dropped
          /\ \A q \in Schedules : q # r => schedules'[q] = schedules[q]
      BY <1>2 DEF CreateSchedule, NextId, NewRow, RecurringInv, RecurringTypeOK
    <2>2. ToCome(s, t)' => ToCome(s, t)
      <3>1. CASE s = r
        BY <2>1, <3>1 DEF ToCome
      <3>2. CASE s # r
        <4>1. (s \in Existing' <=> s \in Existing) /\ schedules'[s] = schedules[s]
          BY <2>1, <3>2 DEF Existing
        <4> QED
          BY <2>1, <4>1 DEF ToCome
      <3> QED
        BY <3>1, <3>2
    <2> QED
      BY <1>0, <2>1, <2>2, NothingMade
  <1>3. ASSUME NEW r \in Schedules, DeleteSchedule(r)
        PROVE  RunPriced(s, t)'
    <2>1. /\ UNCHANGED <<faults, made, listed, doing>> /\ dropped' = dropped \cup {r}
          /\ r \in Existing /\ schedules'[r] = NoSchedule
          /\ \A q \in Schedules : q # r => schedules'[q] = schedules[q]
      BY <1>3 DEF DeleteSchedule, RecurringInv, RecurringTypeOK
    <2>2. ASSUME ToCome(s, t)' PROVE ToCome(s, t)
      <3>1. CASE s = r
        <4>1. PICK e \in listed : e.id = s /\ e.row.nextRun = t /\ ~\E d \in doing : d.entry = e
          BY <2>1, <2>2, <3>1 DEF ToCome, Existing
        <4>2. schedules[s] = e.row
          BY <2>1, <3>1, <4>1 DEF RecurringInv, RowsKept, DroppedAreGone, Existing
        <4>3. ~\E d \in doing : d.entry.id = s
          BY <1>0, <4>1 DEF RecurringInv, OneRowEach
        <4> QED
          BY <2>1, <3>1, <4>1, <4>2, <4>3 DEF ToCome
      <3>2. CASE s # r
        <4>1. /\ (s \in Existing' <=> s \in Existing) /\ schedules'[s] = schedules[s]
              /\ (s \in dropped' <=> s \in dropped)
          BY <2>1, <3>2 DEF Existing
        <4> QED
          BY <2>1, <2>2, <4>1 DEF ToCome
      <3> QED
        BY <3>1, <3>2
    <2> QED
      BY <1>0, <2>1, <2>2, NothingMade
  <1>4. CASE ListSchedulesDue
    <2>1. /\ UNCHANGED <<faults, made, schedules, dropped, doing>> /\ listed = {}
          /\ \E S \in SUBSET Existing : listed' = {[id |-> r, row |-> schedules[r]] : r \in S}
      BY <1>4 DEF ListSchedulesDue, DueSchedules
    <2>2. doing = {}
      BY <1>0, <2>1
    <2>3. \A e \in listed' : e.id \notin dropped
      <3>1. \A r \in Existing : r \notin dropped
        BY DEF Existing, RecurringInv, DroppedAreGone
      <3> QED
        BY <2>1, <3>1
    <2>4. Existing' = Existing
      BY <2>1 DEF Existing
    <2>5. ToCome(s, t)' => ToCome(s, t)
      BY <2>1, <2>2, <2>3, <2>4 DEF ToCome
    <2> QED
      BY <1>0, <2>1, <2>5, NothingMade
  <1>5. ASSUME NEW d \in doing, EnqueueJob(d)
        PROVE  RunPriced(s, t)'
    <2>1. /\ UNCHANGED <<made, schedules, dropped>>
          /\ \/ EnqueueOk(JobMessage(d)) /\ listed' = listed
                /\ doing' = {[d EXCEPT !.pc = "advance"]}
             \/ EnqueueError(JobMessage(d))
      BY <1>5 DEF EnqueueJob
    <2>2. PICK m : m = JobMessage(d)
      OBVIOUS
    <2>3. CASE faults' = faults + 1
      BY <1>0, <2>1, <2>3, NothingMade
    <2>4. CASE faults' # faults + 1
      <3>1. faults' = faults /\ listed' = listed /\ doing' = {[d EXCEPT !.pc = "advance"]}
        BY <2>1, <2>2, <2>4 DEF EnqueueOk, EnqueueError, Fault
      <3>2. PICK c : doing' = {c} /\ c.entry = d.entry
        <4>1. [d EXCEPT !.pc = "advance"].entry = d.entry
          BY <1>0 DEF RecurringInv, RecurringTypeOK
        <4> QED
          BY <3>1, <4>1
      <3>3. doing = {d}
        BY DEF RecurringInv, WorkedOn
      <3>4. ToCome(s, t)' => ToCome(s, t)
        BY <2>1, <3>1, <3>2, <3>3 DEF ToCome, Existing
      <3> QED
        BY <1>0, <2>1, <3>1, <3>4, NothingMade
    <2> QED
      BY <2>3, <2>4
  <1>6. CASE SchedulerCrash
    BY <1>0, <1>6, NothingMade DEF SchedulerCrash, Fault
  <1>7. CASE Tick /\ UNCHANGED <<storeVars, faults, topic, recurringVars>>
    BY <1>1, <1>7 DEF recurringVars
  <1>8. CASE UNCHANGED recVars
    BY <1>1, <1>8 DEF recVars, recurringVars
  <1> QED
    BY <1>2, <1>3, <1>4, <1>5, <1>6, <1>7, <1>8, JobPriced, AdvancePriced
    DEF RecurringNext, TickStep

\* Each failure of a call, and each death of the scheduler, costs a run at most
\* one job more: a run whose job is made and enqueued is moved past, and only a
\* tick that was cut off before that makes it again.
THEOREM OneJobPerRunUpToFailures == RecurringSpec => []JobsPerRun
  <1>1. RecurringInit => RunsPriced
    <2> SUFFICES ASSUME RecurringInit, NEW s \in Schedules, NEW t \in Nat
                 PROVE  RunPriced(s, t)
      BY DEF RunsPriced
    <2>1. MadeOf(s, t) = {} /\ faults = 0 /\ Settled(s, t) \in {0, 1}
      BY DEF RecurringInit, StoreInit, MadeOf, Settled
    <2> QED
      BY <2>1, FS_EmptySet DEF RunPriced
  <1>2. RecurringInv /\ RunsPriced /\ [RecurringNext]_recVars => RunsPriced'
    BY RunPricedStep DEF RunsPriced
  <1>3. RecurringInv /\ RunsPriced => JobsPerRun
    <2> SUFFICES ASSUME RecurringInv, RunsPriced, NEW s \in Schedules, NEW t \in 1 .. MaxTime
                 PROVE  Cardinality(MadeOf(s, t)) <= 1 + faults
      BY DEF JobsPerRun, MadeOf
    <2>1. t \in Nat /\ faults \in Nat /\ Settled(s, t) \in {0, 1}
      BY ClockAssumption DEF RecurringInv, RecurringTypeOK, StoreTypeOK, Settled
    <2>2. /\ Cardinality(MadeOf(s, t)) \in Nat
          /\ Cardinality(MadeOf(s, t)) <= faults + Settled(s, t)
      BY <2>1, FS_CardinalityType DEF RunsPriced, RunPriced
    <2> QED
      BY <2>1, <2>2
  <1> QED
    BY <1>1, <1>2, <1>3, RecurringInitInv, RecurringStep, PTL DEF RecurringSpec
=============================================================================
