---------------------------- MODULE SystemProofs ----------------------------
(***************************************************************************)
(* Theorems about the whole path of a job: users of the dashboard, API,    *)
(* promoter and workers over one store, one topic and one clock, for any   *)
(* number of each and whatever fails.                                      *)
(***************************************************************************)
EXTENDS Demo, BackendProofs, ContractProofs

----------------------------------------------------------------------------
(***************************************************************************)
(* Types.                                                                  *)
(***************************************************************************)
SysInv == BackInv /\ WorkerTypeOK /\ LimiterInv /\ PromoterTypeOK

LogGrows ==
    topic' \in Seq(JobRequest) /\ Len(topic') >= Len(topic) /\ KeepsLog

LEMMA SysTypes ==
    ASSUME SysInv
    PROVE  TypeOK /\ BackTypes /\ KeyInv /\ SysTypeOK /\ topic \in Seq(JobRequest)
  BY DEF SysInv, BackInv, BackTypes, TypeOK, SysTypeOK, QueueTypeOK

\* A step that leaves the topic alone, and one that adds m to it.
LEMMA LogStays ==
    ASSUME topic \in Seq(JobRequest), topic' = topic
    PROVE  LogGrows
  <1>1. Len(topic) \in Nat
    BY LenProperties
  <1> QED
    BY <1>1 DEF LogGrows, KeepsLog

LEMMA LogGains ==
    ASSUME NEW m, Grown(m)
    PROVE  LogGrows
  BY DEF Grown, LogGrows, KeepsLog

\* The workers are not disturbed by a log that grows.
LEMMA BesideWorkers ==
    ASSUME SysInv, LogGrows, UNCHANGED workerVars
    PROVE  WorkerTypeOK' /\ LimiterInv'
  <1>1. TypeOK /\ Len(topic) \in Nat /\ Len(topic') \in Nat
    BY SysTypes, LenProperties DEF LogGrows
  <1>2. WorkerTypeOK'
    BY <1>1 DEF TypeOK, LogGrows, workerVars, WorkerTypeOK, Busy
  <1>3. \A w \in Workers, t \in Types : Holders(w, t)' = Holders(w, t)
    BY <1>1, HoldersKept DEF LogGrows, workerVars
  <1> QED
    BY <1>2, <1>3, KeepsLimiter DEF SysInv, workerVars

\* A step of the backend or of the promoter, as far as the workers see it.
LEMMA BackendLog ==
    ASSUME SysInv, NEW c \in Callers, CallStep(c)
    PROVE  LogGrows
  <1>1. call[c] \in CallRecord /\ topic \in Seq(JobRequest)
    BY SysTypes DEF BackTypes, BackendTypeOK
  <1>2. ASSUME NEW m \in JobRequest, EnqueueOk(m) \/ EnqueueError(m)
        PROVE  LogGrows
    BY <1>1, <1>2, EnqueueGrows, LogGains
  <1>3. CASE Enqueue(c)
    <2> DEFINE m == Request(call[c].job, call[c].work, 0, call[c].maxRetry)
    <2>1. call[c].job \in Jobs
      BY <1>3, SysTypes DEF BackTypes, CallJobs, Enqueue, CallAt
    <2>2. m \in JobRequest
      BY <1>1, <2>1 DEF CallRecord, Request, JobRequest
    <2>3. topic' = topic \/ EnqueueOk(m) \/ EnqueueError(m)
      BY <1>3 DEF Enqueue
    <2> QED
      BY <1>1, <1>2, <2>2, <2>3, LogStays
  <1>4. CASE Requeue(c)
    <2>1. PICK j \in Jobs : \/ EnqueueOk(Request(j, call[c].work, 0, 0))
                            \/ EnqueueError(Request(j, call[c].work, 0, 0))
      BY <1>4 DEF Requeue
    <2>2. Request(j, call[c].work, 0, 0) \in JobRequest
      BY <1>1 DEF CallRecord, Request, JobRequest
    <2> QED
      BY <1>2, <2>1, <2>2
  <1>5. CASE Lookup(c) \/ Create(c) \/ CancelWrite(c) \/ Record(c)
    BY <1>1, <1>5, LogStays DEF Lookup, Create, CancelWrite, Record
  <1> QED
    BY <1>3, <1>4, <1>5 DEF CallStep

\* Every step of the backend.
LEMMA ApiKeepsTypes ==
    ASSUME SysInv, BackendNext, UNCHANGED <<workerVars, promoterVars>>
    PROVE  SysInv'
  <1>1. BackInv /\ BackTypes /\ KeyInv /\ topic \in Seq(JobRequest)
    BY SysTypes DEF SysInv
  <1>2. SUFFICES BackInv' /\ LogGrows
    BY BesideWorkers DEF SysInv, promoterVars, PromoterTypeOK
  <1>3. ASSUME NEW c \in Callers, NEW w \in Offered, NEW n \in Budgets, NEW t \in RunAts,
               NEW k \in Keys \cup {NoKey}, Submit(c, w, n, t, k)
        PROVE  BackInv' /\ LogGrows
    BY <1>1, <1>3, ClientSubmit, LogStays DEF Submit
  <1>4. ASSUME NEW c \in Callers, NEW j \in Jobs,
               \/ Cancel(c, j) \/ CancelRefused(c, j) \/ RetryRefused(c, j)
               \/ \E q \in Queues : RetryArchived(c, j, q)
        PROVE  BackInv' /\ LogGrows
    <2>1. topic' = topic
      BY <1>4 DEF Cancel, CancelRefused, RetryRefused, RetryArchived
    <2> QED
      BY <1>1, <1>4, <2>1, BeginTypes, BeginKeys, LogStays DEF BackInv
  <1>5. ASSUME NEW c \in Callers, CallStep(c)
        PROVE  BackInv' /\ LogGrows
    BY <1>1, <1>5, BackendGoesOn, BackendLog
  <1>6. ASSUME NEW q \in Queues, SetQueuePaused(q)
        PROVE  BackInv' /\ LogGrows
    <2>1. /\ paused' \in SUBSET Queues /\ UNCHANGED faults
          /\ UNCHANGED <<jobs, outbox, topic, now, apiVars>>
      BY <1>1, <1>6 DEF SetQueuePaused, BackTypes, StoreTypeOK
    <2> QED
      BY <1>1, <2>1, BesideBackend, LogStays
  <1>7. CASE ApiCrash
    BY <1>1, <1>7, ApiCrashTypes, ApiCrashKeys, LogStays DEF ApiCrash, BackInv
  <1> QED
    BY <1>3, <1>4, <1>5, <1>6, <1>7 DEF BackendNext

\* A step beside the calls in progress, which makes no row and gives no answer.
LEMMA BesideCalls ==
    ASSUME SysInv, StoreTypeOK', QueueTypeOK', ClockTypeOK', KeepsRows, UNCHANGED apiVars
    PROVE  BackInv'
  <1>1. BackTypes'
    BY DEF SysInv, BackInv, BackTypes, BackendTypeOK, CallJobs, apiVars
  <1>2. BackTypes /\ KeyInv
    BY DEF SysInv, BackInv
  <1>3. submitted' = submitted /\ call' = call
    BY DEF apiVars
  <1> QED
    BY <1>1, <1>2, <1>3, QuietKeys DEF BackInv

\* The rows after a step that changes at most the status of one.
LEMMA RowWriteKeeps ==
    ASSUME TypeOK, NEW j \in Jobs, NEW status \in Statuses, NEW attempt \in Nat,
           jobs' \in {jobs, Updated(j, status, attempt)}
    PROVE  KeepsRows
  BY UpdatedKeeps DEF TypeOK, StoreTypeOK, RowsType

LEMMA SchedulerKeepsTypes ==
    ASSUME SysInv, PromoterNext, UNCHANGED <<workerVars, apiVars>>
    PROVE  SysInv'
  <1>1. /\ TypeOK /\ topic \in Seq(JobRequest) /\ now \in 1 .. MaxTime
        /\ StoreTypeOK /\ QueueTypeOK /\ PromoterTypeOK /\ now' = now
    BY SysTypes
       DEF SysInv, TypeOK, BackTypes, ClockTypeOK, PromoterNext, ListDue, Promote,
           PromoteEnqueue, PromoteMark, PromoterCrash
  <1>2. ASSUME StoreTypeOK', QueueTypeOK', LogGrows, KeepsRows, PromoterTypeOK'
        PROVE  SysInv'
    BY <1>1, <1>2, BesideCalls, BesideWorkers DEF SysInv, ClockTypeOK
  <1>3. CASE ListDue
    <2>1. /\ UNCHANGED <<storeVars, faults, topic, promoting>> /\ due = {}
          /\ \E S \in SUBSET DueJobs :
                due' = {[job |-> j, work |-> jobs[j].work, attempt |-> jobs[j].attempt,
                         runAt |-> jobs[j].runAt] : j \in S}
      BY <1>3 DEF ListDue
    <2>2. \A j \in DueJobs : jobs[j] \in JobRecord /\ j \in Jobs
      BY <1>1 DEF DueJobs, StoreTypeOK
    <2>3. \A j \in DueJobs : [job |-> j, work |-> jobs[j].work, attempt |-> jobs[j].attempt,
                              runAt |-> jobs[j].runAt] \in Listed
      BY <2>2 DEF JobRecord, Listed
    <2>4. PromoterTypeOK'
      BY <1>1, <2>1, <2>3 DEF PromoterTypeOK
    <2>5. StoreTypeOK' /\ QueueTypeOK' /\ KeepsRows
      BY <1>1, <2>1 DEF StoreTypeOK, QueueTypeOK, storeVars, KeepsRows
    <2> QED
      BY <1>1, <1>2, <2>1, <2>4, <2>5, LogStays
  <1>4. ASSUME NEW d \in due, PromoteEnqueue(d)
        PROVE  SysInv'
    <2> DEFINE m == Request(d.job, d.work, 0, PromotedRetries)
    <2>1. d \in Listed
      BY <1>1 DEF PromoterTypeOK
    <2>2. m \in JobRequest
      BY <2>1 DEF Listed, Request, JobRequest, PromotedRetries
    <2>3. /\ EnqueueOk(m) \/ EnqueueError(m) 
          /\ UNCHANGED storeVars
          /\ due' \in {due, due \ {d}} /\ promoting' \in {{}, {d}}
          /\ due' = due \/ promoting' = {}
      BY <1>4 DEF PromoteEnqueue
    <2>4. UNCHANGED faults \/ \E kind \in FaultKinds : Fault(kind)
      BY <2>3 DEF EnqueueOk, EnqueueError, Fault
    <2> HIDE DEF m
    <2>5. LogGrows /\ QueueTypeOK'
      BY <1>1, <2>2, <2>3, EnqueueGrows, LogGains, SentType
    <2>6. StoreTypeOK' /\ KeepsRows
      BY <1>1, <2>3, <2>4, FaultType DEF storeVars, KeepsRows
    <2>7. PromoterTypeOK'
      BY <1>1, <2>3 DEF PromoterTypeOK
    <2> QED
      BY <1>2, <2>5, <2>6, <2>7
  <1>5. ASSUME NEW d \in due, PromoteMark(d)
        PROVE  SysInv'
    <2>1. d \in Listed
      BY <1>1 DEF PromoterTypeOK
    <2>2. d.job \in Jobs /\ d.attempt \in Nat /\ "pending" \in Statuses
      BY <2>1 DEF Listed, Statuses
    <2>3. /\ UpdateStatus(d.job, "pending", d.attempt)
          /\ UNCHANGED <<paused, outbox, topic>>
          /\ due' = due \ {d} /\ promoting' = {}
      BY <1>5 DEF PromoteMark
    <2>4. StoreTypeOK' /\ QueueTypeOK' /\ LogGrows
      BY <1>1, <2>2, <2>3, UpdateType, LogStays DEF QueueTypeOK
    <2>5. KeepsRows
      BY <1>1, <2>2, <2>3, RowWriteKeeps DEF UpdateStatus
    <2>6. PromoterTypeOK'
      BY <1>1, <2>3 DEF PromoterTypeOK
    <2> QED
      BY <1>2, <2>4, <2>5, <2>6
  <1>6. CASE PromoterCrash
    <2>1. StoreTypeOK' /\ QueueTypeOK' /\ LogGrows
      BY <1>1, <1>6, FaultType, LogStays DEF PromoterCrash, QueueTypeOK, Fault
    <2>2. KeepsRows /\ PromoterTypeOK'
      BY <1>6 DEF PromoterCrash, storeVars, KeepsRows, PromoterTypeOK
    <2> QED
      BY <1>2, <2>1, <2>2
  <1> QED
    BY <1>3, <1>4, <1>5, <1>6 DEF PromoterNext, Promote

LEMMA WorkerKeepsTypes ==
    ASSUME SysInv, WorkerNext, UNCHANGED <<now, apiVars, promoterVars>>
    PROVE  SysInv'
  <1>1. TypeOK /\ LimiterInv /\ BackTypes
    BY SysTypes DEF SysInv
  <1>2. [Next]_vars /\ TokensExact
    BY <1>1 DEF Next, LimiterInv
  <1>3. TypeOK' /\ LimiterInv'
    BY <1>1, <1>2, TypeStep, LimiterStep
  <1>4. KeepsRows
    <2>1. CASE jobs' = jobs
      BY <2>1 DEF KeepsRows
    <2>2. ASSUME NEW g \in Goroutines, Busy(g), WritesRow(g)
          PROVE  KeepsRows
      BY <1>1, <2>2, ReqType, RowWriteKeeps DEF WritesRow
    <2> QED
      BY <1>1, <2>1, <2>2, WorkerWrites DEF WritesMessage
  <1>5. BackInv'
    BY <1>1, <1>3, <1>4, BesideCalls DEF TypeOK, BackTypes, ClockTypeOK
  <1> QED
    BY <1>3, <1>5 DEF SysInv, TypeOK, PromoterTypeOK, promoterVars

LEMMA TimeKeepsTypes ==
    ASSUME SysInv, TimeStep
    PROVE  SysInv'
  <1>1. /\ TypeOK /\ BackTypes /\ topic \in Seq(JobRequest)
        /\ UNCHANGED <<storeVars, faults, topic, workerVars, apiVars, promoterVars>>
    BY SysTypes DEF TimeStep
  <1>2. now' \in 1 .. MaxTime
    BY <1>1, ClockAssumption DEF BackTypes, ClockTypeOK, TimeStep, Tick
  <1>3. StoreTypeOK' /\ QueueTypeOK' /\ ClockTypeOK' /\ KeepsRows
    BY <1>1, <1>2 DEF TypeOK, StoreTypeOK, QueueTypeOK, ClockTypeOK, storeVars, KeepsRows
  <1> QED
    BY <1>1, <1>3, BesideCalls, BesideWorkers, LogStays DEF SysInv, PromoterTypeOK, promoterVars

\* The jobs of the scenarios are work.
LEMMA ScenarioType ==
    ASSUME NEW id, NEW p \in Scenario(id, now), now \in Nat
    PROVE  WorkOf(p) \in Work /\ p.maxRetry \in Nat /\ p.runAt \in Nat
  <1>1. {Sound, ToOutside, Blank, FailingAt(1)} \subseteq Payloads
    BY DemoAssumption
  <1>2. /\ p.type \in {"email", "invoice", "report", "image", "sleep"}
        /\ p.payload \in {Sound, ToOutside, Blank, FailingAt(1)}
        /\ p.maxRetry \in {0, 2} /\ p.runAt \in {0, now + Delay}
    BY DEF Scenario, Plain, Post
  <1>3. p.type \in Types /\ p.payload \in Payloads
    BY <1>1, <1>2, DemoAssumption, StoreAssumption
  <1> QED
    BY <1>2, <1>3, DemoAssumption, UpstreamAssumption DEF WorkOf, Work

LEMMA DemoKeepsTypes ==
    ASSUME SysInv, NEW c \in Callers,
           \/ \E id \in Scenarios : HandleScenario(c, id)
           \/ \E j \in Jobs : HandleReplay(c, j)
    PROVE  SysInv'
  <1>1. BackTypes /\ KeyInv /\ topic \in Seq(JobRequest) /\ now \in Nat
    BY SysTypes DEF BackTypes, ClockTypeOK
  <1>2. UNCHANGED <<workerVars, promoterVars, topic>>
    BY DEF HandleScenario, HandleReplay, Submit, RetryArchived, RetryRefused
  <1>3. BackInv'
    <2>1. ASSUME NEW id \in Scenarios, HandleScenario(c, id)
          PROVE  BackInv'
      <3>1. PICK p \in Scenario(id, now) : Submit(c, WorkOf(p), p.maxRetry, p.runAt, NoKey)
        BY <2>1 DEF HandleScenario
      <3>2. WorkOf(p) \in Work /\ p.maxRetry \in Nat /\ p.runAt \in Nat
        BY <1>1, ScenarioType
      <3> QED
        BY <1>1, <3>1, <3>2, SubmitTypes, SubmitKeys DEF BackInv
    <2>2. ASSUME NEW j \in Jobs, HandleReplay(c, j)
          PROVE  BackInv'
      <3>1. RetryRefused(c, j) \/ \E q \in Queues : RetryArchived(c, j, q)
        BY <2>2, DemoAssumption DEF HandleReplay
      <3> QED
        BY <1>1, <3>1, BeginTypes, BeginKeys DEF BackInv
    <2> QED
      BY <2>1, <2>2
  <1> QED
    BY <1>1, <1>2, <1>3, BesideWorkers, LogStays DEF SysInv, promoterVars, PromoterTypeOK

LEMMA SysTypesInit == SysInit => SysInv
  <1> SUFFICES ASSUME SysInit PROVE SysInv
    OBVIOUS
  <1>1. BackInv
    BY BackInitTypes, BackInitKeys DEF SysInit, BackInv
  <1>2. WorkerTypeOK /\ LimiterInv
    BY InitInv DEF SysInit, Init, TypeOK
  <1>3. PromoterTypeOK
    BY DEF SysInit, PromoterInit, PromoterTypeOK
  <1> QED
    BY <1>1, <1>2, <1>3 DEF SysInv

LEMMA SysTypesStep == SysInv /\ [DemoNext]_sysVars => SysInv'
  <1> SUFFICES ASSUME SysInv, [DemoNext]_sysVars PROVE SysInv'
    OBVIOUS
  <1>1. CASE UNCHANGED sysVars
    <2>1. UNCHANGED <<storeVars, faults, topic, workerVars, now, apiVars, promoterVars>>
      BY <1>1 DEF sysVars, vars, storeVars, workerVars
    <2>2. /\ TypeOK /\ BackTypes /\ topic \in Seq(JobRequest) /\ KeepsRows
          /\ StoreTypeOK' /\ QueueTypeOK' /\ ClockTypeOK'
      BY <2>1, SysTypes
         DEF TypeOK, BackTypes, StoreTypeOK, QueueTypeOK, ClockTypeOK, storeVars, KeepsRows
    <2> QED
      BY <2>1, <2>2, BesideCalls, BesideWorkers, LogStays
         DEF SysInv, PromoterTypeOK, promoterVars
  <1> QED
    BY <1>1, ApiKeepsTypes, SchedulerKeepsTypes, WorkerKeepsTypes, TimeKeepsTypes, DemoKeepsTypes
       DEF DemoNext, SysNext, ApiStep, SchedulerStep, WorkerStep

LEMMA SysAlways == DemoSpec => []SysInv
  BY SysTypesInit, SysTypesStep, PTL DEF DemoSpec

\* All variables of the store, the topic, the API, the promoter and the workers
\* keep their types, whatever of them fails, dies or is redelivered.
THEOREM SystemTypes == DemoSpec => []SysTypeOK
  <1>1. SysInv => SysTypeOK
    BY SysTypes
  <1> QED
    BY <1>1, SysAlways, PTL

----------------------------------------------------------------------------
(***************************************************************************)
(* Delayed jobs.  Effect says all that a step of any component does to the *)
(* rows and the topic that matters for them: a row keeps its time, a       *)
(* message goes out for a job that was sent before, or that is due, or     *)
(* that has no row; and a row that is waiting is only ever cancelled.      *)
(***************************************************************************)
Sent(j) == \E i \in DOMAIN topic : topic[i].job = j

RowEffect(j) ==
    /\ jobs[j] # NoRow =>
          /\ jobs'[j] # NoRow
          /\ jobs'[j].runAt = jobs[j].runAt
          /\ jobs'[j].status = jobs[j].status \/ jobs'[j].status = "cancelled" \/ Sent(j)
    /\ jobs[j] = NoRow /\ jobs'[j] # NoRow =>
          \/ jobs'[j].runAt = 0
          \/ jobs'[j].status = "scheduled" /\ ~Sent(j)'

SentEffect(j) ==
    /\ Sent(j) => Sent(j)'
    /\ Sent(j)' =>
          \/ Sent(j)
          \/ jobs[j] = NoRow /\ jobs'[j] = NoRow
          \/ jobs[j] # NoRow /\ jobs[j].runAt <= now

Effect == \A j \in Jobs : RowEffect(j) /\ SentEffect(j)

\* A request that is about to enqueue a job has its row; one that looks a key
\* up has one.
Ready(c) ==
    /\ call[c].pc = "enqueue" =>
          jobs[call[c].job] # NoRow /\ jobs[call[c].job].runAt = call[c].runAt
    /\ call[c].pc = "lookup" => call[c].key # NoKey

\* What the promoter listed is due, and what it is about to mark is sent.
Ripe(d) ==
    jobs[d.job] # NoRow /\ jobs[d.job].runAt = d.runAt /\ d.runAt <= now

\* A delayed job that is not sent is left to the promoter, or cancelled.
Left(j) ==
    jobs[j] # NoRow /\ jobs[j].runAt > 0 /\ ~Sent(j)
        => jobs[j].status \in {"scheduled", "cancelled"}

\* The row behind an answer.
Lasting(r) ==
    r.key = NoKey => jobs[r.job] # NoRow /\ (Sent(r.job) \/ jobs[r.job].runAt > 0)

DueInv ==
    /\ \A j \in Jobs : Sent(j) /\ jobs[j] # NoRow => jobs[j].runAt <= now
    /\ \A j \in Jobs : Left(j)
    /\ \A c \in Callers : Ready(c)
    /\ \A d \in due : Ripe(d)
    /\ \A d \in promoting : Sent(d.job)
    /\ \A r \in submitted : Lasting(r)

\* The invariant survives a step with such an effect, if what is new among the
\* requests, the listed rows and the answers is as it should be.
LEMMA EffectKeeps ==
    ASSUME SysInv, SysInv', DueInv, Effect, now <= now',
           \A c \in Callers : call'[c] = call[c] \/ Ready(c)',
           \A d \in due' : d \in due \/ Ripe(d)',
           \A d \in promoting' : d \in promoting \/ Sent(d.job)',
           \A r \in submitted' : r \in submitted \/ Lasting(r)'
    PROVE  DueInv'
  <1>1. /\ now \in Nat /\ now' \in Nat
        /\ \A j \in Jobs : jobs[j] # NoRow => jobs[j].runAt \in Nat
        /\ \A j \in Jobs : jobs'[j] # NoRow => jobs'[j].runAt \in Nat
        /\ \A c \in Callers : call[c].pc = "enqueue" => call[c].job \in Jobs
        /\ \A d \in due : d.job \in Jobs /\ d.runAt \in Nat
        /\ promoting \subseteq due
        /\ \A r \in submitted : r.job \in Jobs
    <2>1. /\ BackTypes /\ BackTypes' /\ PromoterTypeOK
      BY DEF SysInv, BackInv
    <2> QED
      BY <2>1 DEF BackTypes, ClockTypeOK, StoreTypeOK, BackendTypeOK, JobRecord, CallJobs,
                  PromoterTypeOK, Listed
  <1>2. ASSUME NEW j \in Jobs, Sent(j)', jobs'[j] # NoRow
        PROVE  jobs'[j].runAt <= now'
    <2>1. RowEffect(j) /\ SentEffect(j) /\ (Sent(j) /\ jobs[j] # NoRow => jobs[j].runAt <= now)
      BY DEF Effect, DueInv
    <2> QED
      BY <1>1, <1>2, <2>1 DEF RowEffect, SentEffect
  <1>3. ASSUME NEW j \in Jobs
        PROVE  Left(j)'
    <2>1. RowEffect(j) /\ SentEffect(j) /\ Left(j)
      BY DEF Effect, DueInv
    <2> QED
      BY <1>1, <2>1 DEF RowEffect, SentEffect, Left
  <1>4. ASSUME NEW c \in Callers
        PROVE  Ready(c)'
    <2>1. CASE call'[c] = call[c]
      <3>1. Ready(c) /\ (call[c].pc = "enqueue" => RowEffect(call[c].job))
        BY <1>1 DEF Effect, DueInv
      <3> QED
        BY <2>1, <3>1 DEF Ready, RowEffect
    <2> QED
      BY <2>1
  <1>5. ASSUME NEW d \in due'
        PROVE  Ripe(d)'
    <2>1. CASE d \in due
      <3>1. Ripe(d) /\ RowEffect(d.job)
        BY <1>1, <2>1 DEF Effect, DueInv
      <3> QED
        BY <1>1, <2>1, <3>1 DEF Ripe, RowEffect
    <2> QED
      BY <2>1
  <1>6. ASSUME NEW d \in promoting'
        PROVE  Sent(d.job)'
    <2>1. CASE d \in promoting
      BY <1>1, <2>1 DEF Effect, SentEffect, DueInv
    <2> QED
      BY <2>1
  <1>7. ASSUME NEW r \in submitted'
        PROVE  Lasting(r)'
    <2>1. CASE r \in submitted
      <3>1. Lasting(r) /\ RowEffect(r.job) /\ SentEffect(r.job)
        BY <1>1, <2>1 DEF Effect, DueInv
      <3> QED
        BY <3>1 DEF Lasting, RowEffect, SentEffect
    <2> QED
      BY <2>1
  <1> QED
    BY <1>2, <1>3, <1>4, <1>5, <1>6, <1>7 DEF DueInv

\* The effect of a step that writes nothing.
LEMMA NoEffect ==
    ASSUME jobs' = jobs, topic' = topic
    PROVE  Effect
  BY DEF Effect, RowEffect, SentEffect, Sent

\* A write of a status: only cancelling needs no message.
LEMMA UpdateEffect ==
    ASSUME TypeOK, NEW j \in Jobs, NEW status \in Statuses, NEW attempt \in Nat,
           jobs' \in {jobs, Updated(j, status, attempt)}, topic' = topic,
           status = "cancelled" \/ Sent(j)
    PROVE  Effect
  <1>1. \A k \in Jobs : Sent(k)' <=> Sent(k)
    BY DEF Sent
  <1>2. CASE jobs' = jobs \/ jobs[j] = NoRow
    BY <1>2, NoEffect DEF Updated
  <1>3. CASE jobs[j] # NoRow /\ jobs' = Updated(j, status, attempt)
    <2>1. jobs[j] \in JobRecord
      BY <1>3 DEF TypeOK, StoreTypeOK
    <2> DEFINE new == [jobs[j] EXCEPT !.status = status, !.attempt = attempt]
    <2>2. new \in JobRecord /\ new.runAt = jobs[j].runAt /\ new.status = status
      BY <2>1 DEF JobRecord
    <2>3. new # NoRow
      BY <2>2, StoreAssumption
    <2>4. \A k \in Jobs : jobs'[k] = IF k = j THEN new ELSE jobs[k]
      BY <1>3 DEF Updated, TypeOK, StoreTypeOK
    <2> HIDE DEF new
    <2> QED
      BY <1>1, <1>3, <2>2, <2>3, <2>4 DEF Effect, RowEffect, SentEffect
  <1> QED
    BY <1>2, <1>3

\* A new row: a delayed one is scheduled and not sent.
LEMMA InsertEffect ==
    ASSUME TypeOK, NEW j \in Jobs, NEW w \in Work, NEW status \in Statuses,
           NEW runAt \in Nat, NEW key \in Keys \cup {NoKey}, jobs[j] = NoRow,
           jobs' = Inserted(j, w, status, runAt, key), topic' = topic,
           runAt = 0 \/ (status = "scheduled" /\ ~Sent(j))
    PROVE  /\ Effect
           /\ jobs'[j] # NoRow /\ jobs'[j].runAt = runAt
  <1> DEFINE row == [work |-> w, status |-> status, attempt |-> 0, runAt |-> runAt, key |-> key]
  <1>1. row \in JobRecord /\ row.runAt = runAt /\ row.status = status
    BY DEF JobRecord
  <1>2. row # NoRow
    BY <1>1, StoreAssumption
  <1>3. \A k \in Jobs : jobs'[k] = IF k = j THEN row ELSE jobs[k]
    BY DEF Inserted, TypeOK, StoreTypeOK
  <1>4. \A k \in Jobs : Sent(k)' <=> Sent(k)
    BY DEF Sent
  <1> HIDE DEF row
  <1> QED
    BY <1>1, <1>2, <1>3, <1>4 DEF Effect, RowEffect, SentEffect

\* What is sent once the log has gained copies of m.
LEMMA SentThen ==
    ASSUME topic \in Seq(JobRequest), NEW m \in JobRequest, Grown(m)
    PROVE  \A j \in Jobs : /\ Sent(j) => Sent(j)'
                           /\ Sent(j)' => Sent(j) \/ j = m.job
  <1>1. /\ DOMAIN topic = 1 .. Len(topic) /\ DOMAIN topic' = 1 .. Len(topic')
        /\ Len(topic) \in Nat /\ Len(topic') \in Nat
    BY LenProperties DEF Grown
  <1>2. ASSUME NEW j \in Jobs, Sent(j)
        PROVE  Sent(j)'
    <2>1. PICK i \in 1 .. Len(topic) : topic[i].job = j
      BY <1>1, <1>2 DEF Sent
    <2>2. i \in 1 .. Len(topic') /\ topic'[i].job = j
      BY <1>1, <2>1 DEF Grown
    <2> QED
      BY <1>1, <2>2 DEF Sent
  <1>3. ASSUME NEW j \in Jobs, Sent(j)'
        PROVE  Sent(j) \/ j = m.job
    <2>1. PICK i \in 1 .. Len(topic') : topic'[i].job = j
      BY <1>1, <1>3 DEF Sent
    <2>2. CASE i <= Len(topic)
      BY <1>1, <2>1, <2>2 DEF Grown, Sent
    <2>3. CASE i > Len(topic)
      BY <2>1, <2>3 DEF Grown
    <2> QED
      BY <1>1, <2>2, <2>3
  <1> QED
    BY <1>2, <1>3

\* A message that Enqueue put into the topic is there.
LEMMA OkSends ==
    ASSUME topic \in Seq(JobRequest), NEW m \in JobRequest, EnqueueOk(m),
           NEW j, j = m.job
    PROVE  Sent(j)'
  <1>1. Grown(m) /\ Len(topic) \in Nat
    BY EnqueueGrows, LenProperties
  <1>2. CASE topic' = Append(topic, m)
    <2>1. Len(topic') = Len(topic) + 1
      BY <1>2, AppendProperties
    <2>2. Len(topic) + 1 \in DOMAIN topic' /\ topic'[Len(topic) + 1] = m
      BY <1>1, <2>1, LenProperties DEF Grown
    <2> QED
      BY <2>2 DEF Sent
  <1>3. CASE topic' = topic \o <<m, m>>
    <2>1. <<m, m>> \in Seq(JobRequest) /\ Len(<<m, m>>) = 2
      OBVIOUS
    <2>2. Len(topic') = Len(topic) + 2
      BY <1>3, <2>1, ConcatProperties
    <2>3. Len(topic) + 1 \in DOMAIN topic' /\ topic'[Len(topic) + 1] = m
      BY <1>1, <2>2, LenProperties DEF Grown
    <2> QED
      BY <2>3 DEF Sent
  <1> QED
    BY <1>2, <1>3 DEF EnqueueOk

\* A message of a job that was sent, is due, or has no row.
LEMMA SendEffect ==
    ASSUME topic \in Seq(JobRequest), NEW m \in JobRequest, Grown(m), jobs' = jobs,
           Sent(m.job) \/ jobs[m.job] = NoRow \/ jobs[m.job].runAt <= now
    PROVE  Effect
  <1>1. \A j \in Jobs : /\ Sent(j) => Sent(j)'
                        /\ Sent(j)' => Sent(j) \/ j = m.job
    BY SentThen
  <1> QED
    BY <1>1 DEF Effect, RowEffect, SentEffect

\* A step of one request.
LEMMA RequestKeeps ==
    ASSUME SysInv, SysInv', DueInv, Effect, UNCHANGED <<now, promoterVars>>,
           NEW c \in Callers,
           \A d \in Callers : d # c => call'[d] = call[d],
           Ready(c)',
           \A r \in submitted' : r \in submitted \/ Lasting(r)'
    PROVE  DueInv'
  <1>1. now' = now /\ now \in Nat /\ due' = due /\ promoting' = promoting
    BY SysTypes DEF promoterVars, BackTypes, ClockTypeOK
  <1> QED
    BY <1>1, EffectKeeps

\* A request that ends.
LEMMA EndKeeps ==
    ASSUME SysInv, SysInv', DueInv, Effect, UNCHANGED <<now, promoterVars>>,
           NEW c \in Callers, NEW o, Return(c, o),
           \A r \in submitted' : r \in submitted \/ Lasting(r)'
    PROVE  DueInv'
  <1>1. /\ \A d \in Callers : d # c => call'[d] = call[d]
        /\ call'[c].pc = "idle"
    BY SysTypes, ReturnQuiet
  <1>2. Ready(c)'
    BY <1>1 DEF Ready
  <1> QED
    BY <1>1, <1>2, RequestKeeps

\* A request that begins.
LEMMA BeginKeepsDue ==
    ASSUME SysInv, SysInv', DueInv, UNCHANGED <<now, promoterVars>>,
           NEW c \in Callers,
           \/ \E w \in Work, n \in Nat, t \in Nat, k \in Keys \cup {NoKey} : Submit(c, w, n, t, k)
           \/ \E j \in Jobs : \/ Cancel(c, j) \/ CancelRefused(c, j) \/ RetryRefused(c, j)
                              \/ \E q \in Queues : RetryArchived(c, j, q)
    PROVE  DueInv'
  <1>1. call[c] \in CallRecord /\ call \in [Callers -> CallRecord]
    BY SysTypes DEF BackTypes, BackendTypeOK
  <1>2. jobs' = jobs /\ topic' = topic /\ submitted' = submitted
    BY DEF Submit, Cancel, CancelRefused, RetryRefused, RetryArchived, storeVars
  <1>3. Effect
    BY <1>2, NoEffect
  <1>4. ASSUME NEW r, call' = [call EXCEPT ![c] = r], r.pc # "enqueue",
               r.pc = "lookup" => r.key # NoKey
        PROVE  DueInv'
    <2>1. call'[c] = r /\ \A d \in Callers : d # c => call'[d] = call[d]
      BY <1>1, <1>4
    <2>2. Ready(c)'
      BY <1>4, <2>1 DEF Ready
    <2> QED
      BY <1>2, <1>3, <2>1, <2>2, RequestKeeps
  <1>5. ASSUME NEW w, NEW n, NEW t, NEW k, Submit(c, w, n, t, k)
        PROVE  DueInv'
    <2> DEFINE r == [pc |-> IF k = NoKey THEN "create" ELSE "lookup", work |-> w,
                     maxRetry |-> n, runAt |-> t, key |-> k, job |-> NoJob]
    <2>1. r.pc = (IF k = NoKey THEN "create" ELSE "lookup") /\ r.key = k
      OBVIOUS
    <2>2. call' = [call EXCEPT ![c] = r]
      BY <1>5 DEF Submit
    <2> HIDE DEF r
    <2> QED
      BY <1>4, <2>1, <2>2
  <1>6. ASSUME NEW j \in Jobs, Cancel(c, j)
        PROVE  DueInv'
    <2> DEFINE r == [call[c] EXCEPT !.pc = "cancel", !.job = j]
    <2>1. r.pc = "cancel"
      BY <1>1 DEF CallRecord
    <2>2. call' = [call EXCEPT ![c] = r]
      BY <1>6 DEF Cancel
    <2> HIDE DEF r
    <2> QED
      BY <1>4, <2>1, <2>2
  <1>7. ASSUME NEW j \in Jobs, NEW q \in Queues, RetryArchived(c, j, q)
        PROVE  DueInv'
    <2> DEFINE r == [call[c] EXCEPT !.pc = "requeue", !.job = j,
                                    !.work = [jobs[j].work EXCEPT !.queue = q]]
    <2>1. r.pc = "requeue"
      BY <1>1 DEF CallRecord
    <2>2. call' = [call EXCEPT ![c] = r]
      BY <1>7 DEF RetryArchived
    <2> HIDE DEF r
    <2> QED
      BY <1>4, <2>1, <2>2
  <1>8. ASSUME NEW j \in Jobs, CancelRefused(c, j) \/ RetryRefused(c, j)
        PROVE  DueInv'
    <2>1. PICK o : Return(c, o)
      BY <1>8 DEF CancelRefused, RetryRefused
    <2> QED
      BY <1>2, <1>3, <2>1, EndKeeps
  <1> QED
    BY <1>5, <1>6, <1>7, <1>8

LEMMA LookupKeepsDue ==
    ASSUME SysInv, SysInv', DueInv, UNCHANGED <<now, promoterVars>>,
           NEW c \in Callers, Lookup(c)
    PROVE  DueInv'
  <1>1. Effect
    BY NoEffect DEF Lookup, storeVars
  <1>2. call[c] \in CallRecord /\ call \in [Callers -> CallRecord]
    BY SysTypes DEF BackTypes, BackendTypeOK
  <1>3. CASE CallGoto(c, "create") /\ submitted' = submitted
    <2>1. /\ \A d \in Callers : d # c => call'[d] = call[d]
          /\ call'[c].pc = "create"
      BY <1>2, <1>3 DEF CallGoto, CallRecord
    <2>2. Ready(c)'
      BY <2>1 DEF Ready
    <2> QED
      BY <1>1, <1>3, <2>1, <2>2, RequestKeeps
  <1>4. ASSUME NEW j \in Jobs, Reply(c, j)
        PROVE  DueInv'
    <2>1. call[c].key # NoKey
      BY DEF Lookup, CallAt, DueInv, Ready
    <2>2. Return(c, "ok") /\ \A r \in submitted' : r \in submitted \/ r.key # NoKey
      BY <1>4, <2>1 DEF Reply
    <2>3. \A r \in submitted' : r \in submitted \/ Lasting(r)'
      BY <2>2 DEF Lasting
    <2> QED
      BY <1>1, <2>2, <2>3, EndKeeps
  <1>5. CASE Return(c, "storeError") /\ submitted' = submitted
    BY <1>1, <1>5, EndKeeps
  <1> QED
    BY <1>3, <1>4, <1>5 DEF Lookup

LEMMA CreateKeepsDue ==
    ASSUME SysInv, SysInv', DueInv, UNCHANGED <<now, promoterVars>>,
           NEW c \in Callers, Create(c)
    PROVE  DueInv'
  <1> DEFINE r == call[c]  s == FirstStatus(r.runAt)
  <1>1. /\ TypeOK /\ r \in CallRecord /\ call \in [Callers -> CallRecord]
        /\ r.work \in Work /\ r.runAt \in Nat /\ r.key \in Keys \cup {NoKey}
    BY SysTypes DEF BackTypes, BackendTypeOK, CallRecord
  <1>2. s \in Statuses /\ (r.runAt = 0 \/ s = "scheduled")
    BY <1>1 DEF FirstStatus, Statuses
  <1>3. submitted' = submitted /\ topic' = topic
    BY DEF Create
  <1>4. PICK j \in Jobs :
          /\ Fresh(j)
          /\ \/ /\ jobs' = Inserted(j, r.work, s, r.runAt, r.key)
                /\ call' = [call EXCEPT ![c].pc = "enqueue", ![c].job = j]
             \/ Return(c, "storeError") /\ jobs' = jobs
             \/ Return(c, "storeError") /\ jobs' = Inserted(j, r.work, s, r.runAt, r.key)
    BY DEF Create
  <1>5. jobs[j] = NoRow /\ ~Sent(j)
    BY <1>4 DEF Fresh, Sent
  <1>6. ASSUME jobs' = Inserted(j, r.work, s, r.runAt, r.key)
        PROVE  Effect /\ jobs'[j] # NoRow /\ jobs'[j].runAt = r.runAt
    <2> HIDE DEF r, s
    <2> QED
      BY <1>1, <1>2, <1>3, <1>5, <1>6, InsertEffect
  <1>7. CASE /\ jobs' = Inserted(j, r.work, s, r.runAt, r.key)
             /\ call' = [call EXCEPT ![c].pc = "enqueue", ![c].job = j]
    <2>1. /\ \A d \in Callers : d # c => call'[d] = call[d]
          /\ call'[c].pc = "enqueue" /\ call'[c].job = j /\ call'[c].runAt = r.runAt
      BY <1>1, <1>7 DEF CallRecord
    <2>2. Ready(c)'
      BY <1>6, <1>7, <2>1 DEF Ready
    <2> QED
      BY <1>3, <1>6, <1>7, <2>1, <2>2, RequestKeeps
  <1>8. CASE Return(c, "storeError") /\ jobs' = jobs
    BY <1>3, <1>8, NoEffect, EndKeeps
  <1>9. CASE Return(c, "storeError") /\ jobs' = Inserted(j, r.work, s, r.runAt, r.key)
    BY <1>3, <1>6, <1>9, EndKeeps
  <1> QED
    BY <1>4, <1>7, <1>8, <1>9

LEMMA EnqueueKeepsDue ==
    ASSUME SysInv, SysInv', DueInv, UNCHANGED <<now, promoterVars>>,
           NEW c \in Callers, Enqueue(c)
    PROVE  DueInv'
  <1> DEFINE r == call[c]  m == Request(r.job, r.work, 0, r.maxRetry)
  <1>1. /\ topic \in Seq(JobRequest) /\ r \in CallRecord /\ r.job \in Jobs /\ now \in Nat \ {0}
    BY SysTypes DEF BackTypes, BackendTypeOK, CallJobs, Enqueue, CallAt, ClockTypeOK
  <1>2. m \in JobRequest /\ m.job = r.job
    BY <1>1 DEF CallRecord, Request, JobRequest
  <1>3. jobs' = jobs /\ jobs[r.job] # NoRow /\ jobs[r.job].runAt = r.runAt
    BY DEF Enqueue, CallAt, storeVars, DueInv, Ready
  <1>9. PICK j \in Jobs : j = r.job
    BY <1>1
  <1> HIDE DEF m
  <1>4. ASSUME r.runAt <= now, EnqueueOk(m) \/ EnqueueError(m)
        PROVE  Effect
    <2>1. Grown(m)
      BY <1>1, <1>2, <1>4, EnqueueGrows
    <2> QED
      BY <1>1, <1>2, <1>3, <1>4, <2>1, SendEffect
  <1>5. ASSUME Reply(c, r.job), Effect, r.runAt > 0 \/ Sent(j)'
        PROVE  DueInv'
    <2>1. Return(c, "ok") /\ \A s \in submitted' : s \in submitted \/ s.job = r.job
      BY <1>5 DEF Reply
    <2>2. ASSUME NEW s \in submitted', s.job = j PROVE Lasting(s)'
      <3>1. Sent(j)' => Sent(s.job)'
        BY <2>2 DEF Sent
      <3> QED
        BY <1>3, <1>5, <1>9, <2>2, <3>1 DEF Lasting
    <2> QED
      BY <1>5, <1>9, <2>1, <2>2, EndKeeps
  <1>6. CASE r.runAt > now /\ Reply(c, r.job) /\ topic' = topic
    <2>1. r.runAt > 0
      BY <1>1, <1>6 DEF CallRecord
    <2> QED
      BY <1>3, <1>5, <1>6, <2>1, NoEffect
  <1>7. CASE r.runAt <= now /\ EnqueueOk(m) /\ Reply(c, r.job)
    <2>1. Sent(j)'
      BY <1>1, <1>2, <1>7, <1>9, OkSends
    <2> QED
      BY <1>4, <1>5, <1>7, <2>1
  <1>8. CASE /\ r.runAt <= now /\ EnqueueError(m)
             /\ Return(c, "brokerError") /\ submitted' = submitted
    BY <1>4, <1>8, EndKeeps
  <1> QED
    BY <1>6, <1>7, <1>8 DEF Enqueue, m

LEMMA CancelKeepsDue ==
    ASSUME SysInv, SysInv', DueInv, UNCHANGED <<now, promoterVars>>,
           NEW c \in Callers, CancelWrite(c)
    PROVE  DueInv'
  <1>1. TypeOK /\ call[c].job \in Jobs /\ "cancelled" \in Statuses /\ 0 \in Nat
    BY SysTypes DEF BackTypes, CallJobs, CancelWrite, CallAt, Statuses
  <1>2. /\ jobs' \in {jobs, Updated(call[c].job, "cancelled", 0)}
        /\ topic' = topic /\ submitted' = submitted
    BY DEF CancelWrite
  <1>3. Effect
    BY <1>1, <1>2, UpdateEffect
  <1>4. Return(c, "ok") \/ Return(c, "storeError")
    BY DEF CancelWrite
  <1> QED
    BY <1>2, <1>3, <1>4, EndKeeps

LEMMA RequeueKeepsDue ==
    ASSUME SysInv, SysInv', DueInv, UNCHANGED <<now, promoterVars>>,
           NEW c \in Callers, Requeue(c)
    PROVE  DueInv'
  <1>1. /\ topic \in Seq(JobRequest) /\ call[c] \in CallRecord /\ call \in [Callers -> CallRecord]
    BY SysTypes DEF BackTypes, BackendTypeOK
  <1>2. jobs' = jobs /\ submitted' = submitted
    BY DEF Requeue, storeVars
  <1>3. PICK j \in Jobs :
          LET m == Request(j, call[c].work, 0, 0) IN
          /\ Fresh(j)
          /\ \/ EnqueueOk(m) /\ call' = [call EXCEPT ![c].pc = "record", ![c].job = j]
             \/ EnqueueError(m) /\ Return(c, "brokerError")
    BY DEF Requeue
  <1> DEFINE m == Request(j, call[c].work, 0, 0)
  <1>4. m \in JobRequest /\ m.job = j
    BY <1>1 DEF CallRecord, Request, JobRequest
  <1>5. jobs[j] = NoRow /\ (EnqueueOk(m) \/ EnqueueError(m))
    BY <1>3 DEF Fresh
  <1> HIDE DEF m
  <1>6. Grown(m)
    BY <1>1, <1>4, <1>5, EnqueueGrows
  <1>7. Effect
    BY <1>1, <1>2, <1>4, <1>5, <1>6, SendEffect
  <1>8. CASE call' = [call EXCEPT ![c].pc = "record", ![c].job = j]
    <2>1. /\ \A d \in Callers : d # c => call'[d] = call[d]
          /\ call'[c].pc = "record"
      BY <1>1, <1>8 DEF CallRecord
    <2>2. Ready(c)'
      BY <2>1 DEF Ready
    <2> QED
      BY <1>2, <1>7, <2>1, <2>2, RequestKeeps
  <1>9. CASE Return(c, "brokerError")
    BY <1>2, <1>7, <1>9, EndKeeps
  <1> QED
    BY <1>3, <1>8, <1>9

LEMMA RecordKeepsDue ==
    ASSUME SysInv, SysInv', DueInv, UNCHANGED <<now, promoterVars>>,
           NEW c \in Callers, Record(c)
    PROVE  DueInv'
  <1> DEFINE r == call[c]
  <1>1. /\ TypeOK /\ r.job \in Jobs /\ r.work \in Work /\ jobs[r.job] = NoRow
        /\ "pending" \in Statuses /\ 0 \in Nat /\ NoKey \in Keys \cup {NoKey}
    BY SysTypes DEF BackTypes, BackendTypeOK, CallRecord, CallJobs, Record, CallAt, KeyInv,
                    Recording, Statuses
  <1>2. /\ jobs' = jobs \/ jobs' = Inserted(r.job, r.work, "pending", 0, NoKey)
        /\ topic' = topic /\ submitted' = submitted
    BY DEF Record
  <1>3. PICK o : Return(c, o)
    BY DEF Record
  <1> HIDE DEF r
  <1>4. Effect
    BY <1>1, <1>2, NoEffect, InsertEffect
  <1> QED
    BY <1>2, <1>3, <1>4, EndKeeps

LEMMA ApiKeepsDue ==
    ASSUME SysInv, SysInv', DueInv, BackendNext, UNCHANGED promoterVars
    PROVE  DueInv'
  <1>1. now' = now
    BY DEF BackendNext, Submit, Cancel, CancelRefused, RetryRefused, RetryArchived, CallStep,
           Lookup, Create, Enqueue, CancelWrite, Requeue, Record, SetQueuePaused, ApiCrash
  <1>2. ASSUME NEW c \in Callers, NEW w \in Offered, NEW n \in Budgets, NEW t \in RunAts,
               NEW k \in Keys \cup {NoKey}, Submit(c, w, n, t, k)
        PROVE  DueInv'
    BY <1>1, <1>2, BeginKeepsDue, ClientAssumption, BackendAssumption
  <1>3. ASSUME NEW c \in Callers, NEW j \in Jobs,
               \/ Cancel(c, j) \/ CancelRefused(c, j) \/ RetryRefused(c, j)
               \/ \E q \in Queues : RetryArchived(c, j, q)
        PROVE  DueInv'
    BY <1>1, <1>3, BeginKeepsDue
  <1>4. ASSUME NEW c \in Callers, CallStep(c)
        PROVE  DueInv'
    BY <1>1, <1>4, LookupKeepsDue, CreateKeepsDue, EnqueueKeepsDue, CancelKeepsDue,
       RequeueKeepsDue, RecordKeepsDue DEF CallStep
  <1>5. now <= now'
    BY <1>1, SysTypes DEF BackTypes, ClockTypeOK
  <1>6. ASSUME NEW q \in Queues, SetQueuePaused(q)
        PROVE  DueInv'
    <2>1. Effect /\ call' = call /\ submitted' = submitted
      BY <1>6, NoEffect DEF SetQueuePaused, apiVars
    <2> QED
      BY <1>5, <2>1, EffectKeeps DEF promoterVars
  <1>7. CASE ApiCrash
    <2>1. Effect /\ submitted' = submitted
      BY <1>7, NoEffect DEF ApiCrash, storeVars
    <2>2. \A c \in Callers : Ready(c)'
      BY <1>7 DEF ApiCrash, Ready, NoCall
    <2> QED
      BY <1>5, <2>1, <2>2, EffectKeeps DEF promoterVars
  <1> QED
    BY <1>2, <1>3, <1>4, <1>6, <1>7 DEF BackendNext

LEMMA SchedulerKeepsDue ==
    ASSUME SysInv, SysInv', DueInv, PromoterNext, UNCHANGED apiVars
    PROVE  DueInv'
  <1>1. /\ TypeOK /\ topic \in Seq(JobRequest) /\ now' = now /\ now \in Nat
        /\ PromoterTypeOK /\ now <= now'
        /\ call' = call /\ submitted' = submitted
    BY SysTypes
       DEF SysInv, BackTypes, ClockTypeOK, PromoterNext, ListDue, Promote, PromoteEnqueue,
           PromoteMark, PromoterCrash, apiVars
  <1>2. CASE ListDue
    <2>1. Effect /\ promoting' = promoting
      BY <1>2, NoEffect DEF ListDue, storeVars
    <2>2. ASSUME NEW d \in due'
          PROVE  Ripe(d)'
      <3>1. PICK j \in DueJobs : d = [job |-> j, work |-> jobs[j].work,
                                      attempt |-> jobs[j].attempt, runAt |-> jobs[j].runAt]
        BY <1>2, <2>2 DEF ListDue
      <3>2. d.job = j /\ d.runAt = jobs[j].runAt /\ jobs' = jobs
        BY <1>2, <3>1 DEF ListDue, storeVars
      <3> QED
        BY <1>1, <3>2 DEF Ripe, DueJobs
    <2> QED
      BY <1>1, <2>1, <2>2, EffectKeeps
  <1>3. ASSUME NEW d \in due, PromoteEnqueue(d)
        PROVE  DueInv'
    <2> DEFINE m == Request(d.job, d.work, 0, PromotedRetries)
    <2>1. d \in Listed /\ Ripe(d)
      BY <1>1 DEF PromoterTypeOK, DueInv
    <2>2. m \in JobRequest /\ m.job = d.job
      BY <2>1 DEF Listed, Request, JobRequest, PromotedRetries
    <2>3. /\ EnqueueOk(m) \/ EnqueueError(m)
          /\ jobs' = jobs /\ due' \subseteq due
          /\ promoting' = promoting \/ (promoting' = {d} /\ EnqueueOk(m))
      BY <1>3 DEF PromoteEnqueue, storeVars
    <2> HIDE DEF m
    <2>4. Effect
      BY <1>1, <2>1, <2>2, <2>3, EnqueueGrows, SendEffect DEF Ripe
    <2>5. promoting' = promoting \/ (promoting' = {d} /\ Sent(d.job)')
      BY <1>1, <2>2, <2>3, OkSends
    <2> QED
      BY <1>1, <2>3, <2>4, <2>5, EffectKeeps
  <1>4. ASSUME NEW d \in due, PromoteMark(d)
        PROVE  DueInv'
    <2>1. d \in Listed /\ promoting = {d} /\ due' \subseteq due /\ promoting' = {}
      BY <1>1, <1>4 DEF PromoterTypeOK, PromoteMark
    <2>2. d.job \in Jobs /\ d.attempt \in Nat /\ "pending" \in Statuses /\ Sent(d.job)
      BY <2>1 DEF Listed, Statuses, DueInv
    <2>3. jobs' \in {jobs, Updated(d.job, "pending", d.attempt)} /\ topic' = topic
      BY <1>4 DEF PromoteMark, UpdateStatus
    <2>4. Effect
      BY <1>1, <2>2, <2>3, UpdateEffect
    <2> QED
      BY <1>1, <2>1, <2>4, EffectKeeps
  <1>5. CASE PromoterCrash
    <2>1. Effect /\ due' = {} /\ promoting' = {}
      BY <1>5, NoEffect DEF PromoterCrash, storeVars
    <2> QED
      BY <1>1, <2>1, EffectKeeps
  <1> QED
    BY <1>2, <1>3, <1>4, <1>5 DEF PromoterNext, Promote

\* A goroutine works on a job that was sent.
LEMMA ReqSent ==
    ASSUME TypeOK, NEW g \in Goroutines, Busy(g)
    PROVE  Sent(Req(g).job)
  <1>1. proc[g].msg \in DOMAIN topic
    BY LenProperties DEF TypeOK, QueueTypeOK, WorkerTypeOK
  <1> QED
    BY <1>1 DEF Sent, Req

LEMMA WorkerKeepsDue ==
    ASSUME SysInv, SysInv', DueInv, WorkerNext, UNCHANGED <<now, apiVars, promoterVars>>
    PROVE  DueInv'
  <1>1. /\ TypeOK /\ topic \in Seq(JobRequest) /\ now <= now'
        /\ call' = call /\ submitted' = submitted /\ due' = due /\ promoting' = promoting
    BY SysTypes DEF BackTypes, ClockTypeOK, apiVars, promoterVars
  <1>2. ASSUME NEW g \in Goroutines, Busy(g), WritesRow(g)
        PROVE  Effect
    <2>1. PICK status \in Statuses, attempt \in Nat :
              jobs' \in {jobs, Updated(Req(g).job, status, attempt)}
      BY <1>2 DEF WritesRow
    <2>2. topic' = topic /\ Req(g).job \in Jobs /\ Sent(Req(g).job)
      BY <1>1, <1>2, ReqType, ReqSent DEF WritesRow
    <2> QED
      BY <1>1, <2>1, <2>2, UpdateEffect
  <1>3. ASSUME NEW g \in Goroutines, Busy(g), WritesMessage(g)
        PROVE  Effect
    <2>1. PICK m \in JobRequest : Grown(m) /\ m.job = Req(g).job
      BY <1>3 DEF WritesMessage
    <2>2. Sent(m.job)
      BY <1>1, <1>3, <2>1, ReqSent DEF Sent
    <2> QED
      BY <1>1, <1>3, <2>1, <2>2, SendEffect DEF WritesMessage
  <1>4. Effect
    BY <1>1, <1>2, <1>3, WorkerWrites, NoEffect
  <1> QED
    BY <1>1, <1>4, EffectKeeps

LEMMA DueStep == SysInv /\ DueInv /\ [DemoNext]_sysVars => DueInv'
  <1> SUFFICES ASSUME SysInv, DueInv, [DemoNext]_sysVars PROVE DueInv'
    OBVIOUS
  <1>0. SysInv'
    BY SysTypesStep
  <1>1. CASE UNCHANGED sysVars
    <2>1. /\ Effect /\ now' = now /\ call' = call /\ submitted' = submitted
          /\ due' = due /\ promoting' = promoting
      BY <1>1, NoEffect DEF sysVars, vars, apiVars, promoterVars
    <2>2. now <= now'
      BY <2>1, SysTypes DEF BackTypes, ClockTypeOK
    <2> QED
      BY <1>0, <2>1, <2>2, EffectKeeps
  <1>2. ASSUME NEW c \in Callers, NEW id \in Scenarios, HandleScenario(c, id)
        PROVE  DueInv'
    <2>1. PICK p \in Scenario(id, now) : Submit(c, WorkOf(p), p.maxRetry, p.runAt, NoKey)
      BY <1>2 DEF HandleScenario
    <2>2. now \in Nat
      BY SysTypes DEF BackTypes, ClockTypeOK
    <2>3. WorkOf(p) \in Work /\ p.maxRetry \in Nat /\ p.runAt \in Nat
      BY <2>2, ScenarioType
    <2>4. UNCHANGED <<now, promoterVars>>
      BY <1>2, <2>1 DEF HandleScenario, Submit
    <2> QED
      BY <1>0, <2>1, <2>3, <2>4, BeginKeepsDue
  <1>3. ASSUME NEW c \in Callers, NEW j \in Jobs, HandleReplay(c, j)
        PROVE  DueInv'
    <2>1. RetryRefused(c, j) \/ \E q \in Queues : RetryArchived(c, j, q)
      BY <1>3, DemoAssumption DEF HandleReplay
    <2>2. UNCHANGED <<now, promoterVars>>
      BY <1>3 DEF HandleReplay, RetryRefused, RetryArchived
    <2> QED
      BY <1>0, <2>1, <2>2, BeginKeepsDue
  <1>4. CASE ApiStep
    BY <1>0, <1>4, ApiKeepsDue DEF ApiStep
  <1>5. CASE SchedulerStep
    BY <1>0, <1>5, SchedulerKeepsDue DEF SchedulerStep
  <1>6. CASE WorkerStep
    BY <1>0, <1>6, WorkerKeepsDue DEF WorkerStep
  <1>7. CASE TimeStep
    <2>1. /\ Effect /\ call' = call /\ submitted' = submitted
          /\ due' = due /\ promoting' = promoting
      BY <1>7, NoEffect DEF TimeStep, storeVars, apiVars, promoterVars
    <2>2. now <= now'
      BY <1>7, SysTypes DEF TimeStep, Tick, BackTypes, ClockTypeOK
    <2> QED
      BY <1>0, <2>1, <2>2, EffectKeeps
  <1> QED
    BY <1>1, <1>2, <1>3, <1>4, <1>5, <1>6, <1>7 DEF DemoNext, SysNext

LEMMA DueInit == SysInit => DueInv
  <1> SUFFICES ASSUME SysInit PROVE DueInv
    OBVIOUS
  <1>1. /\ \A j \in Jobs : jobs[j] = NoRow
        /\ \A c \in Callers : call[c].pc = "idle"
        /\ due = {} /\ promoting = {} /\ submitted = {}
    BY DEF SysInit, StoreInit, BackendInit, NoCall, PromoterInit
  <1> QED
    BY <1>1 DEF DueInv, Left, Ready

LEMMA DueAlways == DemoSpec => [](SysInv /\ DueInv)
  BY SysTypesInit, SysTypesStep, DueInit, DueStep, PTL DEF DemoSpec

\* No delayed job is handed to the workers before its time, whoever submits,
\* retries, replays or promotes it and whatever fails.
THEOREM NeverBeforeDue == DemoSpec => []NotBeforeDue
  <1>1. SysInv /\ DueInv => NotBeforeDue
    <2> SUFFICES ASSUME SysInv, DueInv, NEW i \in DOMAIN topic, jobs[topic[i].job] # NoRow
                 PROVE  jobs[topic[i].job].runAt <= now
      BY DEF NotBeforeDue
    <2>1. PICK j \in Jobs : j = topic[i].job
      <3>1. topic \in Seq(JobRequest) /\ i \in 1 .. Len(topic)
        BY SysTypes, LenProperties DEF BackTypes
      <3>2. topic[i] \in JobRequest
        BY <3>1, ElementOfSeq
      <3>3. topic[i].job \in Jobs
        BY <3>2 DEF JobRequest
      <3> QED
        BY <3>3
    <2>2. Sent(j)
      BY <2>1 DEF Sent
    <2> QED
      BY <2>1, <2>2 DEF DueInv
  <1> QED
    BY <1>1, DueAlways, PTL

\* An acknowledged job is in the store, and is in the topic or waits for the
\* promoter or was cancelled, whatever fails before and after the answer.
THEOREM AcknowledgedIsDurable == DemoSpec => []SubmittedIsDurable
  <1>1. SysInv /\ DueInv => SubmittedIsDurable
    <2> SUFFICES ASSUME SysInv, DueInv, NEW r \in submitted, r.key = NoKey
                 PROVE  /\ jobs[r.job] # NoRow
                        /\ \/ Sent(r.job)
                           \/ /\ jobs[r.job].runAt > 0
                              /\ jobs[r.job].status \in {"scheduled", "cancelled"}
      BY DEF SubmittedIsDurable, Sent
    <2>1. r.job \in Jobs /\ Lasting(r) /\ Left(r.job)
      BY SysTypes DEF BackTypes, BackendTypeOK, DueInv
    <2> QED
      BY <2>1 DEF Lasting, Left
  <1> QED
    BY <1>1, DueAlways, PTL

----------------------------------------------------------------------------
(***************************************************************************)
(* Jobs that no component forgets.  When store and broker answer, no       *)
(* process dies, and clients submit jobs without a delay and cancel them,  *)
(* the invariant of NothingStranded holds for all jobs but those whose     *)
(* message a request still owes.  Each request is tame: it is no replay,   *)
(* asks for no delay, and owes a message only of a job that has its row.   *)
(***************************************************************************)
Undisturbed ==
    /\ FaultKinds \cap {"store", "broker", "crash", "apiCrash"} = {}
    /\ Operations \subseteq {"cancel"}
    /\ RunAts = {0}

Owes(c, j) == call[c].pc = "enqueue" /\ call[c].job = j
Owed == {j \in Jobs : \E c \in Callers : Owes(c, j)}

Tame(c) ==
    /\ call[c].pc \notin {"requeue", "record"}
    /\ call[c].runAt = 0
    /\ call[c].pc = "enqueue" =>
          jobs[call[c].job] # NoRow /\ jobs[call[c].job].work = call[c].work

NoDelays == \A j \in Jobs : jobs[j] # NoRow => jobs[j].runAt = 0

ForgetInv ==
    /\ Unhindered /\ NoDelays /\ due = {}
    /\ \A c \in Callers : Tame(c)
    /\ \E h \in Nat : Passed(h) /\ Held(h, Owed)

\* The workers' part of the invariant after a step of another component, for a
\* job whose row stays, or is settled, or is owed its message.
LEMMA HeldBeside ==
    ASSUME TypeOK, LogGrows, proc' = proc, NEW h \in 0 .. Len(topic), NEW But, Held(h, But),
           NEW j \in Jobs, jobs'[j] = jobs[j], j \notin But
    PROVE  jobs'[j] # NoRow /\ ~Settled(j)' => InFlight(j)' \/ After(h, j)'
  <1> SUFFICES ASSUME jobs'[j] # NoRow, ~Settled(j)' PROVE InFlight(j)' \/ After(h, j)'
    OBVIOUS
  <1>1. jobs[j] # NoRow /\ ~Settled(j)
    BY DEF Settled
  <1>2. CASE InFlight(j)
    <2>1. PICK g \in Goroutines : Moving(g) /\ Req(g).job = j
      BY <1>2 DEF InFlight, Moving
    <2> QED
      BY <2>1, FlightKept DEF LogGrows
  <1>3. CASE After(h, j)
    BY <1>3, AfterKept DEF LogGrows
  <1> QED
    BY <1>1, <1>2, <1>3 DEF Held

\* A step of one request c: it ends what c owes only by sending it.
LEMMA ForgetKeeps ==
    ASSUME SysInv, ForgetInv, NEW c \in Callers, UNCHANGED <<workerVars, paused, due>>,
           \A d \in Callers : d # c => call'[d] = call[d],
           Tame(c)', NoDelays',
           \A k \in Jobs : jobs[k] # NoRow => jobs'[k] # NoRow /\ jobs'[k].work = jobs[k].work,
           \A k \in Jobs : jobs'[k] = jobs[k] \/ Settled(k)' \/ Owes(c, k)',
           \/ topic' = topic /\ call[c].pc # "enqueue"
           \/ call[c].pc = "enqueue" /\ \E m \in JobRequest :
                 topic' = Append(topic, m) /\ m.job = call[c].job /\ m.work = call[c].work
    PROVE  ForgetInv'
  <1>1. TypeOK /\ topic \in Seq(JobRequest) /\ CallJobs
    BY SysTypes DEF BackTypes
  <1>2. PICK h \in Nat : Passed(h) /\ Held(h, Owed)
    BY DEF ForgetInv
  <1>3. h \in 0 .. Len(topic)
    BY <1>2 DEF Passed
  <1>4. LogGrows
    BY <1>1, LogStays, LogGains, AppendGrows
  <1>5. WorkAgrees'
    <2>1. CASE topic' = topic
      BY <1>1, <2>1, WorkKept DEF ForgetInv, Unhindered
    <2>2. ASSUME NEW m \in JobRequest, topic' = Append(topic, m),
                 m.job = call[c].job, m.work = call[c].work, call[c].pc = "enqueue"
          PROVE  WorkAgrees'
      <3>1. jobs[m.job] # NoRow /\ jobs[m.job].work = m.work /\ m.job \in Jobs
        BY <1>1, <2>2 DEF ForgetInv, Tame, CallJobs
      <3>2. Grown(m)
        BY <1>1, <2>2, AppendGrows
      <3> QED
        BY <1>1, <3>1, <3>2, WorkKept DEF ForgetInv, Unhindered
    <2> QED
      BY <2>1, <2>2
  <1>6. Unhindered'
    <2>1. proc' = proc /\ KeepsLog
      BY <1>4 DEF workerVars, LogGrows
    <2>2. Branched'
      BY <1>1, <2>1, MatchedKept DEF ForgetInv, Unhindered, Branched
    <2> QED
      BY <1>5, <2>2 DEF ForgetInv, Unhindered
  <1>7. \A d \in Callers : Tame(d)'
    <2> SUFFICES ASSUME NEW d \in Callers, d # c PROVE Tame(d)'
      OBVIOUS
    <2>1. Tame(d) /\ call'[d] = call[d]
      BY DEF ForgetInv
    <2>2. call[d].pc = "enqueue" => call[d].job \in Jobs
      BY <1>1 DEF CallJobs
    <2> QED
      BY <2>1, <2>2 DEF Tame
  <1>8. Passed(h)'
    BY <1>1, <1>2, <1>4, PassedStays DEF LogGrows, workerVars, Busy
  <1>9. Held(h, Owed)'
    <2> SUFFICES ASSUME NEW j \in Jobs, j \notin Owed', jobs'[j] # NoRow, ~Settled(j)'
                 PROVE  InFlight(j)' \/ After(h, j)'
      BY DEF Held
    <2>1. jobs'[j] = jobs[j]
      BY DEF Owed
    <2>2. CASE j \notin Owed
      BY <1>1, <1>2, <1>3, <1>4, <2>1, <2>2, HeldBeside DEF workerVars
    <2>3. CASE j \in Owed
      <3>1. Owes(c, j)
        BY <2>3 DEF Owed, Owes
      <3>2. PICK m \in JobRequest : topic' = Append(topic, m) /\ j = m.job
        BY <3>1 DEF Owes
      <3> QED
        BY <1>1, <1>3, <3>2, AfterGrown
    <2> QED
      BY <2>2, <2>3
  <1> QED
    BY <1>2, <1>6, <1>7, <1>8, <1>9 DEF ForgetInv

\* Submit, and the calls that end before they write.
LEMMA BeginForgets ==
    ASSUME SysInv, ForgetInv, NEW c \in Callers,
           UNCHANGED <<storeVars, topic, workerVars, promoterVars>>,
           \A d \in Callers : d # c => call'[d] = call[d],
           call[c].pc # "enqueue", call'[c].pc \in {"idle", "lookup", "create", "cancel"},
           call'[c].runAt = 0
    PROVE  ForgetInv'
  <1>1. jobs' = jobs /\ paused' = paused /\ due' = due
    BY DEF storeVars, promoterVars
  <1>2. Tame(c)' /\ NoDelays'
    BY <1>1 DEF Tame, NoDelays, ForgetInv
  <1> QED
    BY <1>1, <1>2, ForgetKeeps

\* A request that returns.
LEMMA ReturnIdle ==
    ASSUME SysInv, NEW c \in Callers, NEW o, Return(c, o)
    PROVE  /\ \A d \in Callers : d # c => call'[d] = call[d]
           /\ call'[c].pc = "idle" /\ call'[c].runAt = 0
  <1>1. BackTypes
    BY SysTypes
  <1> QED
    BY <1>1 DEF Return, NoCall, BackTypes, BackendTypeOK

LEMMA LookupForgets ==
    ASSUME SysInv, ForgetInv, NEW c \in Callers, Lookup(c),
           UNCHANGED <<workerVars, promoterVars>>
    PROVE  ForgetInv'
  <1>1. call \in [Callers -> CallRecord] /\ call[c].pc = "lookup" /\ call[c].runAt = 0
    BY SysTypes DEF BackTypes, BackendTypeOK, Lookup, CallAt, ForgetInv, Tame
  <1>2. UNCHANGED <<storeVars, topic>>
    BY DEF Lookup
  <1>3. CASE CallGoto(c, "create")
    <2>1. /\ \A d \in Callers : d # c => call'[d] = call[d]
          /\ call'[c].pc = "create" /\ call'[c].runAt = 0
      BY <1>1, <1>3 DEF CallGoto, CallRecord
    <2> QED
      BY <1>1, <1>2, <2>1, BeginForgets
  <1>4. ASSUME NEW o, Return(c, o)
        PROVE  ForgetInv'
    BY <1>1, <1>2, <1>4, ReturnIdle, BeginForgets
  <1> QED
    BY <1>3, <1>4 DEF Lookup, Reply

\* A new row makes its request owe the message.
LEMMA CreateForgets ==
    ASSUME Undisturbed, SysInv, ForgetInv, NEW c \in Callers, Create(c),
           UNCHANGED <<workerVars, promoterVars>>
    PROVE  ForgetInv'
  <1> DEFINE r == call[c]  s == FirstStatus(r.runAt)
  <1>1. /\ call \in [Callers -> CallRecord] /\ r \in CallRecord
        /\ r.pc = "create" /\ r.runAt = 0 /\ TypeOK
    BY SysTypes DEF BackTypes, BackendTypeOK, Create, CallAt, ForgetInv, Tame
  <1>2. UNCHANGED <<paused, outbox, topic>> /\ due' = due
    BY DEF Create, promoterVars
  <1>3. PICK j \in Jobs :
           /\ Fresh(j)
           /\ \/ /\ jobs' = Inserted(j, r.work, s, r.runAt, r.key)
                 /\ call' = [call EXCEPT ![c].pc = "enqueue", ![c].job = j]
              \/ Return(c, "storeError") /\ jobs' = jobs
    BY DEF Create, Fault, Undisturbed
  <1>4. CASE Return(c, "storeError") /\ jobs' = jobs
    BY <1>1, <1>2, <1>4, ReturnIdle, BeginForgets DEF storeVars
  <1>5. CASE /\ jobs' = Inserted(j, r.work, s, r.runAt, r.key)
             /\ call' = [call EXCEPT ![c].pc = "enqueue", ![c].job = j]
    <2>1. /\ \A d \in Callers : d # c => call'[d] = call[d]
          /\ call'[c].pc = "enqueue" /\ call'[c].job = j
          /\ call'[c].runAt = 0 /\ call'[c].work = r.work
      BY <1>1, <1>5 DEF CallRecord
    <2>2. jobs[j] = NoRow
      BY <1>3 DEF Fresh
    <2>3. /\ \A k \in Jobs \ {j} : jobs'[k] = jobs[k]
          /\ jobs'[j] = [work |-> r.work, status |-> s, attempt |-> 0,
                         runAt |-> r.runAt, key |-> r.key]
      BY <1>1, <1>5 DEF Inserted, TypeOK, StoreTypeOK
    <2>4. jobs'[j] # NoRow
      <3>1. jobs'[j] \in JobRecord
        BY <1>1, <2>3 DEF CallRecord, JobRecord, FirstStatus, Statuses
      <3> QED
        BY <3>1, StoreAssumption
    <2>5. jobs'[j].work = r.work /\ jobs'[j].runAt = 0
      BY <1>1, <2>3
    <2>6. Tame(c)'
      BY <2>1, <2>4, <2>5 DEF Tame
    <2>7. NoDelays'
      BY <2>3, <2>5 DEF NoDelays, ForgetInv
    <2>8. Owes(c, j)'
      BY <2>1 DEF Owes
    <2>9. /\ \A k \in Jobs : jobs[k] # NoRow => jobs'[k] # NoRow /\ jobs'[k].work = jobs[k].work
          /\ \A k \in Jobs : jobs'[k] = jobs[k] \/ Settled(k)' \/ Owes(c, k)'
      BY <2>2, <2>3, <2>8
    <2> QED
      BY <1>1, <1>2, <2>1, <2>6, <2>7, <2>9, ForgetKeeps
  <1> QED
    BY <1>3, <1>4, <1>5

\* Enqueue sends the message that was owed.
LEMMA EnqueueForgets ==
    ASSUME Undisturbed, SysInv, ForgetInv, NEW c \in Callers, Enqueue(c),
           UNCHANGED <<workerVars, promoterVars>>
    PROVE  ForgetInv'
  <1> DEFINE r == call[c]  m == Request(r.job, r.work, 0, r.maxRetry)
  <1>1. /\ r \in CallRecord /\ r.job \in Jobs /\ r.pc = "enqueue" /\ r.runAt = 0
        /\ now \in Nat
    BY SysTypes
       DEF BackTypes, BackendTypeOK, CallJobs, Enqueue, CallAt, ForgetInv, Tame, ClockTypeOK
  <1>2. m \in JobRequest /\ m.job = r.job /\ m.work = r.work
    BY <1>1 DEF CallRecord, Request, JobRequest
  <1>3. UNCHANGED storeVars /\ jobs' = jobs /\ paused' = paused /\ due' = due
    BY DEF Enqueue, storeVars, promoterVars
  <1>4. topic' = Append(topic, m) /\ Reply(c, r.job)
    BY <1>1 DEF Enqueue, EnqueueOk, EnqueueError, Fault, Undisturbed
  <1> HIDE DEF m
  <1>5. /\ \A d \in Callers : d # c => call'[d] = call[d]
        /\ call'[c].pc = "idle" /\ call'[c].runAt = 0
    BY <1>4, ReturnIdle DEF Reply
  <1>6. Tame(c)' /\ NoDelays'
    BY <1>3, <1>5 DEF Tame, NoDelays, ForgetInv
  <1> QED
    BY <1>1, <1>2, <1>3, <1>4, <1>5, <1>6, ForgetKeeps

\* A cancellation settles its job.
LEMMA CancelForgets ==
    ASSUME Undisturbed, SysInv, ForgetInv, NEW c \in Callers, CancelWrite(c),
           UNCHANGED <<workerVars, promoterVars>>
    PROVE  ForgetInv'
  <1>1. /\ TypeOK /\ call[c].pc = "cancel"
        /\ UNCHANGED <<paused, topic>> /\ due' = due
    BY SysTypes DEF CancelWrite, CallAt, promoterVars
  <1>2. PICK j \in Jobs : j = call[c].job
    BY <1>1, SysTypes DEF BackTypes, CallJobs
  <1>3. jobs' = Updated(j, "cancelled", 0) /\ Return(c, "ok")
    BY <1>2 DEF CancelWrite, Fault, Undisturbed
  <1>4. /\ \A d \in Callers : d # c => call'[d] = call[d]
        /\ call'[c].pc = "idle" /\ call'[c].runAt = 0
    BY <1>3, ReturnIdle
  <1>5. /\ "cancelled" \in Statuses /\ 0 \in Nat
        /\ \A k \in Jobs : jobs[k] # NoRow => jobs'[k] # NoRow /\ jobs'[k].work = jobs[k].work
        /\ \A k \in Jobs \ {j} : jobs'[k] = jobs[k]
    BY <1>1, <1>3, RowsKept, UpdatedRows DEF Statuses
  <1>6. jobs'[j] = jobs[j] \/ Settled(j)'
    <2>1. CASE jobs[j] = NoRow
      BY <1>3, <2>1 DEF Updated
    <2>2. CASE jobs[j] # NoRow
      <3>1. jobs'[j].status = "cancelled" /\ jobs'[j] # NoRow
        BY <1>1, <1>3, <1>5, <2>2, UpdatedRow
      <3> QED
        BY <3>1 DEF Settled
    <2> QED
      BY <2>1, <2>2
  <1>7. NoDelays'
    <2>1. jobs'[j] # NoRow => jobs'[j].runAt = 0
      <3>1. CASE jobs[j] = NoRow
        BY <1>3, <3>1 DEF Updated
      <3>2. CASE jobs[j] # NoRow
        <4>1. jobs' = [jobs EXCEPT ![j] = [jobs[j] EXCEPT !.status = "cancelled", !.attempt = 0]]
          BY <1>3, <3>2 DEF Updated
        <4>2. jobs[j] \in JobRecord /\ jobs[j].runAt = 0
          BY <1>1, <3>2 DEF TypeOK, StoreTypeOK, ForgetInv, NoDelays
        <4> QED
          BY <1>1, <4>1, <4>2 DEF TypeOK, StoreTypeOK, JobRecord
      <3> QED
        BY <3>1, <3>2
    <2> QED
      BY <1>5, <2>1 DEF NoDelays, ForgetInv
  <1>8. Tame(c)'
    BY <1>4 DEF Tame
  <1> QED
    BY <1>1, <1>4, <1>5, <1>6, <1>7, <1>8, ForgetKeeps

\* Every step of the backend.
LEMMA ApiForgets ==
    ASSUME Undisturbed, SysInv, ForgetInv, ApiStep
    PROVE  ForgetInv'
  <1>1. UNCHANGED <<workerVars, promoterVars>> /\ call \in [Callers -> CallRecord]
    BY SysTypes DEF ApiStep, BackTypes, BackendTypeOK
  <1>2. ASSUME NEW c \in Callers, NEW w \in Offered, NEW n \in Budgets, NEW t \in RunAts,
               NEW k \in Keys \cup {NoKey}, Submit(c, w, n, t, k)
        PROVE  ForgetInv'
    <2>1. /\ UNCHANGED <<storeVars, topic>>
          /\ \A d \in Callers : d # c => call'[d] = call[d]
          /\ call[c].pc = "idle" /\ call'[c].pc \in {"lookup", "create"}
          /\ call'[c].runAt = 0
      BY <1>1, <1>2 DEF Submit, CallAt, Undisturbed
    <2> QED
      BY <1>1, <2>1, BeginForgets
  <1>3. ASSUME NEW c \in Callers, NEW j \in Jobs, Cancel(c, j)
        PROVE  ForgetInv'
    <2>1. /\ UNCHANGED <<storeVars, topic>>
          /\ \A d \in Callers : d # c => call'[d] = call[d]
          /\ call[c].pc = "idle" /\ call'[c].pc = "cancel"
          /\ call'[c].runAt = call[c].runAt
      BY <1>1, <1>3 DEF Cancel, CallAt, CallRecord
    <2> QED
      BY <1>1, <2>1, BeginForgets DEF ForgetInv, Tame
  <1>4. ASSUME NEW c \in Callers, NEW j \in Jobs, CancelRefused(c, j)
        PROVE  ForgetInv'
    <2>1. UNCHANGED <<storeVars, topic>> /\ call[c].pc = "idle" /\ \E o : Return(c, o)
      BY <1>4 DEF CancelRefused, CallAt
    <2> QED
      BY <1>1, <2>1, ReturnIdle, BeginForgets
  <1>5. ASSUME NEW c \in Callers, CallStep(c)
        PROVE  ForgetInv'
    <2>1. ~Requeue(c) /\ ~Record(c)
      BY DEF Requeue, Record, CallAt, ForgetInv, Tame
    <2> QED
      BY <1>1, <1>5, <2>1, LookupForgets, CreateForgets, EnqueueForgets, CancelForgets
         DEF CallStep
  <1>6. ~ApiCrash /\ "retry" \notin Operations /\ "pause" \notin Operations
    BY DEF ApiCrash, Fault, Undisturbed
  <1> QED
    BY <1>2, <1>3, <1>4, <1>5, <1>6 DEF ApiStep, BackendNext

\* The workers leave requests and delays alone.
LEMMA WorkerForgets ==
    ASSUME Undisturbed, SysInv, ForgetInv, WorkerStep
    PROVE  ForgetInv'
  <1>1. /\ WorkerNext /\ TypeOK /\ call' = call /\ due' = due /\ NothingLost
        /\ CallJobs
    BY SysTypes DEF WorkerStep, apiVars, promoterVars, Undisturbed, NothingLost, BackTypes
  <1>2. PICK h \in Nat : Passed(h) /\ Held(h, Owed)
    BY DEF ForgetInv
  <1>3. Unhindered'
    BY <1>1, WorkerKeepsWork, BranchStep, PausedKept DEF Unhindered, ForgetInv
  <1>4. PICK But : But = Owed
    OBVIOUS
  <1>5. Held(h, But)
    BY <1>2, <1>4 DEF Held
  <1>6. PICK k \in Nat : Passed(k)' /\ Held(k, But)'
    BY <1>1, <1>2, <1>5, HeldStep DEF ForgetInv
  <1>7. Owed' = But
    BY <1>1, <1>4 DEF Owed, Owes
  <1>8. Held(k, Owed)'
    BY <1>6, <1>7 DEF Held
  <1>9. \A j \in Jobs :
           /\ jobs[j] # NoRow => jobs'[j] # NoRow /\ jobs'[j].work = jobs[j].work
           /\ jobs'[j] # NoRow => jobs[j] # NoRow /\ jobs'[j].runAt = jobs[j].runAt
    <2>1. CASE jobs' = jobs
      BY <2>1
    <2>2. ASSUME NEW g \in Goroutines, Busy(g), WritesRow(g)
          PROVE  \A j \in Jobs :
                    /\ jobs[j] # NoRow => jobs'[j] # NoRow /\ jobs'[j].work = jobs[j].work
                    /\ jobs'[j] # NoRow => jobs[j] # NoRow /\ jobs'[j].runAt = jobs[j].runAt
      <3>1. PICK a \in Jobs : a = Req(g).job
        BY <1>1, <2>2, ReqType
      <3>2. PICK status \in Statuses, attempt \in Nat :
                jobs' \in {jobs, Updated(a, status, attempt)}
        BY <2>2, <3>1 DEF WritesRow
      <3>3. \A j \in Jobs : jobs[j] # NoRow => jobs'[j] # NoRow /\ jobs'[j].work = jobs[j].work
        BY <1>1, <3>2, RowsKept
      <3>4. CASE jobs' = jobs \/ jobs[a] = NoRow
        BY <3>2, <3>4 DEF Updated
      <3>5. CASE jobs' # jobs /\ jobs[a] # NoRow
        <4>1. jobs' = [jobs EXCEPT ![a] = [jobs[a] EXCEPT !.status = status, !.attempt = attempt]]
          BY <3>2, <3>5 DEF Updated
        <4>2. jobs[a] \in JobRecord
          BY <1>1, <3>5 DEF TypeOK, StoreTypeOK
        <4>3. jobs'[a].runAt = jobs[a].runAt /\ \A j \in Jobs \ {a} : jobs'[j] = jobs[j]
          BY <1>1, <4>1, <4>2 DEF TypeOK, StoreTypeOK, JobRecord
        <4> QED
          BY <3>3, <3>5, <4>3
      <3> QED
        BY <3>4, <3>5
    <2> QED
      BY <1>1, <2>1, <2>2, WorkerWrites DEF WritesMessage
  <1>10. NoDelays'
    BY <1>9 DEF NoDelays, ForgetInv
  <1>11. \A c \in Callers : Tame(c)'
    BY <1>1, <1>9 DEF Tame, ForgetInv, CallJobs
  <1> QED
    BY <1>1, <1>3, <1>6, <1>8, <1>10, <1>11 DEF ForgetInv

\* Without delays the promoter has nothing to do.
LEMMA SchedulerForgets ==
    ASSUME ForgetInv, SchedulerStep \/ TimeStep \/ UNCHANGED sysVars
    PROVE  ForgetInv'
  <1>1. /\ UNCHANGED <<jobs, paused, topic, proc, cursor, committed, call>>
        /\ due' = {}
    <2>1. CASE SchedulerStep
      <3>1. ~ListDue
        BY DEF ListDue, FirstDue, DueJobs, ForgetInv, NoDelays
      <3>2. PromoterCrash
        BY <2>1, <3>1 DEF SchedulerStep, PromoterNext, Promote, ForgetInv
      <3> QED
        BY <2>1, <3>2 DEF SchedulerStep, PromoterCrash, storeVars, workerVars, apiVars
    <2>2. CASE TimeStep \/ UNCHANGED sysVars
      BY <2>2 DEF TimeStep, sysVars, vars, storeVars, workerVars, apiVars, promoterVars, ForgetInv
    <2> QED
      BY <2>1, <2>2
  <1>2. Unhindered' /\ NoDelays' /\ \A c \in Callers : Tame(c)'
    BY <1>1 DEF ForgetInv, Unhindered, WorkAgrees, Branched, Matched, At, Req, NoDelays, Tame
  <1>3. PICK h \in Nat : Passed(h) /\ Held(h, Owed)
    BY DEF ForgetInv
  <1>4. Passed(h)'
    BY <1>1, <1>3 DEF Passed, Busy
  <1>5. Held(h, Owed)'
    BY <1>1, <1>3 DEF Held, Settled, InFlight, After, Req, Owed, Owes
  <1> QED
    BY <1>1, <1>2, <1>3, <1>4, <1>5 DEF ForgetInv

LEMMA ForgetInit == SysInit => ForgetInv
  <1> SUFFICES ASSUME SysInit PROVE ForgetInv
    OBVIOUS
  <1>1. /\ Init /\ due = {}
        /\ \A j \in Jobs : jobs[j] = NoRow
        /\ \A c \in Callers : call[c].pc = "idle" /\ call[c].runAt = 0
    BY DEF SysInit, Init, StoreInit, BackendInit, NoCall, PromoterInit
  <1>2. PICK h \in Nat : Passed(h) /\ Held(h, {})
    BY <1>1, StrandInit DEF StrandInv
  <1>3. Unhindered /\ NoDelays /\ \A c \in Callers : Tame(c)
    BY <1>1, StrandInit DEF StrandInv, NoDelays, Tame
  <1>4. Held(h, Owed)
    BY <1>1 DEF Held
  <1> QED
    BY <1>1, <1>2, <1>3, <1>4 DEF ForgetInv

LEMMA ForgetStep ==
    ASSUME Undisturbed, SysInv, ForgetInv, [SysNext]_sysVars
    PROVE  ForgetInv'
  BY ApiForgets, WorkerForgets, SchedulerForgets DEF SysNext

\* While store and broker answer and no process dies, a job that is submitted
\* without a delay is never forgotten: a request, the topic or a goroutine has
\* it until it is settled, through cancellations, lost commits and rebalances.
THEOREM NothingForgotten == Undisturbed => (SysSpec => []NoJobForgotten)
  <1> SUFFICES ASSUME Undisturbed PROVE SysSpec => []NoJobForgotten
    OBVIOUS
  <1>1. SysInv /\ ForgetInv => NoJobForgotten
    <2> SUFFICES ASSUME SysInv, ForgetInv, NEW j \in Jobs, jobs[j] # NoRow, ~Settled(j)
                 PROVE  \/ InFlight(j) \/ Awaiting(j)
                        \/ \E c \in Callers : call[c].job = j /\ call[c].pc = "enqueue"
      BY DEF NoJobForgotten
    <2>1. PICK h \in Nat : Passed(h) /\ Held(h, Owed)
      BY DEF ForgetInv
    <2>2. CASE j \in Owed
      BY <2>2 DEF Owed, Owes
    <2>3. CASE j \notin Owed
      <3>1. PICK But : But = Owed
        OBVIOUS
      <3>2. Held(h, But) /\ j \in Jobs \ But
        BY <2>1, <2>3, <3>1 DEF Held
      <3> QED
        BY <2>1, <3>2, SysTypes, HeldIsHeld
    <2> QED
      BY <2>2, <2>3
  <1>2. SysInv /\ ForgetInv /\ [SysNext]_sysVars => ForgetInv'
    BY ForgetStep
  <1>3. SysInv /\ [SysNext]_sysVars => SysInv'
    BY SysTypesStep DEF DemoNext
  <1> QED
    BY <1>1, <1>2, <1>3, SysTypesInit, ForgetInit, PTL DEF SysSpec

----------------------------------------------------------------------------
(***************************************************************************)
(* The dashboard's promises.  When its user is the only client, in one     *)
(* queue, and no outside system refuses a handler, every row, message,     *)
(* call, listed row and goroutine follows the script: the work is that of  *)
(* a scenario, retries of B and D are counted in their messages as asked,  *)
(* and where process got to agrees with what the handler returns.          *)
(***************************************************************************)
OnlyTheUser ==
    /\ Offered = {}
    /\ Queues = {DemoQueue}
    /\ OutsideFails = FALSE

Scripted(w) ==
    /\ w \in Work
    /\ \/ w.type = "email" /\ w.payload = Sound
       \/ w.type = "invoice" /\ w.payload = FailingAt(1)
       \/ w.type = "report" /\ w.payload = ToOutside
       \/ w.type = "image" /\ w.payload = Blank
       \/ w.type = "sleep" /\ w.payload = Sound

\* The attempt at which a job that does not fail for good is completed.
EndAttempt(w) == IF w.type = "invoice" THEN 1 ELSE 0

RowScripted(j) ==
    /\ jobs[j] = NoRow => asked[j] = 0
    /\ jobs[j] # NoRow =>
          /\ Scripted(jobs[j].work)
          /\ jobs[j].runAt > 0 => jobs[j].work.type = "report"
          /\ jobs[j].status = "completed" =>
                jobs[j].work.type # "image" /\ jobs[j].attempt = EndAttempt(jobs[j].work)
          /\ jobs[j].status = "archived" =>
                jobs[j].work.type = "image" /\ jobs[j].attempt = asked[j] + 1

InBudget(m, n) ==
    /\ Scripted(m.work)
    /\ m.work.type = "image" => m.attempt <= m.maxRetry /\ m.maxRetry = n
    /\ m.work.type = "invoice" => m.attempt <= 1 /\ m.maxRetry = 2
    /\ m.work.type \notin {"image", "invoice"} => m.attempt = 0

SentScripted(i) ==
    /\ InBudget(topic[i], asked[topic[i].job])
    /\ jobs[topic[i].job] # NoRow => jobs[topic[i].job].work = topic[i].work

CallScripted(c) ==
    /\ call[c].pc # "lookup"
    /\ call[c].pc \in {"create", "enqueue", "requeue", "record"} => Scripted(call[c].work)
    /\ call[c].pc \in {"create", "enqueue"} =>
          /\ call[c].work.type = "invoice" => call[c].maxRetry = 2
          /\ call[c].runAt > 0 => call[c].work.type = "report"
    /\ call[c].pc = "enqueue" =>
          /\ jobs[call[c].job] # NoRow /\ jobs[call[c].job].work = call[c].work
          /\ asked[call[c].job] = call[c].maxRetry
    /\ call[c].pc \in {"requeue", "record"} => call[c].work.type = "image"
    /\ call[c].pc = "record" =>
          \A i \in DOMAIN topic : topic[i].job = call[c].job => topic[i].work = call[c].work

DueScripted(d) ==
    /\ jobs[d.job] # NoRow /\ jobs[d.job].work = d.work
    /\ Scripted(d.work) /\ d.work.type = "report"

\* A goroutine that is about to make the call pc on message m.
FitsScript(pc, m) ==
    /\ pc # "reject"
    /\ pc = "handle" => m.work.type # "email"
    /\ pc \in {"complete", "outbox"} =>
          m.work.type # "image" /\ m.attempt = EndAttempt(m.work)
    /\ pc \in {"fail", "retry", "archive"} =>
          m.work.type = "image" \/ (m.work.type = "invoice" /\ m.attempt = 0)
    /\ pc = "retry" => HasRetryLeft(m)
    /\ pc = "archive" => ~HasRetryLeft(m)

GoesByScript(g) == Busy(g) => FitsScript(proc[g].pc, Req(g))

ScriptInv ==
    /\ \A j \in Jobs : RowScripted(j)
    /\ \A i \in DOMAIN topic : SentScripted(i)
    /\ \A c \in Callers : CallScripted(c)
    /\ \A d \in due : DueScripted(d)
    /\ \A g \in Goroutines : GoesByScript(g)

RowsStay ==
    \A j \in Jobs :
        /\ jobs[j] # NoRow => jobs'[j] # NoRow /\ jobs'[j].work = jobs[j].work
        /\ jobs[j] # NoRow \/ Sent(j) => asked'[j] = asked[j]
        /\ jobs[j] = NoRow /\ jobs'[j] # NoRow =>
              \A i \in DOMAIN topic : topic[i].job = j => topic[i].work = jobs'[j].work

\* What is in the topic and who works on it, as far as the script needs it.
LEMMA ScriptTypes ==
    ASSUME SysInv
    PROVE  /\ TypeOK /\ BackTypes /\ CallJobs /\ topic \in Seq(JobRequest) /\ Len(topic) \in Nat
           /\ DOMAIN topic = 1 .. Len(topic)
           /\ \A i \in DOMAIN topic : topic[i] \in JobRequest /\ topic[i].job \in Jobs
           /\ call \in [Callers -> CallRecord]
           /\ asked \in [Jobs -> Nat]
           /\ \A j \in Jobs : jobs[j] # NoRow => jobs[j] \in JobRecord
           /\ \A c \in Callers : call[c].pc = "record" => jobs[call[c].job] = NoRow
           /\ \A d \in due : d \in Listed /\ d.job \in Jobs
  <1>1. TypeOK /\ BackTypes /\ topic \in Seq(JobRequest) /\ KeyInv /\ PromoterTypeOK
    BY SysTypes DEF SysInv
  <1>2. /\ Len(topic) \in Nat /\ DOMAIN topic = 1 .. Len(topic)
        /\ \A i \in DOMAIN topic : topic[i] \in JobRequest
    BY <1>1, LenProperties, ElementOfSeq
  <1>3. \A i \in DOMAIN topic : topic[i].job \in Jobs
    BY <1>2 DEF JobRequest
  <1>4. \A c \in Callers : call[c].pc = "record" => jobs[call[c].job] = NoRow
    BY <1>1 DEF KeyInv, Recording
  <1>5. \A d \in due : d \in Listed /\ d.job \in Jobs
    BY <1>1 DEF PromoterTypeOK, Listed
  <1> QED
    BY <1>1, <1>2, <1>3, <1>4, <1>5 DEF BackTypes, BackendTypeOK, StoreTypeOK

\* What a step must leave, and what it must make of what is new.
LEMMA ScriptKeeps ==
    ASSUME SysInv, ScriptInv, LogGrows, RowsStay,
           \A j \in Jobs : RowScripted(j)',
           \A i \in DOMAIN topic' : i \in DOMAIN topic \/ SentScripted(i)',
           \A c \in Callers : call[c].pc = "record" =>
               \A i \in DOMAIN topic' :
                   i \in DOMAIN topic \/ topic'[i].job # call[c].job
                                      \/ topic'[i].work = call[c].work,
           \A c \in Callers : call'[c] = call[c] \/ CallScripted(c)',
           \A d \in due' : d \in due \/ DueScripted(d)',
           \A g \in Goroutines : proc'[g] = proc[g] \/ GoesByScript(g)'
    PROVE  ScriptInv'
  <1>1. /\ TypeOK /\ CallJobs /\ DOMAIN topic = 1 .. Len(topic) /\ KeepsLog
        /\ \A i \in DOMAIN topic : topic[i].job \in Jobs
        /\ \A d \in due : d.job \in Jobs
        /\ \A i \in DOMAIN topic : topic'[i] = topic[i]
    BY ScriptTypes DEF LogGrows, KeepsLog
  <1>2. ASSUME NEW i \in DOMAIN topic'
        PROVE  SentScripted(i)'
    <2>1. CASE i \in DOMAIN topic
      <3>1. PICK j \in Jobs : j = topic[i].job
        BY <1>1, <2>1
      <3>2. topic'[i] = topic[i] /\ SentScripted(i) /\ Sent(j)
        BY <1>1, <2>1, <3>1 DEF ScriptInv, Sent
      <3>3. asked'[j] = asked[j] /\ (jobs'[j] # NoRow => jobs'[j].work = topic[i].work)
        BY <2>1, <3>1, <3>2 DEF RowsStay, SentScripted
      <3> QED
        BY <3>1, <3>2, <3>3 DEF SentScripted, InBudget, Scripted
    <2> QED
      BY <2>1
  <1>3. ASSUME NEW c \in Callers
        PROVE  CallScripted(c)'
    <2>1. CASE call'[c] = call[c]
      <3>1. CallScripted(c)
        BY DEF ScriptInv
      <3>2. call[c].pc = "enqueue" =>
                /\ jobs'[call[c].job] # NoRow /\ jobs'[call[c].job].work = call[c].work
                /\ asked'[call[c].job] = call[c].maxRetry
        BY <1>1, <3>1 DEF CallJobs, RowsStay, CallScripted
      <3>3. call[c].pc = "record" =>
                \A i \in DOMAIN topic' : topic'[i].job = call[c].job => topic'[i].work = call[c].work
        BY <1>1, <3>1 DEF CallScripted
      <3> QED
        BY <2>1, <3>1, <3>2, <3>3 DEF CallScripted, Scripted
    <2> QED
      BY <2>1
  <1>4. ASSUME NEW d \in due'
        PROVE  DueScripted(d)'
    <2>1. CASE d \in due
      BY <1>1, <2>1 DEF ScriptInv, DueScripted, RowsStay, Scripted
    <2> QED
      BY <2>1
  <1>5. ASSUME NEW g \in Goroutines
        PROVE  GoesByScript(g)'
    <2>1. CASE proc'[g] = proc[g] /\ Busy(g)
      <3>1. Req(g)' = Req(g) /\ GoesByScript(g)
        BY <1>1, <2>1, ReqKept DEF ScriptInv
      <3> QED
        BY <2>1, <3>1 DEF GoesByScript, Busy, FitsScript, HasRetryLeft, NextAttempt, EndAttempt
    <2>2. CASE proc'[g] = proc[g] /\ ~Busy(g)
      BY <2>2 DEF Busy, GoesByScript
    <2> QED
      BY <2>1, <2>2
  <1> QED
    BY <1>2, <1>3, <1>4, <1>5 DEF ScriptInv

\* A step that writes neither rows nor messages.
LEMMA ScriptQuiet ==
    ASSUME SysInv, ScriptInv, jobs' = jobs, topic' = topic, asked' = asked,
           \A c \in Callers : call'[c] = call[c] \/ CallScripted(c)',
           \A d \in due' : d \in due \/ DueScripted(d)',
           \A g \in Goroutines : proc'[g] = proc[g] \/ GoesByScript(g)'
    PROVE  ScriptInv'
  <1>1. LogGrows /\ RowsStay
    BY ScriptTypes, LogStays DEF RowsStay
  <1>2. \A j \in Jobs : RowScripted(j)'
    BY DEF ScriptInv, RowScripted, Scripted, EndAttempt
  <1> QED
    BY <1>1, <1>2, ScriptKeeps

\* A status that the script allows job j to get.
Allowed(j, status, attempt) ==
    jobs[j] # NoRow =>
        /\ status = "completed" =>
              jobs[j].work.type # "image" /\ attempt = EndAttempt(jobs[j].work)
        /\ status = "archived" =>
              jobs[j].work.type = "image" /\ attempt = asked[j] + 1

LEMMA ScriptWrites ==
    ASSUME SysInv, ScriptInv, topic' = topic, asked' = asked,
           NEW j \in Jobs, NEW status \in Statuses, NEW attempt \in Nat,
           jobs' \in {jobs, Updated(j, status, attempt)}, Allowed(j, status, attempt),
           \A c \in Callers : call'[c] = call[c] \/ CallScripted(c)',
           due' \subseteq due,
           \A g \in Goroutines : proc'[g] = proc[g] \/ GoesByScript(g)'
    PROVE  ScriptInv'
  <1>1. CASE jobs' = jobs \/ jobs[j] = NoRow
    BY <1>1, ScriptQuiet DEF Updated
  <1>2. CASE jobs[j] # NoRow /\ jobs' = Updated(j, status, attempt)
    <2>1. jobs[j] \in JobRecord /\ TypeOK /\ topic \in Seq(JobRequest)
      BY <1>2, ScriptTypes
    <2> DEFINE new == [jobs[j] EXCEPT !.status = status, !.attempt = attempt]
    <2>2. /\ new \in JobRecord /\ new.work = jobs[j].work /\ new.runAt = jobs[j].runAt
          /\ new.status = status /\ new.attempt = attempt
      BY <2>1 DEF JobRecord
    <2>3. new # NoRow
      BY <2>2, StoreAssumption
    <2>4. \A k \in Jobs : jobs'[k] = IF k = j THEN new ELSE jobs[k]
      BY <1>2, <2>1 DEF Updated, TypeOK, StoreTypeOK
    <2> HIDE DEF new
    <2>5. RowsStay
      BY <1>2, <2>2, <2>3, <2>4 DEF RowsStay
    <2>6. ASSUME NEW k \in Jobs PROVE RowScripted(k)'
      <3>1. RowScripted(k)
        BY DEF ScriptInv
      <3>2. CASE k = j
        BY <1>2, <2>2, <2>3, <2>4, <3>1, <3>2 DEF RowScripted, Scripted, EndAttempt, Allowed
      <3>3. CASE k # j
        BY <2>4, <3>1, <3>3 DEF RowScripted, Scripted, EndAttempt
      <3> QED
        BY <3>2, <3>3
    <2> QED
      BY <2>1, <2>5, <2>6, LogStays, ScriptKeeps
  <1> QED
    BY <1>1, <1>2

\* A message that is sent for a job that has its row, or repeats one that is
\* there, or is the first of a job that nobody knows.
LEMMA ScriptSends ==
    ASSUME SysInv, ScriptInv, jobs' = jobs, asked' = asked,
           NEW m \in JobRequest, Grown(m), InBudget(m, asked[m.job]),
           \/ jobs[m.job] # NoRow /\ jobs[m.job].work = m.work
           \/ \E i \in DOMAIN topic : topic[i].job = m.job /\ topic[i].work = m.work
           \/ Fresh(m.job),
           \A c \in Callers : call'[c] = call[c] \/ CallScripted(c)',
           due' \subseteq due,
           \A g \in Goroutines : proc'[g] = proc[g] \/ GoesByScript(g)'
    PROVE  ScriptInv'
  <1>1. LogGrows /\ RowsStay
    BY LogGains DEF RowsStay
  <1>2. \A j \in Jobs : RowScripted(j)'
    BY DEF ScriptInv, RowScripted, Scripted, EndAttempt
  <1>3. /\ DOMAIN topic = 1 .. Len(topic) /\ Len(topic) \in Nat
        /\ DOMAIN topic' = 1 .. Len(topic') /\ Len(topic') \in Nat
    BY ScriptTypes, LenProperties DEF Grown
  <1>4. \A i \in DOMAIN topic' : i \in DOMAIN topic \/ topic'[i] = m
    BY <1>3 DEF Grown
  <1>5. jobs[m.job] # NoRow => jobs[m.job].work = m.work
    BY DEF ScriptInv, SentScripted, Fresh
  <1>6. ASSUME NEW i \in DOMAIN topic', topic'[i] = m PROVE SentScripted(i)'
    BY <1>5, <1>6 DEF SentScripted, InBudget, Scripted
  <1>7. ASSUME NEW c \in Callers, call[c].pc = "record", m.job = call[c].job
        PROVE  m.work = call[c].work
    <2>1. jobs[m.job] = NoRow /\ ~Fresh(m.job)
      BY <1>7, ScriptTypes DEF Fresh
    <2> QED
      BY <1>7, <2>1 DEF ScriptInv, CallScripted
  <1> QED
    BY <1>1, <1>2, <1>4, <1>6, <1>7, ScriptKeeps

----------------------------------------------------------------------------
(***************************************************************************)
(* The user and the API.                                                   *)
(***************************************************************************)
\* What a scenario posts follows the script.
LEMMA ScenarioScripted ==
    ASSUME NEW id, NEW p \in Scenario(id, now), now \in Nat
    PROVE  /\ Scripted(WorkOf(p))
           /\ WorkOf(p).type = "invoice" => p.maxRetry = 2
           /\ p.runAt > 0 => WorkOf(p).type = "report"
  <1>1. WorkOf(p) \in Work
    BY ScenarioType
  <1>2. \/ p = Post("email", Sound, 0, 0)
        \/ p = Post("invoice", FailingAt(1), 2, 0)
        \/ p = Post("report", ToOutside, 0, now + Delay)
        \/ p = Post("image", Blank, 2, 0)
        \/ p = Post("sleep", Sound, 0, 0)
    BY DEF Scenario, Plain
  <1> QED
    BY <1>1, <1>2 DEF Post, WorkOf, Scripted

\* A request of which the script says nothing.
LEMMA AtEase ==
    ASSUME NEW c \in Callers, call'[c].pc \in {"idle", "cancel"}
    PROVE  CallScripted(c)'
  BY DEF CallScripted

LEMMA BeginScripted ==
    ASSUME OnlyTheUser, SysInv, ScriptInv, UNCHANGED <<workerVars, promoterVars>>,
           NEW c \in Callers, NEW j \in Jobs,
           \/ Cancel(c, j) \/ CancelRefused(c, j) \/ RetryRefused(c, j)
           \/ \E q \in Queues : RetryArchived(c, j, q)
    PROVE  ScriptInv'
  <1>1. call \in [Callers -> CallRecord] /\ BackTypes
    BY ScriptTypes
  <1>2. jobs' = jobs /\ topic' = topic /\ asked' = asked /\ due' = due /\ proc' = proc
    BY DEF Cancel, CancelRefused, RetryRefused, RetryArchived, storeVars, workerVars,
           promoterVars
  <1>3. \A d \in Callers : call'[d] = call[d] \/ CallScripted(d)'
    <2>1. CASE Cancel(c, j)
      <3>1. \A d \in Callers : call'[d] = call[d] \/ (d = c /\ call'[d].pc = "cancel")
        BY <1>1, <2>1 DEF Cancel, CallRecord
      <3> QED
        BY <3>1, AtEase
    <2>2. CASE CancelRefused(c, j) \/ RetryRefused(c, j)
      <3>1. PICK o : Return(c, o)
        BY <2>2 DEF CancelRefused, RetryRefused
      <3>2. \A d \in Callers : call'[d] = call[d] \/ (d = c /\ call'[d].pc = "idle")
        BY <1>1, <3>1, ReturnQuiet
      <3> QED
        BY <3>2, AtEase
    <2>3. ASSUME NEW q \in Queues, RetryArchived(c, j, q)
          PROVE  \A d \in Callers : call'[d] = call[d] \/ CallScripted(d)'
      <3>1. /\ jobs[j] # NoRow /\ jobs[j].status = "archived"
            /\ call' = [call EXCEPT ![c].pc = "requeue", ![c].job = j,
                                    ![c].work = [jobs[j].work EXCEPT !.queue = q]]
        BY <2>3 DEF RetryArchived
      <3>2. Scripted(jobs[j].work) /\ jobs[j].work.type = "image"
        BY <3>1 DEF ScriptInv, RowScripted
      <3> DEFINE w == [jobs[j].work EXCEPT !.queue = q]
      <3>3. w.type = jobs[j].work.type /\ w.payload = jobs[j].work.payload /\ w \in Work
        BY <3>2 DEF Scripted, Work
      <3>4. Scripted(w) /\ w.type = "image"
        BY <3>2, <3>3 DEF Scripted
      <3>5. /\ \A d \in Callers : d # c => call'[d] = call[d]
            /\ call'[c].pc = "requeue" /\ call'[c].work = w
        BY <1>1, <3>1 DEF CallRecord
      <3> HIDE DEF w
      <3>6. CallScripted(c)'
        BY <3>4, <3>5 DEF CallScripted, Scripted
      <3> QED
        BY <3>5, <3>6
    <2> QED
      BY <2>1, <2>2, <2>3
  <1> QED
    BY <1>2, <1>3, ScriptQuiet

LEMMA ScenarioSubmitted ==
    ASSUME SysInv, ScriptInv, NEW c \in Callers, NEW id \in Scenarios, HandleScenario(c, id)
    PROVE  ScriptInv'
  <1>1. PICK p \in Scenario(id, now) : Submit(c, WorkOf(p), p.maxRetry, p.runAt, NoKey)
    BY DEF HandleScenario
  <1>2. /\ Scripted(WorkOf(p)) /\ (WorkOf(p).type = "invoice" => p.maxRetry = 2)
        /\ p.runAt > 0 => WorkOf(p).type = "report"
    BY ScriptTypes, ScenarioScripted DEF BackTypes, ClockTypeOK
  <1> DEFINE w == WorkOf(p)
  <1>3. /\ jobs' = jobs /\ topic' = topic /\ asked' = asked /\ due' = due /\ proc' = proc
        /\ \A d \in Callers : d # c => call'[d] = call[d]
        /\ call'[c].pc = "create" /\ call'[c].work = w
        /\ call'[c].maxRetry = p.maxRetry /\ call'[c].runAt = p.runAt
    BY <1>1, ScriptTypes DEF HandleScenario, Submit, storeVars, workerVars, promoterVars
  <1> HIDE DEF w
  <1>4. CallScripted(c)'
    BY <1>2, <1>3 DEF CallScripted, Scripted, w
  <1> QED
    BY <1>3, <1>4, ScriptQuiet

\* A new row, of a job that is unknown or whose message went out before it.
LEMMA ScriptInserts ==
    ASSUME SysInv, ScriptInv, topic' = topic, NEW j \in Jobs, jobs[j] = NoRow,
           NEW w \in Work, NEW status \in {"pending", "scheduled"}, NEW runAt \in Nat,
           NEW key \in Keys \cup {NoKey}, jobs' = Inserted(j, w, status, runAt, key),
           Scripted(w), runAt > 0 => w.type = "report",
           \A i \in DOMAIN topic : topic[i].job = j => topic[i].work = w,
           \A k \in Jobs : k # j \/ Sent(k) => asked'[k] = asked[k],
           \A c \in Callers : call'[c] = call[c] \/ CallScripted(c)',
           UNCHANGED <<workerVars, promoterVars>>
    PROVE  /\ ScriptInv'
           /\ jobs'[j] # NoRow /\ jobs'[j].work = w
  <1> DEFINE row == [work |-> w, status |-> status, attempt |-> 0, runAt |-> runAt, key |-> key]
  <1>1. row \in JobRecord /\ row.work = w /\ row.runAt = runAt /\ row.status = status
    BY DEF JobRecord, Statuses
  <1>2. row # NoRow
    BY <1>1, StoreAssumption
  <1>3. \A k \in Jobs : jobs'[k] = IF k = j THEN row ELSE jobs[k]
    BY ScriptTypes DEF Inserted, TypeOK, StoreTypeOK
  <1> HIDE DEF row
  <1>4. RowsStay
    BY <1>1, <1>2, <1>3 DEF RowsStay
  <1>5. ASSUME NEW k \in Jobs PROVE RowScripted(k)'
    <2>1. CASE k = j
      BY <1>1, <1>2, <1>3, <2>1 DEF RowScripted, Scripted
    <2>2. CASE k # j
      BY <1>3, <2>2 DEF RowScripted, Scripted, EndAttempt, ScriptInv
    <2> QED
      BY <2>1, <2>2
  <1>6. LogGrows /\ due' = due /\ proc' = proc
    BY ScriptTypes, LogStays DEF workerVars, promoterVars
  <1> QED
    BY <1>1, <1>2, <1>3, <1>4, <1>5, <1>6, ScriptKeeps

LEMMA CreateScripted ==
    ASSUME SysInv, ScriptInv, NEW c \in Callers, Create(c), UNCHANGED <<workerVars, promoterVars>>
    PROVE  ScriptInv'
  <1> DEFINE r == call[c]  s == FirstStatus(r.runAt)
  <1>1. /\ r \in CallRecord /\ call \in [Callers -> CallRecord] /\ BackTypes
        /\ r.work \in Work /\ r.runAt \in Nat /\ r.key \in Keys \cup {NoKey}
        /\ asked \in [Jobs -> Nat] /\ r.maxRetry \in Nat
    BY ScriptTypes DEF CallRecord
  <1>2. /\ s \in {"pending", "scheduled"} /\ Scripted(r.work)
        /\ r.work.type = "invoice" => r.maxRetry = 2
        /\ r.runAt > 0 => r.work.type = "report"
    BY DEF FirstStatus, Create, CallAt, ScriptInv, CallScripted
  <1>3. topic' = topic /\ due' = due /\ proc' = proc
    BY DEF Create, workerVars, promoterVars
  <1>4. PICK j \in Jobs :
          /\ Fresh(j)
          /\ \/ /\ jobs' = Inserted(j, r.work, s, r.runAt, r.key)
                /\ asked' = [asked EXCEPT ![j] = r.maxRetry]
                /\ call' = [call EXCEPT ![c].pc = "enqueue", ![c].job = j]
             \/ Return(c, "storeError") /\ jobs' = jobs /\ asked' = asked
             \/ /\ Return(c, "storeError") /\ jobs' = Inserted(j, r.work, s, r.runAt, r.key)
                /\ asked' \in {asked, [asked EXCEPT ![j] = r.maxRetry]}
    <2>1. PICK j \in Jobs :
            LET new == Inserted(j, r.work, s, r.runAt, r.key) IN
            /\ Fresh(j)
            /\ \/ /\ jobs' = new
                  /\ asked' = [asked EXCEPT ![j] = r.maxRetry]
                  /\ call' = [call EXCEPT ![c].pc = "enqueue", ![c].job = j]
               \/ Return(c, "storeError") /\ jobs' = jobs /\ asked' = asked
               \/ /\ jobs' \in {jobs, new}
                  /\ asked' = IF jobs' = jobs THEN asked ELSE [asked EXCEPT ![j] = r.maxRetry]
                  /\ Return(c, "storeError")
      BY Zenon DEF Create
    <2> QED
      BY <2>1, Zenon
  <1>5. jobs[j] = NoRow /\ ~Sent(j) /\ \A i \in DOMAIN topic : topic[i].job # j
    BY <1>4 DEF Fresh, Sent
  <1>6. ASSUME asked' \in {asked, [asked EXCEPT ![j] = r.maxRetry]}
        PROVE  \A k \in Jobs : k # j \/ Sent(k) => asked'[k] = asked[k]
    BY <1>1, <1>5, <1>6
  <1>7. ASSUME Return(c, "storeError")
        PROVE  \A d \in Callers : call'[d] = call[d] \/ CallScripted(d)'
    BY <1>1, <1>7, ReturnQuiet, AtEase
  <1>8. CASE /\ jobs' = Inserted(j, r.work, s, r.runAt, r.key)
             /\ asked' = [asked EXCEPT ![j] = r.maxRetry]
             /\ call' = [call EXCEPT ![c].pc = "enqueue", ![c].job = j]
    <2>1. /\ \A d \in Callers : d # c => call'[d] = call[d]
          /\ call'[c].pc = "enqueue" /\ call'[c].job = j /\ call'[c].runAt = r.runAt
          /\ call'[c].work = r.work /\ call'[c].maxRetry = r.maxRetry
      BY <1>1, <1>8 DEF CallRecord
    <2>2. asked'[j] = r.maxRetry
      BY <1>1, <1>8
    <2>3. jobs'[j] # NoRow /\ jobs'[j].work = r.work
      <3> DEFINE row == [work |-> r.work, status |-> s, attempt |-> 0, runAt |-> r.runAt,
                         key |-> r.key]
      <3>1. row \in JobRecord /\ row.work = r.work
        BY <1>1, <1>2 DEF JobRecord, Statuses
      <3>2. jobs'[j] = row
        BY <1>8, ScriptTypes DEF Inserted, TypeOK, StoreTypeOK
      <3> QED
        BY <3>1, <3>2, StoreAssumption
    <2>4. CallScripted(c)'
      BY <1>2, <2>1, <2>2, <2>3 DEF CallScripted, Scripted
    <2>5. \A d \in Callers : call'[d] = call[d] \/ CallScripted(d)'
      BY <2>1, <2>4
    <2> HIDE DEF r, s
    <2> QED
      BY <1>1, <1>2, <1>3, <1>5, <1>6, <1>8, <2>5, ScriptInserts
  <1>9. CASE Return(c, "storeError") /\ jobs' = jobs /\ asked' = asked
    BY <1>3, <1>7, <1>9, ScriptQuiet
  <1>10. CASE /\ Return(c, "storeError") /\ jobs' = Inserted(j, r.work, s, r.runAt, r.key)
              /\ asked' \in {asked, [asked EXCEPT ![j] = r.maxRetry]}
    <2> HIDE DEF r, s
    <2> QED
      BY <1>1, <1>2, <1>3, <1>5, <1>6, <1>7, <1>10, ScriptInserts
  <1> QED
    BY <1>4, <1>8, <1>9, <1>10

LEMMA EnqueueScripted ==
    ASSUME SysInv, ScriptInv, NEW c \in Callers, Enqueue(c), UNCHANGED <<workerVars, promoterVars>>
    PROVE  ScriptInv'
  <1> DEFINE r == call[c]  m == Request(r.job, r.work, 0, r.maxRetry)
  <1>1. /\ topic \in Seq(JobRequest) /\ r \in CallRecord /\ r.job \in Jobs
        /\ BackTypes /\ call \in [Callers -> CallRecord] /\ asked \in [Jobs -> Nat]
    BY ScriptTypes DEF CallJobs, Enqueue, CallAt
  <1>2. /\ m \in JobRequest /\ m.job = r.job /\ m.work = r.work /\ m.attempt = 0
        /\ m.maxRetry = r.maxRetry /\ r.maxRetry \in Nat
    BY <1>1 DEF CallRecord, Request, JobRequest
  <1>3. /\ jobs' = jobs /\ asked' = asked /\ due' = due /\ proc' = proc
    BY DEF Enqueue, storeVars, workerVars, promoterVars
  <1>4. /\ jobs[r.job] # NoRow /\ jobs[r.job].work = r.work /\ asked[r.job] = r.maxRetry
        /\ Scripted(r.work) /\ (r.work.type = "invoice" => r.maxRetry = 2)
    BY DEF Enqueue, CallAt, ScriptInv, CallScripted
  <1>5. \A d \in Callers : call'[d] = call[d] \/ CallScripted(d)'
    <2>1. PICK o : Return(c, o)
      BY DEF Enqueue, Reply
    <2> QED
      BY <1>1, <2>1, ReturnQuiet, AtEase
  <1>6. topic' = topic \/ EnqueueOk(m) \/ EnqueueError(m)
    BY DEF Enqueue
  <1> HIDE DEF m
  <1>7. CASE topic' = topic
    BY <1>3, <1>5, <1>7, ScriptQuiet
  <1>8. CASE EnqueueOk(m) \/ EnqueueError(m)
    <2>1. Grown(m)
      BY <1>1, <1>2, <1>8, EnqueueGrows
    <2>2. InBudget(m, asked[m.job])
      BY <1>2, <1>4, SMT DEF InBudget
    <2> QED
      BY <1>2, <1>3, <1>4, <1>5, <2>1, <2>2, ScriptSends
  <1> QED
    BY <1>6, <1>7, <1>8

LEMMA CancelScripted ==
    ASSUME SysInv, ScriptInv, NEW c \in Callers, CancelWrite(c),
           UNCHANGED <<workerVars, promoterVars>>
    PROVE  ScriptInv'
  <1>1. call[c].job \in Jobs /\ "cancelled" \in Statuses /\ 0 \in Nat /\ BackTypes
    BY ScriptTypes DEF CallJobs, CancelWrite, CallAt, Statuses
  <1>2. /\ jobs' \in {jobs, Updated(call[c].job, "cancelled", 0)}
        /\ topic' = topic /\ asked' = asked /\ due' = due /\ proc' = proc
        /\ \E o : Return(c, o)
    BY DEF CancelWrite, workerVars, promoterVars
  <1>3. \A d \in Callers : call'[d] = call[d] \/ CallScripted(d)'
    BY <1>1, <1>2, ReturnQuiet, AtEase
  <1>4. Allowed(call[c].job, "cancelled", 0)
    BY DEF Allowed
  <1> QED
    BY <1>1, <1>2, <1>3, <1>4, ScriptWrites

LEMMA RequeueScripted ==
    ASSUME SysInv, ScriptInv, NEW c \in Callers, Requeue(c), UNCHANGED <<workerVars, promoterVars>>
    PROVE  ScriptInv'
  <1>1. /\ topic \in Seq(JobRequest) /\ call[c] \in CallRecord
        /\ call \in [Callers -> CallRecord] /\ BackTypes
    BY ScriptTypes
  <1>2. jobs' = jobs /\ asked' = asked /\ due' = due /\ proc' = proc
    BY DEF Requeue, storeVars, workerVars, promoterVars
  <1>3. PICK j \in Jobs :
          LET m == Request(j, call[c].work, 0, 0) IN
          /\ Fresh(j)
          /\ \/ EnqueueOk(m) /\ call' = [call EXCEPT ![c].pc = "record", ![c].job = j]
             \/ EnqueueError(m) /\ Return(c, "brokerError")
    BY DEF Requeue
  <1> DEFINE w == call[c].work  m == Request(j, w, 0, 0)
  <1>4. /\ m \in JobRequest /\ m.job = j /\ m.work = w /\ m.attempt = 0 /\ m.maxRetry = 0
    BY <1>1 DEF CallRecord, Request, JobRequest
  <1>5. Scripted(w) /\ w.type = "image"
    BY DEF Requeue, CallAt, ScriptInv, CallScripted
  <1>6. jobs[j] = NoRow /\ asked[j] = 0 /\ \A i \in DOMAIN topic : topic[i].job # j
    BY <1>3 DEF Fresh, ScriptInv, RowScripted
  <1>7. EnqueueOk(m) \/ EnqueueError(m)
    BY <1>3
  <1> HIDE DEF m
  <1>8. Grown(m) /\ InBudget(m, asked[m.job])
    BY <1>1, <1>4, <1>5, <1>6, <1>7, EnqueueGrows DEF InBudget
  <1>9. \A d \in Callers : call'[d] = call[d] \/ CallScripted(d)'
    <2>1. CASE call' = [call EXCEPT ![c].pc = "record", ![c].job = j]
      <3>1. /\ \A d \in Callers : d # c => call'[d] = call[d]
            /\ call'[c].pc = "record" /\ call'[c].job = j /\ call'[c].work = w
        BY <1>1, <2>1 DEF CallRecord
      <3>2. \A i \in DOMAIN topic' : topic'[i].job = j => topic'[i].work = w
        <4>1. /\ DOMAIN topic = 1 .. Len(topic) /\ DOMAIN topic' = 1 .. Len(topic')
              /\ Len(topic) \in Nat /\ Len(topic') \in Nat
          BY <1>8, ScriptTypes, LenProperties DEF Grown
        <4> QED
          BY <1>4, <1>6, <1>8, <4>1 DEF Grown
      <3> HIDE DEF w
      <3>3. CallScripted(c)'
        BY <1>5, <3>1, <3>2 DEF CallScripted, Scripted
      <3> QED
        BY <3>1, <3>3
    <2>2. CASE Return(c, "brokerError")
      BY <1>1, <2>2, ReturnQuiet, AtEase
    <2> QED
      BY <1>3, <2>1, <2>2
  <1> QED
    BY <1>2, <1>3, <1>4, <1>8, <1>9, ScriptSends

LEMMA RecordScripted ==
    ASSUME SysInv, ScriptInv, NEW c \in Callers, Record(c), UNCHANGED <<workerVars, promoterVars>>
    PROVE  ScriptInv'
  <1> DEFINE r == call[c]
  <1>1. /\ r.job \in Jobs /\ r.work \in Work /\ jobs[r.job] = NoRow /\ BackTypes
        /\ 0 \in Nat /\ NoKey \in Keys \cup {NoKey}
        /\ "pending" \in {"pending", "scheduled"}
    BY ScriptTypes DEF CallRecord, CallJobs, Record, CallAt
  <1>2. /\ jobs' = jobs \/ jobs' = Inserted(r.job, r.work, "pending", 0, NoKey)
        /\ topic' = topic /\ asked' = asked /\ due' = due /\ proc' = proc
        /\ \E o : Return(c, o)
    BY DEF Record, workerVars, promoterVars
  <1>3. \A d \in Callers : call'[d] = call[d] \/ CallScripted(d)'
    BY <1>1, <1>2, ReturnQuiet, AtEase
  <1>4. /\ Scripted(r.work)
        /\ \A i \in DOMAIN topic : topic[i].job = r.job => topic[i].work = r.work
    BY DEF Record, CallAt, ScriptInv, CallScripted
  <1>5. CASE jobs' = jobs
    BY <1>2, <1>3, <1>5, ScriptQuiet
  <1>6. CASE jobs' = Inserted(r.job, r.work, "pending", 0, NoKey)
    <2> HIDE DEF r
    <2> QED
      BY <1>1, <1>2, <1>3, <1>4, <1>6, ScriptInserts
  <1> QED
    BY <1>2, <1>5, <1>6

LEMMA ApiScripted ==
    ASSUME OnlyTheUser, SysInv, ScriptInv, ApiStep
    PROVE  ScriptInv'
  <1>1. UNCHANGED <<workerVars, promoterVars>> /\ due' = due /\ proc' = proc
    BY DEF ApiStep, workerVars, promoterVars
  <1>2. ASSUME NEW c \in Callers, NEW j \in Jobs,
               \/ Cancel(c, j) \/ CancelRefused(c, j) \/ RetryRefused(c, j)
               \/ \E q \in Queues : RetryArchived(c, j, q)
        PROVE  ScriptInv'
    BY <1>1, <1>2, BeginScripted
  <1>3. ASSUME NEW c \in Callers, CallStep(c)
        PROVE  ScriptInv'
    <2>1. ~Lookup(c)
      BY DEF Lookup, CallAt, ScriptInv, CallScripted
    <2> QED
      BY <1>1, <1>3, <2>1, CreateScripted, EnqueueScripted, CancelScripted, RequeueScripted,
         RecordScripted DEF CallStep
  <1>4. ASSUME NEW q \in Queues, SetQueuePaused(q)
        PROVE  ScriptInv'
    BY <1>1, <1>4, ScriptQuiet DEF SetQueuePaused, apiVars
  <1>5. CASE ApiCrash
    <2>1. \A c \in Callers : CallScripted(c)'
      BY <1>5, AtEase DEF ApiCrash, NoCall
    <2> QED
      BY <1>1, <1>5, <2>1, ScriptQuiet DEF ApiCrash, storeVars
  <1> QED
    BY <1>2, <1>3, <1>4, <1>5 DEF ApiStep, BackendNext, OnlyTheUser

----------------------------------------------------------------------------
(***************************************************************************)
(* The promoter and the workers.                                           *)
(***************************************************************************)
LEMMA SchedulerScripted ==
    ASSUME SysInv, ScriptInv, SchedulerStep
    PROVE  ScriptInv'
  <1>1. /\ PromoterNext /\ call' = call /\ asked' = asked /\ proc' = proc
        /\ topic \in Seq(JobRequest) /\ \A d \in due : d \in Listed /\ d.job \in Jobs
    BY ScriptTypes DEF SchedulerStep, workerVars, apiVars
  <1>2. CASE ListDue
    <2>1. jobs' = jobs /\ topic' = topic
      BY <1>2 DEF ListDue, storeVars
    <2>2. ASSUME NEW d \in due'
          PROVE  DueScripted(d)'
      <3>1. PICK j \in DueJobs : d = [job |-> j, work |-> jobs[j].work,
                                      attempt |-> jobs[j].attempt, runAt |-> jobs[j].runAt]
        BY <1>2, <2>2 DEF ListDue
      <3>2. d.job = j /\ d.work = jobs[j].work /\ j \in Jobs
        BY <3>1 DEF DueJobs
      <3>3. jobs[j] # NoRow /\ Scripted(d.work) /\ d.work.type = "report"
        BY <3>1, <3>2 DEF DueJobs, ScriptInv, RowScripted
      <3> QED
        BY <2>1, <3>2, <3>3 DEF DueScripted, Scripted
    <2> QED
      BY <1>1, <2>1, <2>2, ScriptQuiet
  <1>3. ASSUME NEW d \in due, PromoteEnqueue(d)
        PROVE  ScriptInv'
    <2> DEFINE m == Request(d.job, d.work, 0, PromotedRetries)
    <2>1. m \in JobRequest /\ m.job = d.job /\ m.work = d.work /\ m.attempt = 0
      BY <1>1 DEF Listed, Request, JobRequest, PromotedRetries
    <2>2. /\ EnqueueOk(m) \/ EnqueueError(m)
          /\ jobs' = jobs /\ due' \subseteq due
      BY <1>3 DEF PromoteEnqueue, storeVars
    <2>3. DueScripted(d)
      BY DEF ScriptInv
    <2> HIDE DEF m
    <2>4. Grown(m) /\ InBudget(m, asked[m.job])
      BY <1>1, <2>1, <2>2, <2>3, EnqueueGrows DEF DueScripted, InBudget
    <2> QED
      BY <1>1, <2>1, <2>2, <2>3, <2>4, ScriptSends DEF DueScripted
  <1>4. ASSUME NEW d \in due, PromoteMark(d)
        PROVE  ScriptInv'
    <2>1. d.job \in Jobs /\ d.attempt \in Nat /\ "pending" \in Statuses
      BY <1>1 DEF Listed, Statuses
    <2>2. /\ jobs' \in {jobs, Updated(d.job, "pending", d.attempt)}
          /\ topic' = topic /\ due' \subseteq due
      BY <1>4 DEF PromoteMark, UpdateStatus
    <2>3. Allowed(d.job, "pending", d.attempt)
      BY DEF Allowed
    <2> QED
      BY <1>1, <2>1, <2>2, <2>3, ScriptWrites
  <1>5. CASE PromoterCrash
    BY <1>1, <1>5, ScriptQuiet DEF PromoterCrash, storeVars
  <1> QED
    BY <1>1, <1>2, <1>3, <1>4, <1>5 DEF PromoterNext, Promote

\* What a goroutine works on.
LEMMA ReqScripted ==
    ASSUME SysInv, ScriptInv, NEW g \in Goroutines, Busy(g)
    PROVE  /\ Req(g) \in JobRequest /\ Req(g).job \in Jobs
           /\ Req(g).attempt \in Nat /\ Req(g).maxRetry \in Nat
           /\ InBudget(Req(g), asked[Req(g).job]) /\ FitsScript(proc[g].pc, Req(g))
           /\ jobs[Req(g).job] # NoRow => jobs[Req(g).job].work = Req(g).work
           /\ \E i \in DOMAIN topic : topic[i] = Req(g)
  <1>1. proc[g].msg \in DOMAIN topic
    BY ScriptTypes DEF TypeOK, WorkerTypeOK
  <1>2. SentScripted(proc[g].msg) /\ GoesByScript(g)
    BY <1>1 DEF ScriptInv
  <1>3. /\ Req(g) \in JobRequest /\ Req(g).job \in Jobs
        /\ Req(g).attempt \in Nat /\ Req(g).maxRetry \in Nat
    BY ScriptTypes, ReqType
  <1> QED
    BY <1>1, <1>2, <1>3 DEF SentScripted, GoesByScript, Req

\* A goroutine goes on with its message.
LEMMA MovesByScript ==
    ASSUME SysInv, NEW g \in Goroutines, GoroutineStep(g), NEW pc, Goto(g, pc),
           FitsScript(pc, Req(g))
    PROVE  \A h \in Goroutines : proc'[h] = proc[h] \/ GoesByScript(h)'
  <1>1. TypeOK /\ Busy(g) /\ KeepsLog /\ \A h \in Goroutines \ {g} : proc'[h] = proc[h]
    BY ScriptTypes, StepShape
  <1>2. proc'[g].pc = pc /\ proc'[g].msg = proc[g].msg
    BY <1>1 DEF Goto, TypeOK, WorkerTypeOK
  <1>3. Req(g)' = Req(g)
    BY <1>1, <1>2, ReqKept
  <1>4. GoesByScript(g)'
    BY <1>2, <1>3 DEF GoesByScript, FitsScript, HasRetryLeft, NextAttempt, EndAttempt
  <1> QED
    BY <1>1, <1>4

\* What process turns to, and what the handlers make of the scenarios' payloads.
LEMMA BranchScripted ==
    ASSUME NEW m, NEW n, InBudget(m, n)
    PROVE  FitsScript(Branch(m.work), m)
  <1>1. Scripted(m.work)
    BY DEF InBudget
  <1>2. CASE m.work.type = "email"
    <2>1. ValidateEmailPayload(m.work.payload)
      BY <1>1, <1>2 DEF Scripted, ValidateEmailPayload, Sound
    <2>2. Branch(m.work) = "outbox"
      BY <1>2, <2>1, DemoAssumption DEF Branch
    <2>3. m.attempt = 0
      BY <1>2 DEF InBudget
    <2> QED
      BY <1>2, <2>2, <2>3 DEF FitsScript, EndAttempt
  <1>3. CASE m.work.type # "email"
    <2>1. m.work.type \in Registered
      BY <1>1, <1>3, DemoAssumption DEF Scripted
    <2>2. Branch(m.work) = "handle"
      BY <1>3, <2>1, DemoAssumption DEF Branch
    <2> QED
      BY <1>3, <2>2 DEF FitsScript
  <1> QED
    BY <1>2, <1>3

LEMMA HandlerScripted ==
    ASSUME OutsideFails = FALSE, NEW m, NEW n, m.attempt \in Nat, InBudget(m, n),
           m.work.type # "email",
           NEW results, results = Results(m.work.type, m.work.payload, m.attempt)
    PROVE  /\ "nil" \in results => FitsScript("complete", m)
           /\ "error" \in results => FitsScript("fail", m)
  <1>1. Scripted(m.work)
    BY DEF InBudget
  <1>2. CASE m.work.type = "invoice"
    <2>1. m.work.payload = FailingAt(1) /\ m.attempt <= 1
      BY <1>1, <1>2 DEF Scripted, InBudget
    <2>2. /\ m.work.payload.parses = TRUE /\ m.work.payload.given = TRUE
          /\ m.work.payload.failUntil = 1 /\ m.work.payload.outside = FALSE
      BY <2>1 DEF FailingAt, Sound
    <2>3. results = IF m.attempt >= 1 THEN {"nil"} ELSE {"error"}
      BY <1>2, <2>2 DEF Results, Invoice, Outside
    <2>4. "nil" \in results => m.attempt = 1
      BY <2>1, <2>3
    <2>5. "error" \in results => m.attempt = 0
      BY <2>1, <2>3
    <2> QED
      BY <1>2, <2>4, <2>5 DEF FitsScript, EndAttempt
  <1>3. CASE m.work.type = "image"
    <2>1. m.work.payload.given = FALSE
      BY <1>1, <1>3 DEF Scripted, Blank, Sound
    <2>2. results = {"error"}
      BY <1>3, <2>1 DEF Results, Image
    <2> QED
      BY <1>3, <2>2 DEF FitsScript
  <1>4. CASE m.work.type \notin {"invoice", "image"}
    <2>1. m.attempt = 0
      BY <1>4 DEF InBudget
    <2>2. results = {"nil"}
      <3>1. CASE m.work.type = "report"
        <4>1. m.work.payload.parses = TRUE
          BY <1>1, <3>1 DEF Scripted, ToOutside, Sound
        <4> QED
          BY <3>1, <4>1 DEF Results, Report, Outside
      <3>2. CASE m.work.type = "sleep"
        <4>1. m.work.payload.parses = TRUE
          BY <1>1, <3>2 DEF Scripted, Sound
        <4> QED
          BY <3>2, <4>1 DEF Results, Sleep
      <3> QED
        BY <1>1, <1>4, <3>1, <3>2 DEF Scripted
    <2> QED
      BY <1>4, <2>1, <2>2 DEF FitsScript, EndAttempt
  <1> QED
    BY <1>2, <1>3, <1>4

LEMMA StepScripted ==
    ASSUME OnlyTheUser, SysInv, ScriptInv, NEW g \in Goroutines, GoroutineStep(g),
           UNCHANGED <<now, apiVars, promoterVars>>
    PROVE  ScriptInv'
  <1>1. call' = call /\ asked' = asked /\ due' = due /\ TypeOK /\ topic \in Seq(JobRequest)
    BY ScriptTypes DEF apiVars, promoterVars
  <1>2. Busy(g)
    BY <1>1, StepShape
  <1> DEFINE m == Req(g)  n == asked[m.job]
  <1>3. /\ m \in JobRequest /\ m.job \in Jobs /\ m.attempt \in Nat /\ m.maxRetry \in Nat
        /\ InBudget(m, n) /\ FitsScript(proc[g].pc, m)
        /\ jobs[m.job] # NoRow => jobs[m.job].work = m.work
        /\ \E i \in DOMAIN topic : topic[i] = m
    BY <1>2, ReqScripted
  <1> DEFINE Moved == \A h \in Goroutines : proc'[h] = proc[h] \/ GoesByScript(h)'
  <1>4. ASSUME NEW pc, Goto(g, pc), FitsScript(pc, m)
        PROVE  Moved
    BY <1>4, MovesByScript
  <1>5. ASSUME NEW pc \in {"acquire", "commit", "release", "load", "start"}
        PROVE  FitsScript(pc, m)
    BY <1>5 DEF FitsScript
  <1>6. ASSUME NEW status \in Statuses, NEW attempt \in Nat,
               jobs' \in {jobs, Updated(m.job, status, attempt)}, topic' = topic,
               Allowed(m.job, status, attempt), Moved
        PROVE  ScriptInv'
    BY <1>1, <1>3, <1>6, ScriptWrites
  <1>7. ASSUME jobs' = jobs, topic' = topic, Moved
        PROVE  ScriptInv'
    BY <1>1, <1>7, ScriptQuiet
  <1>8. ASSUME NEW status, NEW attempt, UpdateStatus(m.job, status, attempt)
        PROVE  jobs' \in {jobs, Updated(m.job, status, attempt)}
    BY <1>8 DEF UpdateStatus
  <1> HIDE DEF m, n, Moved
  <1>9. CASE GetQueue(g) \/ Acquire(g) \/ Load(g) \/ Release(g)
    <2>1. /\ jobs' = jobs /\ topic' = topic
          /\ \E pc \in {"acquire", "commit", "release", "load", "start"} : Goto(g, pc)
      BY <1>9 DEF GetQueue, Acquire, Load, Release, storeVars
    <2> QED
      BY <1>4, <1>5, <1>7, <2>1
  <1>10. CASE Start(g)
    <2>1. /\ UpdateStatus(m.job, "processing", m.attempt) /\ topic' = topic
          /\ Goto(g, Branch(m.work))
      BY <1>10 DEF Start, m
    <2>2. FitsScript(Branch(m.work), m)
      BY <1>3, BranchScripted
    <2>3. "processing" \in Statuses /\ Allowed(m.job, "processing", m.attempt)
      BY DEF Statuses, Allowed
    <2> QED
      BY <1>3, <1>4, <1>6, <1>8, <2>1, <2>2, <2>3
  <1>11. CASE Handle(g)
    <2> DEFINE results == Results(m.work.type, m.work.payload, m.attempt)
    <2>1. /\ At(g, "handle") /\ jobs' = jobs /\ topic' = topic
          /\ ("nil" \in results /\ Goto(g, "complete")) \/ ("error" \in results /\ Goto(g, "fail"))
      BY <1>11 DEF Handle, storeVars, m
    <2>2. m.work.type # "email"
      BY <1>3, <2>1 DEF FitsScript, At
    <2>3. /\ "nil" \in results => FitsScript("complete", m)
          /\ "error" \in results => FitsScript("fail", m)
      BY <1>3, <2>2, HandlerScripted DEF OnlyTheUser
    <2> HIDE DEF results
    <2> QED
      BY <1>4, <1>7, <2>1, <2>3
  <1>12. CASE Complete(g) \/ CompleteEmail(g)
    <2>1. /\ proc[g].pc \in {"complete", "outbox"} /\ topic' = topic /\ Goto(g, "release")
          /\ jobs' \in {jobs, Updated(m.job, "completed", m.attempt)}
      BY <1>8, <1>12 DEF Complete, CompleteEmail, CompleteJobWithOutbox, At, m
    <2>2. Allowed(m.job, "completed", m.attempt)
      BY <1>3, <2>1 DEF FitsScript, Allowed, EndAttempt
    <2>3. "completed" \in Statuses
      BY DEF Statuses
    <2> QED
      BY <1>3, <1>4, <1>5, <1>6, <2>1, <2>2, <2>3
  <1>13. CASE Reject(g)
    BY <1>3, <1>13 DEF Reject, At, FitsScript
  <1>14. CASE Fail(g)
    <2>1. /\ At(g, "fail") /\ topic' = topic
          /\ UpdateStatus(m.job, "failed", NextAttempt(m))
          /\ Goto(g, IF HasRetryLeft(m) THEN "retry" ELSE "archive")
      BY <1>14 DEF Fail, m
    <2>2. PICK pc \in {"retry", "archive"} :
              Goto(g, pc) /\ (pc = "retry" <=> HasRetryLeft(m))
      BY <2>1
    <2>3. FitsScript(pc, m)
      BY <1>3, <2>1, <2>2 DEF FitsScript, At
    <2>4. /\ "failed" \in Statuses /\ NextAttempt(m) \in Nat
          /\ Allowed(m.job, "failed", NextAttempt(m))
      BY <1>3 DEF Statuses, Allowed, NextAttempt
    <2>5. jobs' \in {jobs, Updated(m.job, "failed", NextAttempt(m))}
      BY <1>8, <2>1
    <2>6. Moved
      BY <1>4, <2>2, <2>3
    <2> QED
      BY <1>6, <2>1, <2>4, <2>5, <2>6
  <1>15. CASE Retry(g)
    <2> DEFINE again == Request(m.job, m.work, NextAttempt(m), m.maxRetry)
    <2>1. /\ At(g, "retry") /\ jobs' = jobs
          /\ EnqueueOk(again) \/ EnqueueError(again)
          /\ Goto(g, "release")
      BY <1>15 DEF Retry, storeVars, m
    <2>2. /\ again \in JobRequest /\ again.job = m.job /\ again.work = m.work
          /\ again.attempt = m.attempt + 1 /\ again.maxRetry = m.maxRetry
      BY <1>3 DEF Request, JobRequest, NextAttempt
    <2> HIDE DEF again
    <2>3. m.attempt + 1 <= m.maxRetry
      BY <1>3, <2>1 DEF FitsScript, At, HasRetryLeft, NextAttempt
    <2>4. m.work.type = "image" \/ (m.work.type = "invoice" /\ m.attempt = 0)
      BY <1>3, <2>1 DEF FitsScript, At
    <2>5. InBudget(again, asked[again.job])
      BY <1>3, <2>2, <2>3, <2>4 DEF InBudget, n
    <2>6. Grown(again)
      BY <1>1, <2>1, <2>2, EnqueueGrows
    <2>7. \E i \in DOMAIN topic : topic[i].job = again.job /\ topic[i].work = again.work
      BY <1>3, <2>2
    <2>8. Moved
      BY <1>4, <1>5, <2>1
    <2> QED
      BY <1>1, <2>1, <2>2, <2>5, <2>6, <2>7, <2>8, ScriptSends DEF Moved
  <1>16. CASE Archive(g)
    <2>1. /\ At(g, "archive") /\ topic' = topic /\ Goto(g, "release")
          /\ jobs' \in {jobs, Updated(m.job, "archived", NextAttempt(m))}
      BY <1>8, <1>16 DEF Archive, m
    <2>2. ~(m.attempt + 1 <= m.maxRetry)
      BY <1>3, <2>1 DEF FitsScript, At, HasRetryLeft, NextAttempt
    <2>3. m.work.type = "image" \/ (m.work.type = "invoice" /\ m.attempt = 0)
      BY <1>3, <2>1 DEF FitsScript, At
    <2>4. m.work.type = "image"
      BY <2>2, <2>3, <1>3 DEF InBudget
    <2>5. NextAttempt(m) = n + 1
      BY <2>2, <2>4, <1>3 DEF InBudget, NextAttempt
    <2>6. Allowed(m.job, "archived", NextAttempt(m))
      BY <1>3, <2>4, <2>5 DEF Allowed, n
    <2>7. "archived" \in Statuses /\ NextAttempt(m) \in Nat
      BY <1>3 DEF Statuses, NextAttempt
    <2>8. Moved
      BY <1>4, <1>5, <2>1
    <2> QED
      BY <1>6, <2>1, <2>6, <2>7, <2>8
  <1>17. CASE Commit(g)
    <2>1. /\ jobs' = jobs /\ topic' = topic
          /\ proc' = [proc EXCEPT ![g] = Idle]
      BY <1>17 DEF Commit, storeVars
    <2>2. Moved
      BY <1>1, <2>1 DEF Moved, GoesByScript, Busy, Idle, TypeOK, WorkerTypeOK
    <2> QED
      BY <1>7, <2>1, <2>2
  <1> QED
    BY <1>9, <1>10, <1>11, <1>12, <1>13, <1>14, <1>15, <1>16, <1>17 DEF GoroutineStep

LEMMA WorkerScripted ==
    ASSUME OnlyTheUser, SysInv, ScriptInv, WorkerStep
    PROVE  ScriptInv'
  <1>1. /\ call' = call /\ asked' = asked /\ due' = due /\ TypeOK /\ WorkerNext
        /\ UNCHANGED <<now, apiVars, promoterVars>>
    BY ScriptTypes DEF WorkerStep, apiVars, promoterVars
  <1>2. ASSUME NEW g \in Goroutines, Fetch(g)
        PROVE  ScriptInv'
    <2>1. \A h \in Goroutines :
             proc'[h] = proc[h] \/ proc'[h].pc = "getQueue"
      BY <1>1, <1>2 DEF Fetch, TypeOK, WorkerTypeOK
    <2>2. \A h \in Goroutines : proc'[h] = proc[h] \/ GoesByScript(h)'
      BY <2>1 DEF GoesByScript, FitsScript
    <2> QED
      BY <1>1, <1>2, <2>2, ScriptQuiet DEF Fetch, storeVars
  <1>3. CASE Rebalance
    BY <1>1, <1>3, ScriptQuiet DEF Rebalance, storeVars
  <1>4. ASSUME NEW w \in Workers, Crash(w)
        PROVE  ScriptInv'
    <2>1. \A h \in Goroutines : proc'[h] = proc[h] \/ proc'[h].pc = "idle"
      BY <1>4 DEF Crash, Idle
    <2>2. \A h \in Goroutines : proc'[h] = proc[h] \/ GoesByScript(h)'
      BY <2>1 DEF GoesByScript, Busy
    <2> QED
      BY <1>1, <1>4, <2>2, ScriptQuiet DEF Crash, storeVars
  <1> QED
    BY <1>1, <1>2, <1>3, <1>4, StepScripted DEF WorkerNext

LEMMA ScriptStep == OnlyTheUser /\ SysInv /\ ScriptInv /\ [DemoNext]_sysVars => ScriptInv'
  <1> SUFFICES ASSUME OnlyTheUser, SysInv, ScriptInv, [DemoNext]_sysVars PROVE ScriptInv'
    OBVIOUS
  <1>1. CASE TimeStep \/ UNCHANGED sysVars
    <2>1. UNCHANGED <<jobs, topic, asked, call, due, proc>>
      BY <1>1 DEF TimeStep, sysVars, vars, storeVars, workerVars, apiVars, promoterVars
    <2> QED
      BY <2>1, ScriptQuiet
  <1>2. ASSUME NEW c \in Callers, NEW id \in Scenarios, HandleScenario(c, id)
        PROVE  ScriptInv'
    BY <1>2, ScenarioSubmitted
  <1>3. ASSUME NEW c \in Callers, NEW j \in Jobs, HandleReplay(c, j)
        PROVE  ScriptInv'
    BY <1>3, BeginScripted, DemoAssumption DEF HandleReplay
  <1> QED
    BY <1>1, <1>2, <1>3, ApiScripted, SchedulerScripted, WorkerScripted DEF DemoNext, SysNext

LEMMA ScriptBegins == SysInit => ScriptInv
  <1> SUFFICES ASSUME SysInit PROVE ScriptInv
    OBVIOUS
  <1>1. \A j \in Jobs : jobs[j] = NoRow /\ asked[j] = 0
    BY DEF SysInit, StoreInit, BackendInit
  <1>2. DOMAIN topic = {}
    BY DEF SysInit, QueueInit
  <1>3. \A c \in Callers : call[c].pc = "idle"
    BY DEF SysInit, BackendInit, NoCall
  <1>4. due = {} /\ \A g \in Goroutines : proc[g].pc = "idle"
    BY DEF SysInit, PromoterInit, WorkerInit, Idle
  <1> QED
    BY <1>1, <1>2, <1>3, <1>4
       DEF ScriptInv, RowScripted, CallScripted, GoesByScript, Busy

\* The work of a scenario tells which one it is of.
LEMMA ScenarioKnown ==
    ASSUME OnlyTheUser, NEW w, Scripted(w)
    PROVE  ScenarioOf(w) = CASE w.type = "email" -> "A"
                             [] w.type = "invoice" -> "B"
                             [] w.type = "report" -> "C"
                             [] w.type = "image" -> "D"
                             [] w.type = "sleep" -> "E"
  <1>1. w.queue = DemoQueue /\ w = [type |-> w.type, payload |-> w.payload, queue |-> w.queue]
    BY DEF Scripted, Work, OnlyTheUser
  <1> DEFINE Fits(id) == \E p \in Scenario(id, 0) : WorkOf(p) = w
             known == CASE w.type = "email" -> "A"
                        [] w.type = "invoice" -> "B"
                        [] w.type = "report" -> "C"
                        [] w.type = "image" -> "D"
                        [] w.type = "sleep" -> "E"
  <1>2. known \in {"A", "B", "C", "D", "E"}
    BY DEF Scripted
  <1>3. ASSUME NEW type, NEW payload, NEW n, NEW at, w.type = type, w.payload = payload
        PROVE  WorkOf(Post(type, payload, n, at)) = w
    BY <1>1, <1>3 DEF WorkOf, Post
  <1>4. Fits(known)
    <2>1. CASE w.type = "email" /\ w.payload = Sound
      <3>1. Post("email", Sound, 0, 0) \in Scenario(known, 0)
        BY <2>1 DEF Scenario, Plain
      <3> QED
        BY <1>3, <2>1, <3>1
    <2>2. CASE w.type = "invoice" /\ w.payload = FailingAt(1)
      <3>1. Post("invoice", FailingAt(1), 2, 0) \in Scenario(known, 0)
        BY <2>2 DEF Scenario
      <3> QED
        BY <1>3, <2>2, <3>1
    <2>3. CASE w.type = "report" /\ w.payload = ToOutside
      <3>1. Post("report", ToOutside, 0, 0 + Delay) \in Scenario(known, 0)
        BY <2>3 DEF Scenario
      <3> QED
        BY <1>3, <2>3, <3>1
    <2>4. CASE w.type = "image" /\ w.payload = Blank
      <3>1. Post("image", Blank, 2, 0) \in Scenario(known, 0)
        BY <2>4 DEF Scenario
      <3> QED
        BY <1>3, <2>4, <3>1
    <2>5. CASE w.type = "sleep" /\ w.payload = Sound
      <3>1. Post("sleep", Sound, 0, 0) \in Scenario(known, 0)
        BY <2>5 DEF Scenario, Plain
      <3> QED
        BY <1>3, <2>5, <3>1
    <2> QED
      BY <2>1, <2>2, <2>3, <2>4, <2>5 DEF Scripted
  <1>5. ASSUME NEW id \in {"A", "B", "C", "D", "E"}, Fits(id)
        PROVE  id = known
    <2>1. PICK p \in Scenario(id, 0) : WorkOf(p) = w
      BY <1>5
    <2>2. w.type = p.type
      BY <2>1 DEF WorkOf
    <2>3. /\ id = "A" => p.type = "email"
          /\ id = "B" => p.type = "invoice"
          /\ id = "C" => p.type = "report"
          /\ id = "D" => p.type = "image"
          /\ id = "E" => p.type = "sleep"
      BY <2>1 DEF Scenario, Plain, Post
    <2> QED
      BY <1>5, <2>2, <2>3
  <1>6. ScenarioOf(w) \in {"A", "B", "C", "D", "E"} /\ Fits(ScenarioOf(w))
    <2> HIDE DEF known
    <2> QED
      BY <1>2, <1>4 DEF ScenarioOf
  <1> QED
    BY <1>5, <1>6

\* A scenario ends as the dashboard says it does, unless the user cancels its
\* job: whatever of the API, the promoter and the workers fails or dies on the
\* way and however often a message is sent or delivered, the delayed promotion
\* with other retries than were asked for included.  Only work of other clients,
\* or a file system that refuses a handler its file, could spoil it.
THEOREM ScenariosEndAsPromised == OnlyTheUser => (DemoSpec => []ScenarioOutcome)
  <1> SUFFICES ASSUME OnlyTheUser PROVE DemoSpec => []ScenarioOutcome
    OBVIOUS
  <1>1. ScriptInv => ScenarioOutcome
    <2> SUFFICES ASSUME ScriptInv, NEW j \in Jobs, Settled(j), jobs[j].status # "cancelled"
                 PROVE  LET id == ScenarioOf(jobs[j].work) IN
                        jobs[j].status = Ends(id) /\ jobs[j].attempt = Retries(id, j)
      BY DEF ScenarioOutcome
    <2>1. RowScripted(j) /\ jobs[j] # NoRow /\ Scripted(jobs[j].work)
      BY DEF ScriptInv, RowScripted, Settled
    <2>2. jobs[j].work.type \in Registered
      BY <2>1, DemoAssumption DEF Scripted
    <2>3. jobs[j].status \in {"completed", "archived"}
      BY <2>2 DEF Settled
    <2> DEFINE id == ScenarioOf(jobs[j].work)
    <2>4. id = CASE jobs[j].work.type = "email" -> "A"
                 [] jobs[j].work.type = "invoice" -> "B"
                 [] jobs[j].work.type = "report" -> "C"
                 [] jobs[j].work.type = "image" -> "D"
                 [] jobs[j].work.type = "sleep" -> "E"
      BY <2>1, ScenarioKnown
    <2> HIDE DEF id
    <2>5. jobs[j].status = Ends(id)
      BY <2>1, <2>3, <2>4 DEF RowScripted, Scripted, Ends
    <2>6. jobs[j].attempt = Retries(id, j)
      BY <2>1, <2>3, <2>4 DEF RowScripted, Scripted, Retries, EndAttempt
    <2> QED
      BY <2>5, <2>6 DEF id
  <1>2. SysInv /\ ScriptInv /\ [DemoNext]_sysVars => ScriptInv'
    BY ScriptStep
  <1> QED
    BY <1>1, <1>2, SysAlways, ScriptBegins, PTL DEF DemoSpec
=============================================================================
