--------------------------- MODULE BackendProofs ---------------------------
(***************************************************************************)
(* What the steps of the backend keep, for any number of requests, jobs    *)
(* and failures, and whatever runs beside them: the types, and that a key  *)
(* names one job.  The modules that put the backend in a system cite it.   *)
(***************************************************************************)
EXTENDS Backend, SequenceTheorems, TLAPS

\* A request that works on a job has one.
CallJobs ==
    \A c \in Callers : call[c].pc \in {"enqueue", "cancel", "record"} => call[c].job \in Jobs

BackTypes == StoreTypeOK /\ QueueTypeOK /\ ClockTypeOK /\ BackendTypeOK /\ CallJobs

\* What the calls leave: the types of what a step of the backend may write.
RowsType == jobs \in [Jobs -> JobRecord \cup {NoRow}]

----------------------------------------------------------------------------
(***************************************************************************)
(* Lemmas about the operators the actions are built from.                  *)
(***************************************************************************)

\* A new row leaves a table of rows.
LEMMA InsertedType ==
    ASSUME RowsType, NEW j \in Jobs, NEW w \in Work, NEW status \in Statuses,
           NEW runAt \in Nat, NEW key \in Keys \cup {NoKey}
    PROVE  Inserted(j, w, status, runAt, key) \in [Jobs -> JobRecord \cup {NoRow}]
  <1>1. [work |-> w, status |-> status, attempt |-> 0, runAt |-> runAt, key |-> key]
            \in JobRecord
    BY DEF JobRecord
  <1> QED
    BY <1>1 DEF RowsType, Inserted

\* So does an update.
LEMMA UpdatedRowsType ==
    ASSUME RowsType, NEW j \in Jobs, NEW status \in Statuses, NEW attempt \in Nat
    PROVE  Updated(j, status, attempt) \in [Jobs -> JobRecord \cup {NoRow}]
  <1>1. CASE jobs[j] = NoRow
    BY <1>1 DEF Updated, RowsType
  <1>2. CASE jobs[j] # NoRow
    <2>1. [jobs[j] EXCEPT !.status = status, !.attempt = attempt] \in JobRecord
      BY <1>2 DEF JobRecord, RowsType
    <2>2. Updated(j, status, attempt)
            = [jobs EXCEPT ![j] = [jobs[j] EXCEPT !.status = status, !.attempt = attempt]]
      BY <1>2 DEF Updated
    <2> QED
      BY <2>1, <2>2 DEF RowsType
  <1> QED
    BY <1>1, <1>2

\* Whatever Enqueue returns, the topic holds requests.
LEMMA SentType ==
    ASSUME QueueTypeOK, NEW m \in JobRequest, EnqueueOk(m) \/ EnqueueError(m)
    PROVE  QueueTypeOK'
  <1> USE DEF QueueTypeOK
  <1>1. Append(topic, m) \in Seq(JobRequest)
    BY AppendProperties
  <1>2. <<m, m>> \in Seq(JobRequest)
    OBVIOUS
  <1>3. topic \o <<m, m>> \in Seq(JobRequest)
    BY <1>2, ConcatProperties
  <1> QED
    BY <1>1, <1>3 DEF EnqueueOk, EnqueueError

\* Failures are counted up to their bound.
LEMMA FaultsType ==
    ASSUME faults \in 0 .. MaxFaults,
           UNCHANGED faults \/ \E kind \in FaultKinds : Fault(kind)
    PROVE  faults' \in 0 .. MaxFaults
  BY StoreAssumption DEF Fault

\* No call is a call.
LEMMA NoCallType == NoCall \in CallRecord
  <1>1. Types # {}
    BY StoreAssumption
  <1>2. PICK t \in Types, p \in Payloads, q \in Queues : TRUE
    BY <1>1, BackendAssumption
  <1>3. [type |-> t, payload |-> p, queue |-> q] \in Work
    BY <1>2 DEF Work
  <1>4. (CHOOSE w \in Work : TRUE) \in Work
    BY <1>3
  <1> QED
    BY <1>4 DEF NoCall, CallRecord, CallPCs

\* A request that ends leaves the others and their jobs alone.
LEMMA ReturnType ==
    ASSUME BackTypes, NEW c \in Callers, NEW o \in Outcomes, Return(c, o)
    PROVE  /\ call' \in [Callers -> CallRecord]
           /\ outcome' \in [Callers -> Outcomes \cup {"none"}]
           /\ \A d \in Callers : call'[d].pc = "idle" \/ call'[d] = call[d]
  <1>1. call' = [call EXCEPT ![c] = NoCall] /\ outcome' = [outcome EXCEPT ![c] = o]
    BY DEF Return
  <1>2. NoCall.pc = "idle"
    BY DEF NoCall
  <1> QED
    BY <1>1, <1>2, NoCallType DEF BackTypes, BackendTypeOK

\* As long as the other calls are what they were, they have their jobs.
LEMMA KeepsCallJobs ==
    ASSUME CallJobs,
           \A d \in Callers :
              \/ call'[d].pc \notin {"enqueue", "cancel", "record"}
              \/ call'[d] = call[d]
              \/ call'[d].job \in Jobs
    PROVE  CallJobs'
  BY DEF CallJobs

----------------------------------------------------------------------------
(***************************************************************************)
(* The types, call by call.                                                *)
(***************************************************************************)

\* A request begins, and nothing else happens.
LEMMA BeginsTypes ==
    ASSUME BackTypes, NEW c \in Callers, NEW r \in CallRecord,
           r.pc \in {"enqueue", "cancel", "record"} => r.job \in Jobs,
           call' = [call EXCEPT ![c] = r],
           UNCHANGED <<storeVars, faults, topic, now, asked, submitted, cancelled, outcome>>
    PROVE  BackTypes'
  <1>1. StoreTypeOK' /\ QueueTypeOK' /\ ClockTypeOK'
    BY DEF BackTypes, StoreTypeOK, QueueTypeOK, ClockTypeOK, storeVars
  <1>2. BackendTypeOK'
    BY DEF BackTypes, BackendTypeOK
  <1>3. \A d \in Callers : call'[d] = IF d = c THEN r ELSE call[d]
    BY DEF BackTypes, BackendTypeOK
  <1>4. CallJobs'
    BY <1>3 DEF BackTypes, CallJobs
  <1> QED
    BY <1>1, <1>2, <1>4 DEF BackTypes

LEMMA SubmitTypes ==
    ASSUME BackTypes, NEW c \in Callers, NEW w \in Work, NEW n \in Nat, NEW t \in Nat,
           NEW k \in Keys \cup {NoKey}, Submit(c, w, n, t, k)
    PROVE  BackTypes'
  <1> DEFINE r == [pc |-> IF k = NoKey THEN "create" ELSE "lookup", work |-> w,
                   maxRetry |-> n, runAt |-> t, key |-> k, job |-> NoJob]
  <1>1. r \in CallRecord
    BY DEF CallRecord, CallPCs
  <1>2. r.pc \notin {"enqueue", "cancel", "record"}
    OBVIOUS
  <1>3. /\ call' = [call EXCEPT ![c] = r]
        /\ UNCHANGED <<storeVars, faults, topic, now, asked, submitted, cancelled, outcome>>
    BY DEF Submit
  <1> HIDE DEF r
  <1> QED
    BY <1>1, <1>2, <1>3, BeginsTypes

LEMMA CancelTypes ==
    ASSUME BackTypes, NEW c \in Callers, NEW j \in Jobs, Cancel(c, j)
    PROVE  BackTypes'
  <1> DEFINE r == [call[c] EXCEPT !.pc = "cancel", !.job = j]
  <1>1. call[c] \in CallRecord
    BY DEF BackTypes, BackendTypeOK
  <1>2. r \in CallRecord /\ r.job \in Jobs
    BY <1>1 DEF CallRecord, CallPCs
  <1>3. /\ call' = [call EXCEPT ![c] = r]
        /\ UNCHANGED <<storeVars, faults, topic, now, asked, submitted, cancelled, outcome>>
    BY DEF Cancel
  <1> HIDE DEF r
  <1> QED
    BY <1>2, <1>3, BeginsTypes

LEMMA RetryTypes ==
    ASSUME BackTypes, NEW c \in Callers, NEW j \in Jobs, NEW q \in Queues,
           RetryArchived(c, j, q)
    PROVE  BackTypes'
  <1> DEFINE w == [jobs[j].work EXCEPT !.queue = q]
             r == [call[c] EXCEPT !.pc = "requeue", !.job = j, !.work = w]
  <1>1. call[c] \in CallRecord
    BY DEF BackTypes, BackendTypeOK
  <1>2. jobs[j] \in JobRecord
    BY DEF BackTypes, StoreTypeOK, RetryArchived
  <1>3. jobs[j].work \in Work
    BY <1>2 DEF JobRecord
  <1>4. w \in Work
    BY <1>3 DEF Work
  <1>5. r \in CallRecord /\ r.pc = "requeue"
    BY <1>1, <1>4 DEF CallRecord, CallPCs
  <1>6. /\ call' = [call EXCEPT ![c] = r]
        /\ UNCHANGED <<storeVars, faults, topic, now, asked, submitted, cancelled, outcome>>
    BY DEF RetryArchived
  <1> HIDE DEF r, w
  <1> QED
    BY <1>5, <1>6, BeginsTypes

\* A request ends, and may have written to the store and to the topic.
LEMMA EndsTypes ==
    ASSUME BackTypes, NEW c \in Callers, NEW o \in Outcomes, Return(c, o),
           jobs' \in [Jobs -> JobRecord \cup {NoRow}], QueueTypeOK',
           faults' \in 0 .. MaxFaults,
           asked' \in [Jobs -> Nat],
           submitted' \subseteq [work : Work, key : Keys \cup {NoKey}, job : Jobs],
           cancelled' \subseteq Jobs,
           UNCHANGED <<paused, outbox, now>>
    PROVE  BackTypes'
  <1>1. StoreTypeOK' /\ ClockTypeOK'
    BY DEF BackTypes, StoreTypeOK, ClockTypeOK
  <1>2. BackendTypeOK'
    BY ReturnType DEF BackTypes, BackendTypeOK
  <1>3. CallJobs'
    BY ReturnType, KeepsCallJobs DEF BackTypes
  <1> QED
    BY <1>1, <1>2, <1>3 DEF BackTypes

LEMMA RefusedTypes ==
    ASSUME BackTypes, NEW c \in Callers, NEW j \in Jobs,
           CancelRefused(c, j) \/ RetryRefused(c, j)
    PROVE  BackTypes'
  <1>1. PICK o \in Outcomes : Return(c, o)
    BY DEF CancelRefused, RetryRefused, Outcomes
  <1>2. UNCHANGED <<storeVars, topic, now, asked, submitted, cancelled>>
    BY DEF CancelRefused, RetryRefused
  <1>3. UNCHANGED faults \/ \E kind \in FaultKinds : Fault(kind)
    BY DEF CancelRefused, RetryRefused, Fault
  <1>4. faults' \in 0 .. MaxFaults
    BY <1>3, FaultsType DEF BackTypes, StoreTypeOK
  <1> QED
    BY <1>1, <1>2, <1>4, EndsTypes
    DEF BackTypes, StoreTypeOK, QueueTypeOK, BackendTypeOK, storeVars

\* The answer of a Submit names one of the jobs.
LEMMA ReplyTypes ==
    ASSUME BackTypes, NEW c \in Callers, NEW j \in Jobs, Reply(c, j),
           QueueTypeOK', faults' \in 0 .. MaxFaults,
           UNCHANGED <<storeVars, now, asked, cancelled>>
    PROVE  BackTypes'
  <1>1. call[c] \in CallRecord
    BY DEF BackTypes, BackendTypeOK
  <1>2. [work |-> call[c].work, key |-> call[c].key, job |-> j]
           \in [work : Work, key : Keys \cup {NoKey}, job : Jobs]
    BY <1>1 DEF CallRecord
  <1>3. submitted' \subseteq [work : Work, key : Keys \cup {NoKey}, job : Jobs]
    BY <1>2 DEF Reply, BackTypes, BackendTypeOK
  <1>4. Return(c, "ok") /\ "ok" \in Outcomes
    BY DEF Reply, Outcomes
  <1> QED
    BY <1>3, <1>4, EndsTypes DEF BackTypes, StoreTypeOK, BackendTypeOK, storeVars

LEMMA LookupTypes ==
    ASSUME BackTypes, NEW c \in Callers, Lookup(c)
    PROVE  BackTypes'
  <1> DEFINE same == {j \in Jobs : SameKey(j, call[c].work, call[c].key)}
  <1>0. UNCHANGED <<storeVars, topic, now, asked, cancelled>>
    BY DEF Lookup
  <1>1. CASE CallGoto(c, "create") /\ UNCHANGED <<faults, submitted>>
    <2>1. call[c] \in CallRecord
      BY DEF BackTypes, BackendTypeOK
    <2>2. [call[c] EXCEPT !.pc = "create"] \in CallRecord
      BY <2>1 DEF CallRecord, CallPCs
    <2>3. /\ call' = [call EXCEPT ![c] = [call[c] EXCEPT !.pc = "create"]]
          /\ UNCHANGED outcome
      BY <1>1 DEF CallGoto
    <2>4. [call[c] EXCEPT !.pc = "create"].pc = "create"
      BY <2>1 DEF CallRecord
    <2> QED
      BY <1>0, <1>1, <2>2, <2>3, <2>4, BeginsTypes
  <1>2. CASE \E j \in same : Reply(c, j) /\ UNCHANGED faults
    BY <1>0, <1>2, ReplyTypes DEF BackTypes, QueueTypeOK, StoreTypeOK
  <1>3. CASE Fault("store") /\ Return(c, "storeError") /\ UNCHANGED submitted
    <2>1. faults' \in 0 .. MaxFaults
      BY <1>3, FaultsType DEF BackTypes, StoreTypeOK, Fault
    <2>2. "storeError" \in Outcomes
      BY DEF Outcomes
    <2> QED
      BY <1>0, <1>3, <2>1, <2>2, EndsTypes
      DEF BackTypes, StoreTypeOK, QueueTypeOK, BackendTypeOK, storeVars
  <1> QED
    BY <1>1, <1>2, <1>3 DEF Lookup

LEMMA CreateTypes ==
    ASSUME BackTypes, NEW c \in Callers, Create(c)
    PROVE  BackTypes'
  <1> DEFINE r == call[c]
             s == FirstStatus(r.runAt)
  <1>1. r \in CallRecord
    BY DEF BackTypes, BackendTypeOK
  <1>2. r.work \in Work /\ r.maxRetry \in Nat /\ r.runAt \in Nat /\ r.key \in Keys \cup {NoKey}
    BY <1>1 DEF CallRecord
  <1>3. s \in Statuses
    BY DEF FirstStatus, Statuses
  <1>4. UNCHANGED <<paused, outbox, topic, now, submitted, cancelled>>
    BY DEF Create
  <1>5. PICK j \in Jobs :
          \/ /\ jobs' = Inserted(j, r.work, s, r.runAt, r.key)
             /\ asked' = [asked EXCEPT ![j] = r.maxRetry]
             /\ call' = [call EXCEPT ![c].pc = "enqueue", ![c].job = j]
             /\ UNCHANGED <<faults, outcome>>
          \/ Return(c, "storeError") /\ UNCHANGED <<jobs, asked, faults>>
          \/ /\ Fault("store")
             /\ jobs' \in {jobs, Inserted(j, r.work, s, r.runAt, r.key)}
             /\ asked' \in {asked, [asked EXCEPT ![j] = r.maxRetry]}
             /\ Return(c, "storeError")
    BY DEF Create
  <1>6. Inserted(j, r.work, s, r.runAt, r.key) \in [Jobs -> JobRecord \cup {NoRow}]
    <2>1. RowsType
      BY DEF BackTypes, StoreTypeOK, RowsType
    <2> HIDE DEF r, s
    <2> QED
      BY <1>2, <1>3, <2>1, InsertedType
  <1>7. [asked EXCEPT ![j] = r.maxRetry] \in [Jobs -> Nat]
    BY <1>2 DEF BackTypes, BackendTypeOK
  <1>8. CASE /\ jobs' = Inserted(j, r.work, s, r.runAt, r.key)
             /\ asked' = [asked EXCEPT ![j] = r.maxRetry]
             /\ call' = [call EXCEPT ![c].pc = "enqueue", ![c].job = j]
             /\ UNCHANGED <<faults, outcome>>
    <2>1. StoreTypeOK' /\ QueueTypeOK' /\ ClockTypeOK'
      BY <1>4, <1>6, <1>8 DEF BackTypes, StoreTypeOK, QueueTypeOK, ClockTypeOK
    <2>2. call' = [call EXCEPT ![c] = [r EXCEPT !.pc = "enqueue", !.job = j]]
      BY <1>8
    <2>3. [r EXCEPT !.pc = "enqueue", !.job = j] \in CallRecord
      BY <1>1 DEF CallRecord, CallPCs
    <2>4. BackendTypeOK'
      BY <1>4, <1>7, <1>8, <2>2, <2>3 DEF BackTypes, BackendTypeOK
    <2>5. \A d \in Callers : call'[d] = call[d] \/ call'[d].job \in Jobs
      BY <1>1, <2>2 DEF BackTypes, BackendTypeOK, CallRecord
    <2> QED
      BY <2>1, <2>4, <2>5, KeepsCallJobs DEF BackTypes
  <1>9. CASE Return(c, "storeError") /\ UNCHANGED <<jobs, asked, faults>>
    BY <1>4, <1>9, EndsTypes
    DEF BackTypes, StoreTypeOK, QueueTypeOK, BackendTypeOK, Outcomes
  <1>10. CASE /\ Fault("store")
              /\ jobs' \in {jobs, Inserted(j, r.work, s, r.runAt, r.key)}
              /\ asked' \in {asked, [asked EXCEPT ![j] = r.maxRetry]}
              /\ Return(c, "storeError")
    <2>1. faults' \in 0 .. MaxFaults
      BY <1>10, FaultsType DEF BackTypes, StoreTypeOK, Fault
    <2>2. jobs' \in [Jobs -> JobRecord \cup {NoRow}] /\ asked' \in [Jobs -> Nat]
      BY <1>6, <1>7, <1>10 DEF BackTypes, StoreTypeOK, BackendTypeOK
    <2> QED
      BY <1>4, <1>10, <2>1, <2>2, EndsTypes
      DEF BackTypes, QueueTypeOK, BackendTypeOK, Outcomes
  <1> QED
    BY <1>5, <1>8, <1>9, <1>10

LEMMA EnqueueTypes ==
    ASSUME BackTypes, NEW c \in Callers, Enqueue(c)
    PROVE  BackTypes'
  <1> DEFINE r == call[c]
             m == Request(r.job, r.work, 0, r.maxRetry)
  <1>1. r \in CallRecord /\ r.job \in Jobs
    BY DEF BackTypes, BackendTypeOK, CallJobs, Enqueue, CallAt
  <1>2. m \in JobRequest
    BY <1>1 DEF CallRecord, Request, JobRequest
  <1>3. UNCHANGED <<storeVars, now, asked, cancelled>>
    BY DEF Enqueue
  <1>4. CASE Reply(c, r.job) /\ UNCHANGED <<topic, faults>>
    BY <1>1, <1>3, <1>4, ReplyTypes DEF BackTypes, StoreTypeOK, QueueTypeOK
  <1>5. ASSUME EnqueueOk(m) \/ EnqueueError(m)
        PROVE  QueueTypeOK' /\ faults' \in 0 .. MaxFaults
    <2>1. UNCHANGED faults \/ \E kind \in FaultKinds : Fault(kind)
      BY <1>5 DEF EnqueueOk, EnqueueError, Fault
    <2> HIDE DEF m
    <2> QED
      BY <1>2, <1>5, <2>1, SentType, FaultsType DEF BackTypes, StoreTypeOK
  <1>6. CASE EnqueueOk(m) /\ Reply(c, r.job)
    BY <1>1, <1>3, <1>5, <1>6, ReplyTypes
  <1>7. CASE EnqueueError(m) /\ Return(c, "brokerError") /\ UNCHANGED submitted
    BY <1>3, <1>5, <1>7, EndsTypes
    DEF BackTypes, StoreTypeOK, BackendTypeOK, Outcomes, storeVars
  <1> QED
    BY <1>4, <1>6, <1>7 DEF Enqueue

LEMMA CancelWriteTypes ==
    ASSUME BackTypes, NEW c \in Callers, CancelWrite(c)
    PROVE  BackTypes'
  <1> DEFINE j == call[c].job
             new == Updated(j, "cancelled", 0)
  <1>1. j \in Jobs
    BY DEF BackTypes, CallJobs, CancelWrite, CallAt
  <1>2. new \in [Jobs -> JobRecord \cup {NoRow}]
    <2>1. RowsType /\ "cancelled" \in Statuses /\ 0 \in Nat
      BY DEF BackTypes, StoreTypeOK, RowsType, Statuses
    <2> HIDE DEF j
    <2> QED
      BY <1>1, <2>1, UpdatedRowsType
  <1>3. /\ UNCHANGED <<paused, outbox, topic, now, asked, submitted>>
        /\ jobs' \in {jobs, new}
        /\ cancelled' \in {cancelled, cancelled \cup {j}}
    BY DEF CancelWrite
  <1>4. PICK o \in {"ok", "storeError"} : Return(c, o)
    BY DEF CancelWrite
  <1>5. UNCHANGED faults \/ \E kind \in FaultKinds : Fault(kind)
    BY DEF CancelWrite, Fault
  <1>6. faults' \in 0 .. MaxFaults
    BY <1>5, FaultsType DEF BackTypes, StoreTypeOK
  <1>7. jobs' \in [Jobs -> JobRecord \cup {NoRow}] /\ cancelled' \subseteq Jobs
    BY <1>1, <1>2, <1>3 DEF BackTypes, StoreTypeOK, BackendTypeOK
  <1> QED
    BY <1>3, <1>4, <1>6, <1>7, EndsTypes
    DEF BackTypes, QueueTypeOK, BackendTypeOK, Outcomes

LEMMA RequeueTypes ==
    ASSUME BackTypes, NEW c \in Callers, Requeue(c)
    PROVE  BackTypes'
  <1>1. call[c] \in CallRecord
    BY DEF BackTypes, BackendTypeOK
  <1>2. UNCHANGED <<storeVars, now, asked, submitted, cancelled>>
    BY DEF Requeue
  <1>3. PICK j \in Jobs :
          LET m == Request(j, call[c].work, 0, 0) IN
          \/ /\ EnqueueOk(m)
             /\ call' = [call EXCEPT ![c].pc = "record", ![c].job = j]
             /\ UNCHANGED outcome
          \/ EnqueueError(m) /\ Return(c, "brokerError")
    BY DEF Requeue
  <1> DEFINE m == Request(j, call[c].work, 0, 0)
  <1>4. m \in JobRequest
    BY <1>1 DEF CallRecord, Request, JobRequest
  <1>5. QueueTypeOK' /\ faults' \in 0 .. MaxFaults
    <2>1. EnqueueOk(m) \/ EnqueueError(m)
      BY <1>3
    <2>2. UNCHANGED faults \/ \E kind \in FaultKinds : Fault(kind)
      BY <2>1 DEF EnqueueOk, EnqueueError, Fault
    <2> HIDE DEF m
    <2> QED
      BY <1>4, <2>1, <2>2, SentType, FaultsType DEF BackTypes, StoreTypeOK
  <1>6. CASE call' = [call EXCEPT ![c].pc = "record", ![c].job = j] /\ UNCHANGED outcome
    <2>1. StoreTypeOK' /\ ClockTypeOK'
      BY <1>2, <1>5 DEF BackTypes, StoreTypeOK, ClockTypeOK, storeVars
    <2>2. call' = [call EXCEPT ![c] = [call[c] EXCEPT !.pc = "record", !.job = j]]
      BY <1>6
    <2>3. [call[c] EXCEPT !.pc = "record", !.job = j] \in CallRecord
      BY <1>1 DEF CallRecord, CallPCs
    <2>4. BackendTypeOK'
      BY <1>2, <1>6, <2>2, <2>3 DEF BackTypes, BackendTypeOK
    <2>5. \A d \in Callers : call'[d] = call[d] \/ call'[d].job \in Jobs
      BY <1>1, <2>2 DEF BackTypes, BackendTypeOK, CallRecord
    <2> QED
      BY <1>5, <2>1, <2>4, <2>5, KeepsCallJobs DEF BackTypes
  <1>7. CASE Return(c, "brokerError")
    BY <1>2, <1>5, <1>7, EndsTypes
    DEF BackTypes, StoreTypeOK, BackendTypeOK, Outcomes, storeVars
  <1> QED
    BY <1>3, <1>6, <1>7

LEMMA RecordTypes ==
    ASSUME BackTypes, NEW c \in Callers, Record(c)
    PROVE  BackTypes'
  <1> DEFINE r == call[c]
             new == Inserted(r.job, r.work, "pending", 0, NoKey)
  <1>1. r \in CallRecord /\ r.job \in Jobs
    BY DEF BackTypes, BackendTypeOK, CallJobs, Record, CallAt
  <1>2. new \in [Jobs -> JobRecord \cup {NoRow}]
    <2>1. RowsType /\ "pending" \in Statuses /\ r.work \in Work
      BY <1>1 DEF BackTypes, StoreTypeOK, RowsType, Statuses, CallRecord
    <2> HIDE DEF r
    <2> QED
      BY <1>1, <2>1, InsertedType
  <1>3. /\ UNCHANGED <<paused, outbox, topic, now, asked, submitted, cancelled>>
        /\ jobs' \in {jobs, new}
    BY DEF Record
  <1>4. PICK o \in {"ok", "storeError"} : Return(c, o)
    BY DEF Record
  <1>5. UNCHANGED faults \/ \E kind \in FaultKinds : Fault(kind)
    BY DEF Record, Fault
  <1>6. faults' \in 0 .. MaxFaults
    BY <1>5, FaultsType DEF BackTypes, StoreTypeOK
  <1>7. jobs' \in [Jobs -> JobRecord \cup {NoRow}]
    BY <1>2, <1>3 DEF BackTypes, StoreTypeOK
  <1> QED
    BY <1>3, <1>4, <1>6, <1>7, EndsTypes
    DEF BackTypes, QueueTypeOK, BackendTypeOK, Outcomes

LEMMA CallStepTypes ==
    ASSUME BackTypes, NEW c \in Callers, CallStep(c)
    PROVE  BackTypes'
  BY LookupTypes, CreateTypes, EnqueueTypes, CancelWriteTypes, RequeueTypes, RecordTypes
  DEF CallStep

LEMMA ApiCrashTypes == BackTypes /\ ApiCrash => BackTypes'
  <1> SUFFICES ASSUME BackTypes, ApiCrash PROVE BackTypes'
    OBVIOUS
  <1>1. faults' \in 0 .. MaxFaults
    BY FaultsType DEF BackTypes, StoreTypeOK, ApiCrash, Fault
  <1>2. call' = [c \in Callers |-> NoCall]
    BY DEF ApiCrash
  <1>3. call' \in [Callers -> CallRecord]
    BY <1>2, NoCallType
  <1>4. CallJobs'
    BY <1>2 DEF CallJobs, NoCall
  <1> QED
    BY <1>1, <1>3, <1>4
    DEF ApiCrash, BackTypes, StoreTypeOK, QueueTypeOK, ClockTypeOK, BackendTypeOK, storeVars

LEMMA BackInitTypes ==
    ASSUME StoreInit, QueueInit, ClockInit, BackendInit
    PROVE  BackTypes
  <1>1. StoreTypeOK
    BY StoreAssumption DEF StoreInit, StoreTypeOK
  <1>2. QueueTypeOK /\ ClockTypeOK
    BY ClockAssumption DEF QueueInit, QueueTypeOK, ClockInit, ClockTypeOK
  <1>3. BackendTypeOK
    BY NoCallType DEF BackendInit, BackendTypeOK
  <1>4. CallJobs
    BY DEF BackendInit, CallJobs, NoCall
  <1> QED
    BY <1>1, <1>2, <1>3, <1>4 DEF BackTypes

----------------------------------------------------------------------------
(***************************************************************************)
(* A key names one job.  The answers name the row with their key, which is *)
(* never another one because the index keeps the rows apart; a request     *)
(* about to enqueue has written such a row, and a replay about to record   *)
(* its row has an id of its own that no row has.                           *)
(***************************************************************************)
UniqueKeys ==
    \A j, k \in Jobs :
        jobs[j] # NoRow /\ jobs[j].key # NoKey /\ SameKey(k, jobs[j].work, jobs[j].key) => j = k

Answered == \A r \in submitted : r.key # NoKey => SameKey(r.job, r.work, r.key)

Making ==
    \A c \in Callers :
        call[c].pc = "enqueue" /\ call[c].key # NoKey
            => SameKey(call[c].job, call[c].work, call[c].key)

Recording ==
    \A c \in Callers :
        call[c].pc = "record" =>
            /\ jobs[call[c].job] = NoRow
            /\ \A d \in Callers : call[d].pc = "record" /\ call[d].job = call[c].job => d = c

KeyInv == UniqueKeys /\ Answered /\ Making /\ Recording

\* No row comes or goes, or gets other work or another key.
KeepsRows ==
    \A j \in Jobs :
        /\ jobs'[j] = NoRow <=> jobs[j] = NoRow
        /\ jobs[j] # NoRow => jobs'[j].work = jobs[j].work /\ jobs'[j].key = jobs[j].key

LEMMA SameJob == BackTypes /\ KeyInv => SameKeySameJob
  <1> SUFFICES ASSUME BackTypes, KeyInv,
                      NEW r \in submitted, NEW s \in submitted,
                      r.key = s.key, r.key # NoKey,
                      r.work.type = s.work.type, r.work.queue = s.work.queue
               PROVE  r.job = s.job
    BY DEF SameKeySameJob
  <1>1. SameKey(r.job, r.work, r.key) /\ SameKey(s.job, s.work, s.key)
    BY DEF KeyInv, Answered
  <1>2. r.job \in Jobs /\ s.job \in Jobs
    BY DEF BackTypes, BackendTypeOK
  <1> QED
    BY <1>1, <1>2 DEF KeyInv, UniqueKeys, SameKey

\* An update of a row is no new row.
LEMMA UpdatedKeeps ==
    ASSUME RowsType, NEW j \in Jobs, NEW status \in Statuses, NEW attempt \in Nat,
           jobs' \in {jobs, Updated(j, status, attempt)}
    PROVE  KeepsRows
  <1>1. CASE jobs' = jobs
    BY <1>1 DEF KeepsRows
  <1>2. CASE jobs[j] = NoRow
    BY <1>2 DEF KeepsRows, Updated
  <1>3. CASE jobs[j] # NoRow /\ jobs' = Updated(j, status, attempt)
    <2>1. jobs[j] \in JobRecord
      BY <1>3 DEF RowsType
    <2> DEFINE new == [jobs[j] EXCEPT !.status = status, !.attempt = attempt]
    <2>2. new \in JobRecord /\ new.work = jobs[j].work /\ new.key = jobs[j].key
      BY <2>1 DEF JobRecord
    <2>3. new # NoRow
      BY <2>2, StoreAssumption
    <2>4. jobs' = [jobs EXCEPT ![j] = new]
      BY <1>3 DEF Updated
    <2>5. \A k \in Jobs : jobs'[k] = IF k = j THEN new ELSE jobs[k]
      BY <2>4 DEF RowsType
    <2> HIDE DEF new
    <2> QED
      BY <1>3, <2>2, <2>3, <2>5 DEF KeepsRows
  <1> QED
    BY <1>1, <1>2, <1>3

\* A step that makes no row, gives no answer and takes no request to its last
\* step changes nothing about keys.
LEMMA QuietKeys ==
    ASSUME BackTypes, KeyInv, KeepsRows, submitted' = submitted,
           \A d \in Callers : call'[d].pc \in {"enqueue", "record"} => call'[d] = call[d]
    PROVE  KeyInv'
  <1>1. ASSUME NEW j \in Jobs, NEW w, NEW key
        PROVE  SameKey(j, w, key)' <=> SameKey(j, w, key)
    BY DEF SameKey, KeepsRows
  <1>2. UniqueKeys'
    <2> SUFFICES ASSUME NEW j \in Jobs, NEW k \in Jobs, jobs'[j] # NoRow,
                        jobs'[j].key # NoKey, SameKey(k, jobs[j].work, jobs[j].key)'
                 PROVE  j = k
      BY DEF UniqueKeys
    <2>1. jobs[j] # NoRow /\ jobs'[j].work = jobs[j].work /\ jobs'[j].key = jobs[j].key
      BY DEF KeepsRows
    <2>2. SameKey(k, jobs[j].work, jobs[j].key)
      BY <2>1 DEF SameKey, KeepsRows
    <2> QED
      BY <2>1, <2>2 DEF KeyInv, UniqueKeys
  <1>3. Answered'
    <2> SUFFICES ASSUME NEW r \in submitted, r.key # NoKey
                 PROVE  SameKey(r.job, r.work, r.key)'
      BY DEF Answered
    <2>1. SameKey(r.job, r.work, r.key) /\ r.job \in Jobs
      BY DEF KeyInv, Answered, BackTypes, BackendTypeOK
    <2> QED
      BY <2>1, <1>1
  <1>4. Making'
    <2> SUFFICES ASSUME NEW c \in Callers, call'[c].pc = "enqueue", call'[c].key # NoKey
                 PROVE  SameKey(call[c].job, call[c].work, call[c].key)'
      BY DEF Making
    <2>1. call'[c] = call[c] /\ call[c].job \in Jobs
      BY DEF BackTypes, CallJobs
    <2>2. SameKey(call[c].job, call[c].work, call[c].key)
      BY <2>1 DEF KeyInv, Making
    <2> QED
      BY <2>1, <2>2 DEF SameKey, KeepsRows
  <1>5. Recording'
    <2> SUFFICES ASSUME NEW c \in Callers, call'[c].pc = "record"
                 PROVE  /\ jobs'[call'[c].job] = NoRow
                        /\ \A d \in Callers : call'[d].pc = "record"
                              /\ call'[d].job = call'[c].job => d = c
      BY DEF Recording
    <2>1. call'[c] = call[c] /\ call[c].job \in Jobs
      BY DEF BackTypes, CallJobs
    <2> QED
      BY <2>1 DEF KeyInv, Recording, KeepsRows
  <1> QED
    BY <1>2, <1>3, <1>4, <1>5 DEF KeyInv

\* A new row with a key of its own, or with none, may be written by a request
\* that is then about to enqueue it, or by anybody else.
LEMMA InsertKeys ==
    ASSUME BackTypes, KeyInv, NEW j \in Jobs, NEW w \in Work, NEW status \in Statuses,
           NEW runAt \in Nat, NEW key \in Keys \cup {NoKey},
           jobs[j] = NoRow,
           jobs' = Inserted(j, w, status, runAt, key),
           key = NoKey \/ \A k \in Jobs : ~SameKey(k, w, key),
           submitted' = submitted,
           \A d \in Callers :
              call'[d].pc = "record" => call'[d] = call[d] /\ call'[d].job # j,
           \A d \in Callers :
              call'[d].pc = "enqueue" =>
                 \/ call'[d] = call[d]
                 \/ call'[d].job = j /\ call'[d].work = w /\ call'[d].key = key
    PROVE  KeyInv'
  <1> DEFINE row == [work |-> w, status |-> status, attempt |-> 0, runAt |-> runAt, key |-> key]
  <1>1. row \in JobRecord /\ row.work = w /\ row.key = key
    BY DEF JobRecord
  <1>2. row # NoRow
    BY <1>1, StoreAssumption
  <1>3. \A k \in Jobs : jobs'[k] = IF k = j THEN row ELSE jobs[k]
    BY DEF Inserted, BackTypes, StoreTypeOK
  <1> HIDE DEF row
  <1>4. ASSUME NEW k \in Jobs, NEW v, NEW y, SameKey(k, v, y)
        PROVE  SameKey(k, v, y)' /\ k # j
    BY <1>3, <1>4 DEF SameKey
  <1>5. ASSUME NEW k \in Jobs, NEW v, NEW y, SameKey(k, v, y)', k # j
        PROVE  SameKey(k, v, y)
    BY <1>3, <1>5 DEF SameKey
  <1>6. UniqueKeys'
    <2> SUFFICES ASSUME NEW i \in Jobs, NEW k \in Jobs, jobs'[i] # NoRow,
                        jobs'[i].key # NoKey, jobs'[k] # NoRow, jobs'[k].key = jobs'[i].key,
                        jobs'[k].work.type = jobs'[i].work.type,
                        jobs'[k].work.queue = jobs'[i].work.queue
                 PROVE  i = k
      BY DEF UniqueKeys, SameKey
    <2>1. CASE i # j /\ k # j
      BY <2>1, <1>3 DEF KeyInv, UniqueKeys, SameKey
    <2>2. CASE i = j /\ k # j
      BY <2>2, <1>1, <1>3 DEF SameKey
    <2>3. CASE i # j /\ k = j
      BY <2>3, <1>1, <1>3 DEF SameKey
    <2> QED
      BY <2>1, <2>2, <2>3
  <1>7. Answered'
    <2> SUFFICES ASSUME NEW r \in submitted, r.key # NoKey
                 PROVE  SameKey(r.job, r.work, r.key)'
      BY DEF Answered
    <2>1. SameKey(r.job, r.work, r.key) /\ r.job \in Jobs
      BY DEF KeyInv, Answered, BackTypes, BackendTypeOK
    <2> QED
      BY <2>1, <1>4
  <1>8. Making'
    <2> SUFFICES ASSUME NEW c \in Callers, call'[c].pc = "enqueue", call'[c].key # NoKey
                 PROVE  /\ jobs'[call'[c].job] # NoRow
                        /\ jobs'[call'[c].job].key = call'[c].key
                        /\ jobs'[call'[c].job].work.type = call'[c].work.type
                        /\ jobs'[call'[c].job].work.queue = call'[c].work.queue
      BY DEF Making, SameKey
    <2>1. CASE call'[c] = call[c]
      <3>1. call[c].job \in Jobs /\ SameKey(call[c].job, call[c].work, call[c].key)
        BY <2>1 DEF BackTypes, CallJobs, KeyInv, Making
      <3> QED
        BY <2>1, <3>1, <1>3 DEF SameKey
    <2>2. CASE call'[c].job = j /\ call'[c].work = w /\ call'[c].key = key
      BY <2>2, <1>1, <1>2, <1>3
    <2> QED
      BY <2>1, <2>2
  <1>9. Recording'
    <2> SUFFICES ASSUME NEW c \in Callers, call'[c].pc = "record"
                 PROVE  /\ jobs'[call'[c].job] = NoRow
                        /\ \A d \in Callers : call'[d].pc = "record"
                              /\ call'[d].job = call'[c].job => d = c
      BY DEF Recording
    <2>1. call'[c] = call[c] /\ call[c].job \in Jobs /\ call[c].job # j
      BY DEF BackTypes, CallJobs
    <2> QED
      BY <2>1, <1>3 DEF KeyInv, Recording
  <1> QED
    BY <1>6, <1>7, <1>8, <1>9 DEF KeyInv

LEMMA SubmitKeys ==
    ASSUME BackTypes, KeyInv, NEW c \in Callers, NEW w, NEW n, NEW t, NEW k, Submit(c, w, n, t, k)
    PROVE  KeyInv'
  <1>1. KeepsRows /\ submitted' = submitted
    BY DEF Submit, storeVars, KeepsRows
  <1>2. \A d \in Callers : call'[d].pc \in {"enqueue", "record"} => call'[d] = call[d]
    BY DEF Submit, BackTypes, BackendTypeOK
  <1> QED
    BY <1>1, <1>2, QuietKeys

\* What a request begins that is about a job, or is refused.
LEMMA BeginKeys ==
    ASSUME BackTypes, KeyInv, NEW c \in Callers, NEW j \in Jobs,
           \/ Cancel(c, j) \/ CancelRefused(c, j) \/ RetryRefused(c, j)
           \/ \E q \in Queues : RetryArchived(c, j, q)
    PROVE  KeyInv'
  <1>1. KeepsRows /\ submitted' = submitted
    BY DEF Cancel, CancelRefused, RetryRefused, RetryArchived, storeVars, KeepsRows
  <1>2. call[c] \in CallRecord
    BY DEF BackTypes, BackendTypeOK
  <1>3. PICK r : call' = [call EXCEPT ![c] = r] /\ r.pc \notin {"enqueue", "record"}
    <2>1. CASE Cancel(c, j)
      <3> DEFINE r == [call[c] EXCEPT !.pc = "cancel", !.job = j]
      <3>1. call' = [call EXCEPT ![c] = r]
        BY <2>1 DEF Cancel
      <3>2. r.pc = "cancel"
        BY <1>2 DEF CallRecord
      <3> QED
        BY <3>1, <3>2
    <2>2. CASE CancelRefused(c, j) \/ RetryRefused(c, j)
      <3>1. call' = [call EXCEPT ![c] = NoCall] /\ NoCall.pc = "idle"
        BY <2>2 DEF CancelRefused, RetryRefused, Return, NoCall
      <3> QED
        BY <3>1
    <2>3. ASSUME NEW q \in Queues, RetryArchived(c, j, q)
          PROVE  \E r : call' = [call EXCEPT ![c] = r] /\ r.pc \notin {"enqueue", "record"}
      <3> DEFINE r == [call[c] EXCEPT !.pc = "requeue", !.job = j,
                                      !.work = [jobs[j].work EXCEPT !.queue = q]]
      <3>1. call' = [call EXCEPT ![c] = r]
        BY <2>3 DEF RetryArchived
      <3>2. r.pc = "requeue"
        BY <1>2 DEF CallRecord
      <3> QED
        BY <3>1, <3>2
    <2> QED
      BY <2>1, <2>2, <2>3
  <1>4. \A d \in Callers : call'[d] = IF d = c THEN r ELSE call[d]
    BY <1>3 DEF BackTypes, BackendTypeOK
  <1> QED
    BY <1>1, <1>3, <1>4, QuietKeys

\* A request that ends is at no step any more.
LEMMA ReturnQuiet ==
    ASSUME BackTypes, NEW c \in Callers, NEW o, Return(c, o)
    PROVE  /\ \A d \in Callers : d # c => call'[d] = call[d]
           /\ call'[c].pc = "idle"
  BY DEF Return, NoCall, BackTypes, BackendTypeOK

\* An answer names a row with the key that was asked for.
LEMMA ReplyKeys ==
    ASSUME BackTypes, KeyInv, NEW c \in Callers, NEW j \in Jobs, Reply(c, j),
           call[c].key # NoKey => SameKey(j, call[c].work, call[c].key),
           UNCHANGED jobs
    PROVE  KeyInv'
  <1>1. \A d \in Callers : call'[d].pc \in {"enqueue", "record"} => call'[d] = call[d]
    BY ReturnQuiet DEF Reply
  <1>2. UniqueKeys' /\ Making' /\ Recording'
    <2>1. UniqueKeys'
      BY DEF KeyInv, UniqueKeys, SameKey
    <2>2. Making'
      BY <1>1 DEF KeyInv, Making, SameKey
    <2>3. Recording'
      BY <1>1 DEF KeyInv, Recording
    <2> QED
      BY <2>1, <2>2, <2>3
  <1>3. Answered'
    <2> SUFFICES ASSUME NEW r \in submitted', r.key # NoKey
                 PROVE  SameKey(r.job, r.work, r.key)'
      BY DEF Answered
    <2>1. SameKey(r.job, r.work, r.key)
      BY DEF KeyInv, Answered, Reply
    <2> QED
      BY <2>1 DEF SameKey
  <1> QED
    BY <1>2, <1>3 DEF KeyInv

LEMMA LookupKeys ==
    ASSUME BackTypes, KeyInv, NEW c \in Callers, Lookup(c)
    PROVE  KeyInv'
  <1> DEFINE same == {j \in Jobs : SameKey(j, call[c].work, call[c].key)}
  <1>1. UNCHANGED jobs
    BY DEF Lookup, storeVars
  <1>2. KeepsRows
    BY <1>1 DEF KeepsRows
  <1>3. CASE CallGoto(c, "create") /\ UNCHANGED submitted
    <2>1. call[c] \in CallRecord
      BY DEF BackTypes, BackendTypeOK
    <2>2. \A d \in Callers : d # c => call'[d] = call[d]
      BY <1>3 DEF CallGoto, BackTypes, BackendTypeOK
    <2>3. call'[c].pc = "create"
      BY <1>3, <2>1 DEF CallGoto, BackTypes, BackendTypeOK, CallRecord
    <2> QED
      BY <1>2, <1>3, <2>2, <2>3, QuietKeys
  <1>4. CASE \E j \in same : Reply(c, j)
    BY <1>1, <1>4, ReplyKeys
  <1>5. CASE Return(c, "storeError") /\ UNCHANGED submitted
    BY <1>2, <1>5, ReturnQuiet, QuietKeys
  <1> QED
    BY <1>3, <1>4, <1>5 DEF Lookup

LEMMA CreateKeys ==
    ASSUME BackTypes, KeyInv, NEW c \in Callers, Create(c)
    PROVE  KeyInv'
  <1> DEFINE r == call[c]
             s == FirstStatus(r.runAt)
             clash == r.key # NoKey /\ \E k \in Jobs : SameKey(k, r.work, r.key)
  <1>1. /\ r \in CallRecord /\ r.work \in Work /\ r.runAt \in Nat
        /\ r.key \in Keys \cup {NoKey} /\ s \in Statuses
    BY DEF BackTypes, BackendTypeOK, CallRecord, FirstStatus, Statuses
  <1>2. submitted' = submitted
    BY DEF Create
  <1>3. PICK j \in Jobs :
          /\ Fresh(j)
          /\ \/ /\ ~clash
                /\ jobs' = Inserted(j, r.work, s, r.runAt, r.key)
                /\ call' = [call EXCEPT ![c].pc = "enqueue", ![c].job = j]
             \/ Return(c, "storeError") /\ UNCHANGED jobs
             \/ /\ Return(c, "storeError")
                /\ ~clash
                /\ jobs' = Inserted(j, r.work, s, r.runAt, r.key)
    BY DEF Create
  <1>4. jobs[j] = NoRow /\ \A d \in Callers : call[d].job # j
    BY <1>3 DEF Fresh
  <1>5. ~clash => r.key = NoKey \/ \A k \in Jobs : ~SameKey(k, r.work, r.key)
    OBVIOUS
  <1>6. CASE /\ ~clash
             /\ jobs' = Inserted(j, r.work, s, r.runAt, r.key)
             /\ call' = [call EXCEPT ![c].pc = "enqueue", ![c].job = j]
    <2>1. call' = [call EXCEPT ![c] = [r EXCEPT !.pc = "enqueue", !.job = j]]
      BY <1>6
    <2>2. \A d \in Callers : d # c => call'[d] = call[d]
      BY <2>1 DEF BackTypes, BackendTypeOK
    <2>3. /\ call'[c].pc = "enqueue" /\ call'[c].job = j
          /\ call'[c].work = r.work /\ call'[c].key = r.key
      BY <1>1, <2>1 DEF BackTypes, BackendTypeOK, CallRecord
    <2>4. \A d \in Callers : call'[d].pc = "record" => call'[d] = call[d] /\ call'[d].job # j
      BY <1>4, <2>2, <2>3
    <2>5. \A d \in Callers : call'[d].pc = "enqueue" =>
              \/ call'[d] = call[d]
              \/ call'[d].job = j /\ call'[d].work = r.work /\ call'[d].key = r.key
      BY <2>2, <2>3
    <2>6. r.key = NoKey \/ \A k \in Jobs : ~SameKey(k, r.work, r.key)
      BY <1>5, <1>6
    <2>7. jobs[j] = NoRow /\ jobs' = Inserted(j, r.work, s, r.runAt, r.key)
      BY <1>4, <1>6
    <2> HIDE DEF r, s, clash
    <2> QED
      BY <1>1, <1>2, <2>4, <2>5, <2>6, <2>7, InsertKeys
  <1>7. CASE Return(c, "storeError") /\ UNCHANGED jobs
    BY <1>2, <1>7, ReturnQuiet, QuietKeys DEF KeepsRows
  <1>8. CASE /\ Return(c, "storeError")
             /\ ~clash
             /\ jobs' = Inserted(j, r.work, s, r.runAt, r.key)
    <2>1. /\ \A d \in Callers : d # c => call'[d] = call[d]
          /\ call'[c].pc = "idle"
      BY <1>8, ReturnQuiet
    <2>2. \A d \in Callers : call'[d].pc = "record" => call'[d] = call[d] /\ call'[d].job # j
      BY <1>4, <2>1
    <2>3. \A d \in Callers : call'[d].pc = "enqueue" => call'[d] = call[d]
      BY <2>1
    <2> HIDE DEF r, s, clash
    <2> QED
      BY <1>1, <1>2, <1>4, <1>5, <1>8, <2>2, <2>3, InsertKeys
  <1> QED
    BY <1>3, <1>6, <1>7, <1>8

LEMMA EnqueueKeys ==
    ASSUME BackTypes, KeyInv, NEW c \in Callers, Enqueue(c)
    PROVE  KeyInv'
  <1>1. UNCHANGED jobs
    BY DEF Enqueue, storeVars
  <1>2. CASE Reply(c, call[c].job)
    <2>1. call[c].job \in Jobs
      BY DEF BackTypes, CallJobs, Enqueue, CallAt
    <2>2. call[c].key # NoKey => SameKey(call[c].job, call[c].work, call[c].key)
      BY DEF KeyInv, Making, Enqueue, CallAt
    <2> QED
      BY <1>1, <1>2, <2>1, <2>2, ReplyKeys
  <1>3. CASE Return(c, "brokerError") /\ UNCHANGED submitted
    BY <1>1, <1>3, ReturnQuiet, QuietKeys DEF KeepsRows
  <1> QED
    BY <1>2, <1>3 DEF Enqueue

LEMMA CancelWriteKeys ==
    ASSUME BackTypes, KeyInv, NEW c \in Callers, CancelWrite(c)
    PROVE  KeyInv'
  <1>1. call[c].job \in Jobs /\ RowsType /\ "cancelled" \in Statuses /\ 0 \in Nat
    BY DEF BackTypes, CallJobs, CancelWrite, CallAt, StoreTypeOK, RowsType, Statuses
  <1>2. jobs' \in {jobs, Updated(call[c].job, "cancelled", 0)} /\ submitted' = submitted
    BY DEF CancelWrite
  <1>3. KeepsRows
    BY <1>1, <1>2, UpdatedKeeps
  <1>4. Return(c, "ok") \/ Return(c, "storeError")
    BY DEF CancelWrite
  <1> QED
    BY <1>2, <1>3, <1>4, ReturnQuiet, QuietKeys

LEMMA RequeueKeys ==
    ASSUME BackTypes, KeyInv, NEW c \in Callers, Requeue(c)
    PROVE  KeyInv'
  <1>1. UNCHANGED jobs /\ submitted' = submitted
    BY DEF Requeue, storeVars
  <1>2. PICK j \in Jobs :
          /\ Fresh(j)
          /\ \/ call' = [call EXCEPT ![c].pc = "record", ![c].job = j]
             \/ Return(c, "brokerError")
    BY DEF Requeue
  <1>3. CASE Return(c, "brokerError")
    BY <1>1, <1>3, ReturnQuiet, QuietKeys DEF KeepsRows
  <1>4. CASE call' = [call EXCEPT ![c].pc = "record", ![c].job = j]
    <2>1. jobs[j] = NoRow /\ \A d \in Callers : call[d].job # j
      BY <1>2 DEF Fresh
    <2>2. call[c] \in CallRecord
      BY DEF BackTypes, BackendTypeOK
    <2>3. /\ \A d \in Callers : d # c => call'[d] = call[d]
          /\ call'[c].pc = "record" /\ call'[c].job = j
      BY <1>4, <2>2 DEF BackTypes, BackendTypeOK, CallRecord
    <2>4. UniqueKeys' /\ Answered'
      BY <1>1 DEF KeyInv, UniqueKeys, Answered, SameKey
    <2>5. Making'
      BY <1>1, <2>3 DEF KeyInv, Making, SameKey
    <2>6. Recording'
      BY <1>1, <2>1, <2>3 DEF KeyInv, Recording
    <2> QED
      BY <2>4, <2>5, <2>6 DEF KeyInv
  <1> QED
    BY <1>2, <1>3, <1>4

LEMMA RecordKeys ==
    ASSUME BackTypes, KeyInv, NEW c \in Callers, Record(c)
    PROVE  KeyInv'
  <1>1. /\ call[c] \in CallRecord /\ call[c].job \in Jobs /\ call[c].work \in Work
        /\ call[c].pc = "record"
    BY DEF BackTypes, BackendTypeOK, CallJobs, Record, CallAt, CallRecord
  <1>2. /\ submitted' = submitted
        /\ jobs' \in {jobs, Inserted(call[c].job, call[c].work, "pending", 0, NoKey)}
        /\ Return(c, "ok") \/ Return(c, "storeError")
    BY DEF Record
  <1>3. /\ \A d \in Callers : d # c => call'[d] = call[d]
        /\ call'[c].pc = "idle"
    BY <1>2, ReturnQuiet
  <1>4. CASE jobs' = jobs
    BY <1>2, <1>3, <1>4, QuietKeys DEF KeepsRows
  <1>5. CASE jobs' = Inserted(call[c].job, call[c].work, "pending", 0, NoKey)
    <2>1. jobs[call[c].job] = NoRow
      BY <1>1 DEF KeyInv, Recording
    <2>2. \A d \in Callers :
             call'[d].pc = "record" => call'[d] = call[d] /\ call'[d].job # call[c].job
      BY <1>1, <1>3 DEF KeyInv, Recording
    <2>3. \A d \in Callers : call'[d].pc = "enqueue" => call'[d] = call[d]
      BY <1>3
    <2>4. "pending" \in Statuses /\ 0 \in Nat /\ NoKey \in Keys \cup {NoKey}
      BY DEF Statuses
    <2> QED
      BY <1>1, <1>2, <1>5, <2>1, <2>2, <2>3, <2>4, InsertKeys
  <1> QED
    BY <1>2, <1>4, <1>5

LEMMA CallStepKeys ==
    ASSUME BackTypes, KeyInv, NEW c \in Callers, CallStep(c)
    PROVE  KeyInv'
  BY LookupKeys, CreateKeys, EnqueueKeys, CancelWriteKeys, RequeueKeys, RecordKeys DEF CallStep

LEMMA ApiCrashKeys == BackTypes /\ KeyInv /\ ApiCrash => KeyInv'
  <1> SUFFICES ASSUME BackTypes, KeyInv, ApiCrash PROVE KeyInv'
    OBVIOUS
  <1>1. KeepsRows /\ submitted' = submitted
    BY DEF ApiCrash, storeVars, KeepsRows
  <1>2. \A d \in Callers : call'[d].pc = "idle"
    BY DEF ApiCrash, NoCall
  <1> QED
    BY <1>1, <1>2, QuietKeys

LEMMA BackInitKeys ==
    ASSUME StoreInit, BackendInit
    PROVE  KeyInv
  BY DEF StoreInit, BackendInit, NoCall, KeyInv, UniqueKeys, Answered, Making, Recording, SameKey

----------------------------------------------------------------------------
\* What the backend's part of a system's invariant is.
BackInv == BackTypes /\ KeyInv

\* A step beside the backend, which may fail or pause queues.
LEMMA BesideBackend ==
    ASSUME BackInv, paused' \in SUBSET Queues,
           UNCHANGED faults \/ \E kind \in FaultKinds : Fault(kind),
           UNCHANGED <<jobs, outbox, topic, now, apiVars>>
    PROVE  BackInv'
  <1>1. faults' \in 0 .. MaxFaults
    BY FaultsType DEF BackInv, BackTypes, StoreTypeOK
  <1>2. BackTypes'
    BY <1>1 DEF BackInv, BackTypes, StoreTypeOK, QueueTypeOK, ClockTypeOK, BackendTypeOK,
                CallJobs, apiVars
  <1>3. KeepsRows /\ submitted' = submitted /\ call' = call
    BY DEF KeepsRows, apiVars
  <1> QED
    BY <1>2, <1>3, QuietKeys DEF BackInv

\* What a request begins, that is all the backend does besides CallStep.
LEMMA BeginTypes ==
    ASSUME BackTypes, NEW c \in Callers, NEW j \in Jobs,
           \/ Cancel(c, j) \/ CancelRefused(c, j) \/ RetryRefused(c, j)
           \/ \E q \in Queues : RetryArchived(c, j, q)
    PROVE  BackTypes'
  BY CancelTypes, RefusedTypes, RetryTypes

LEMMA ClientSubmit ==
    ASSUME BackInv, NEW c \in Callers, NEW w \in Offered, NEW n \in Budgets, NEW t \in RunAts,
           NEW k \in Keys \cup {NoKey}, Submit(c, w, n, t, k)
    PROVE  BackInv'
  <1>1. w \in Work /\ n \in Nat /\ t \in Nat
    BY ClientAssumption, BackendAssumption
  <1> QED
    BY <1>1, SubmitTypes, SubmitKeys DEF BackInv

LEMMA BackendGoesOn ==
    ASSUME BackInv, NEW c \in Callers, CallStep(c)
    PROVE  BackInv'
  BY CallStepTypes, CallStepKeys DEF BackInv

\* A request works for itself, and ends in one of three ways.
LEMMA OwnCall ==
    ASSUME BackTypes, NEW c \in Callers, CallStep(c)
    PROVE  /\ \A d \in Callers : d # c => call'[d] = call[d]
           /\ call'[c].pc = "idle" => outcome'[c] \in {"ok", "storeError", "brokerError"}
           /\ UNCHANGED <<paused, outbox, now>>
  <1>1. ASSUME NEW o \in {"ok", "storeError", "brokerError"}, Return(c, o)
        PROVE  /\ \A d \in Callers : d # c => call'[d] = call[d]
               /\ outcome'[c] \in {"ok", "storeError", "brokerError"}
    BY <1>1 DEF Return, BackTypes, BackendTypeOK
  <1>2. ASSUME NEW r, call' = [call EXCEPT ![c] = r], r.pc # "idle"
        PROVE  (\A d \in Callers : d # c => call'[d] = call[d]) /\ call'[c].pc # "idle"
    BY <1>2 DEF BackTypes, BackendTypeOK
  <1>3. call[c] \in CallRecord
    BY DEF BackTypes, BackendTypeOK
  <1>4. UNCHANGED <<paused, outbox, now>>
    BY DEF CallStep, Lookup, Create, Enqueue, CancelWrite, Requeue, Record, storeVars
  <1>5. \/ \E o \in {"ok", "storeError", "brokerError"} : Return(c, o)
        \/ call' = [call EXCEPT ![c] = [call[c] EXCEPT !.pc = "create"]]
        \/ \E j \in Jobs : call' = [call EXCEPT ![c] = [call[c] EXCEPT !.pc = "enqueue", !.job = j]]
        \/ \E j \in Jobs : call' = [call EXCEPT ![c] = [call[c] EXCEPT !.pc = "record", !.job = j]]
    <2>1. CASE Lookup(c)
      BY <2>1 DEF Lookup, CallGoto, Reply
    <2>2. CASE Create(c)
      <3>1. PICK j \in Jobs :
                \/ call' = [call EXCEPT ![c].pc = "enqueue", ![c].job = j]
                \/ Return(c, "storeError")
        BY <2>2, Zenon DEF Create
      <3>2. [call EXCEPT ![c].pc = "enqueue", ![c].job = j]
                = [call EXCEPT ![c] = [call[c] EXCEPT !.pc = "enqueue", !.job = j]]
        BY DEF BackTypes, BackendTypeOK
      <3> QED
        BY <3>1, <3>2
    <2>3. CASE Enqueue(c)
      BY <2>3 DEF Enqueue, Reply
    <2>4. CASE CancelWrite(c)
      BY <2>4 DEF CancelWrite
    <2>5. CASE Requeue(c)
      BY <2>5 DEF Requeue
    <2>6. CASE Record(c)
      BY <2>6 DEF Record
    <2> QED
      BY <2>1, <2>2, <2>3, <2>4, <2>5, <2>6 DEF CallStep
  <1>6. /\ [call[c] EXCEPT !.pc = "create"].pc # "idle"
        /\ \A j : [call[c] EXCEPT !.pc = "enqueue", !.job = j].pc # "idle"
        /\ \A j : [call[c] EXCEPT !.pc = "record", !.job = j].pc # "idle"
    BY <1>3 DEF CallRecord
  <1>7. CASE \E o \in {"ok", "storeError", "brokerError"} : Return(c, o)
    BY <1>1, <1>4, <1>7
  <1>8. ASSUME NEW r, call' = [call EXCEPT ![c] = r], r.pc # "idle"
        PROVE  /\ \A d \in Callers : d # c => call'[d] = call[d]
               /\ call'[c].pc = "idle" => outcome'[c] \in {"ok", "storeError", "brokerError"}
    BY <1>2, <1>8
  <1>9. CASE call' = [call EXCEPT ![c] = [call[c] EXCEPT !.pc = "create"]]
    BY <1>4, <1>6, <1>8, <1>9
  <1>10. ASSUME NEW j \in Jobs,
                \/ call' = [call EXCEPT ![c] = [call[c] EXCEPT !.pc = "enqueue", !.job = j]]
                \/ call' = [call EXCEPT ![c] = [call[c] EXCEPT !.pc = "record", !.job = j]]
         PROVE  /\ \A d \in Callers : d # c => call'[d] = call[d]
                /\ call'[c].pc = "idle" => outcome'[c] \in {"ok", "storeError", "brokerError"}
    <2>1. CASE call' = [call EXCEPT ![c] = [call[c] EXCEPT !.pc = "enqueue", !.job = j]]
      BY <1>6, <1>8, <2>1
    <2>2. CASE call' = [call EXCEPT ![c] = [call[c] EXCEPT !.pc = "record", !.job = j]]
      BY <1>6, <1>8, <2>2
    <2> QED
      BY <1>10, <2>1, <2>2
  <1> QED
    BY <1>4, <1>5, <1>7, <1>9, <1>10
=============================================================================
