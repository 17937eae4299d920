--------------------------- MODULE ContractProofs ---------------------------
(***************************************************************************)
(* Theorems about what the workers promise when some failures do not       *)
(* happen: no job is left behind when nothing is lost, a job has one       *)
(* outcome when no message is delivered twice, and the workers implement   *)
(* JobContract when only commits fail.  For any number of workers,         *)
(* goroutines and jobs.                                                    *)
(***************************************************************************)
EXTENDS WorkerProofs

----------------------------------------------------------------------------
(***************************************************************************)
(* What the workers write: one row, that of the goroutine's job, or one    *)
(* message, which repeats the one it works on.                             *)
(***************************************************************************)
WritesRow(g) ==
    /\ topic' = topic
    /\ \E status \in Statuses, attempt \in Nat :
          jobs' \in {jobs, Updated(Req(g).job, status, attempt)}

WritesMessage(g) ==
    /\ jobs' = jobs
    /\ \E m \in JobRequest :
          /\ Grown(m)
          /\ m.job = Req(g).job /\ m.work = Req(g).work /\ m.maxRetry = Req(g).maxRetry

\* An UpdateStatus whose error is ignored writes the row of its job or nothing.
LEMMA UpdateWrites ==
    ASSUME NEW g \in Goroutines, NEW status \in Statuses, NEW attempt \in Nat,
           UpdateStatus(Req(g).job, status, attempt), topic' = topic
    PROVE  WritesRow(g)
  BY DEF UpdateStatus, WritesRow

LEMMA StepWrites ==
    ASSUME TypeOK, NEW g \in Goroutines, GoroutineStep(g)
    PROVE  WritesRow(g) \/ WritesMessage(g)
  <1>1. /\ Busy(g) /\ Req(g) \in JobRequest
        /\ Req(g).job \in Jobs /\ Req(g).attempt \in Nat /\ Req(g).maxRetry \in Nat
        /\ NextAttempt(Req(g)) \in Nat /\ Req(g).work \in Work
    BY StepShape, ReqType DEF NextAttempt
  <1>2. CASE Start(g)
    BY <1>1, <1>2, UpdateWrites DEF Start, Statuses
  <1>3. CASE Complete(g)
    BY <1>1, <1>3, UpdateWrites DEF Complete, Statuses
  <1>4. CASE Reject(g)
    BY <1>1, <1>4, UpdateWrites DEF Reject, Statuses
  <1>5. CASE Fail(g)
    BY <1>1, <1>5, UpdateWrites DEF Fail, Statuses
  <1>6. CASE Archive(g)
    BY <1>1, <1>6, UpdateWrites DEF Archive, Statuses
  <1>7. CASE CompleteEmail(g)
    <2>1. "completed" \in Statuses
      BY DEF Statuses
    <2> QED
      BY <1>1, <1>7, <2>1 DEF CompleteEmail, CompleteJobWithOutbox, WritesRow
  <1>8. CASE Retry(g)
    <2> DEFINE m == Request(Req(g).job, Req(g).work, NextAttempt(Req(g)), Req(g).maxRetry)
    <2>1. /\ m \in JobRequest /\ m.job = Req(g).job
          /\ m.work = Req(g).work /\ m.maxRetry = Req(g).maxRetry
      BY <1>1 DEF Request, JobRequest
    <2>2. (EnqueueOk(m) \/ EnqueueError(m)) /\ jobs' = jobs
      BY <1>8 DEF Retry, storeVars
    <2> HIDE DEF m
    <2>3. Grown(m)
      BY <2>1, <2>2, EnqueueGrows DEF TypeOK, QueueTypeOK
    <2> QED
      BY <2>1, <2>2, <2>3 DEF WritesMessage
  <1>9. CASE ~ (\/ Start(g) \/ Complete(g) \/ Reject(g) \/ Fail(g) \/ Archive(g)
                \/ CompleteEmail(g) \/ Retry(g))
    <2>1. jobs' = jobs /\ topic' = topic
      BY <1>9 DEF GoroutineStep, GetQueue, Acquire, Load, Handle, Release, Commit, storeVars
    <2> QED
      BY <1>1, <2>1 DEF WritesRow, Statuses
  <1> QED
    BY <1>2, <1>3, <1>4, <1>5, <1>6, <1>7, <1>8, <1>9

LEMMA WorkerWrites ==
    ASSUME TypeOK, WorkerNext
    PROVE  \/ jobs' = jobs /\ topic' = topic
           \/ \E g \in Goroutines : Busy(g) /\ (WritesRow(g) \/ WritesMessage(g))
  <1>1. ASSUME NEW g \in Goroutines, GoroutineStep(g)
        PROVE  Busy(g) /\ (WritesRow(g) \/ WritesMessage(g))
    BY <1>1, StepWrites, StepShape
  <1>2. ASSUME NEW g \in Goroutines, Fetch(g)
        PROVE  jobs' = jobs /\ topic' = topic
    BY <1>2 DEF Fetch, storeVars
  <1>3. ASSUME Rebalance \/ \E w \in Workers : Crash(w)
        PROVE  jobs' = jobs /\ topic' = topic
    BY <1>3 DEF Rebalance, Crash, storeVars
  <1> QED
    BY <1>1, <1>2, <1>3 DEF WorkerNext

----------------------------------------------------------------------------
(***************************************************************************)
(* Jobs that are not forgotten.  When store and broker answer and no       *)
(* process dies, the log can be cut at a place h that no fetch, commit or  *)
(* goroutine has passed, such that every job that is not settled has a     *)
(* goroutine at work on it or a message after h.  A rebalance, which moves *)
(* the reader back to whatever was committed last, cannot skip those.      *)
(* "But" holds the jobs whose message another component still owes.        *)
(***************************************************************************)
NothingLost == FaultKinds \cap {"store", "broker", "crash"} = {}

Moving(g) == proc[g].pc \notin {"idle", "release", "commit"}
After(h, j) == \E i \in h + 1 .. Len(topic) : topic[i].job = j

Passed(h) ==
    /\ h \in 0 .. Len(topic)
    /\ cursor <= h /\ committed <= h
    /\ \A g \in Goroutines : Busy(g) => proc[g].msg <= h

Held(h, But) ==
    \A j \in Jobs \ But : jobs[j] # NoRow /\ ~Settled(j) => InFlight(j) \/ After(h, j)

\* Where process got to agrees with the type of the job.
KnownPCs == {"handle", "outbox", "complete", "fail", "retry", "archive"}

Matched(g) ==
    /\ At(g, "reject") => Req(g).work.type \notin Registered
    /\ proc[g].pc \in KnownPCs => Req(g).work.type \in Registered

Branched == \A g \in Goroutines : Matched(g)

Unhindered == WorkAgrees /\ Branched /\ paused = {}

\* What is in flight, or after h, stays so when goroutines do not move and the
\* log grows.
LEMMA FlightKept ==
    ASSUME TypeOK, KeepsLog, NEW g \in Goroutines, proc'[g] = proc[g], Moving(g), NEW j,
           Req(g).job = j
    PROVE  InFlight(j)'
  <1>1. Busy(g)
    BY DEF Moving, Busy
  <1>2. Req(g)' = Req(g)
    BY <1>1, ReqKept
  <1> QED
    BY <1>2 DEF InFlight, Moving

LEMMA AfterKept ==
    ASSUME TypeOK, KeepsLog, topic' \in Seq(JobRequest), Len(topic') >= Len(topic),
           NEW h \in 0 .. Len(topic), NEW j, After(h, j)
    PROVE  After(h, j)'
  <1>1. Len(topic) \in Nat /\ Len(topic') \in Nat
    BY LenProperties DEF TypeOK, QueueTypeOK
  <1>2. PICK i \in h + 1 .. Len(topic) : topic[i].job = j
    BY DEF After
  <1>3. i \in h + 1 .. Len(topic') /\ topic'[i] = topic[i]
    BY <1>1, <1>2 DEF KeepsLog
  <1> QED
    BY <1>2, <1>3 DEF After

\* The last message of a log that grew.
LEMMA AfterGrown ==
    ASSUME TypeOK, NEW m \in JobRequest, topic' = Append(topic, m),
           NEW h \in 0 .. Len(topic), NEW j, j = m.job
    PROVE  After(h, j)'
  <1>1. Grown(m) /\ Len(topic') = Len(topic) + 1 /\ Len(topic) \in Nat
    BY AppendGrows, LenProperties DEF TypeOK, QueueTypeOK
  <1>2. Len(topic) + 1 \in h + 1 .. Len(topic') /\ topic'[Len(topic) + 1] = m
    BY <1>1 DEF Grown
  <1> QED
    BY <1>2 DEF After

\* A row that UpdateStatus wrote, when the store answers.
LEMMA WrittenRow ==
    ASSUME TypeOK, NothingLost, NEW j \in Jobs, jobs[j] # NoRow,
           NEW status \in Statuses, NEW attempt \in Nat, UpdateStatus(j, status, attempt)
    PROVE  /\ jobs'[j] # NoRow /\ jobs'[j].status = status
           /\ jobs'[j].work = jobs[j].work /\ jobs'[j].attempt = attempt
  <1>1. jobs' = Updated(j, status, attempt)
    BY DEF UpdateStatus, Fault, NothingLost
  <1> QED
    BY <1>1, UpdatedRow, RowsKept

\* A goroutine leaves its job only when it has settled it, or has put the next
\* attempt into the topic.
LEMMA StepOutcome ==
    ASSUME TypeOK, Unhindered, NothingLost, NEW g \in Goroutines, GoroutineStep(g),
           NEW j, j = Req(g).job
    PROVE  \/ ~Moving(g) /\ jobs' = jobs
           \/ proc'[g].pc \in BusyPCs \ {"release", "commit"}
           \/ Settled(j)'
           \/ \E m \in JobRequest : m.job = j /\ topic' = Append(topic, m)
  <1> DEFINE r == Req(g)
  <1>1. /\ Busy(g) /\ r \in JobRequest /\ j \in Jobs /\ j = r.job
        /\ r.attempt \in Nat /\ NextAttempt(r) \in Nat /\ r.work \in Work
        /\ r.maxRetry \in Nat
    BY StepShape, ReqType DEF NextAttempt
  <1>2. jobs[j] # NoRow /\ jobs[j].work = r.work
    BY <1>1, ReqRow DEF Unhindered
  <1>3. ASSUME NEW pc \in BusyPCs \ {"release", "commit"}, Goto(g, pc)
        PROVE  proc'[g].pc \in BusyPCs \ {"release", "commit"}
    BY <1>3 DEF Goto, TypeOK, WorkerTypeOK
  <1> HIDE DEF r
  <1>4. CASE GetQueue(g)
    <2>1. Goto(g, "acquire")
      BY <1>4, Zenon DEF GetQueue, Unhindered, Fault, NothingLost
    <2> QED
      BY <1>3, <2>1 DEF BusyPCs, HoldingPCs
  <1>5. CASE Acquire(g)
    BY <1>3, <1>5 DEF Acquire, BusyPCs, HoldingPCs
  <1>6. CASE Load(g)
    <2>1. \/ Goto(g, "start")
          \/ jobs[j].status = "cancelled" /\ jobs' = jobs
      BY <1>1, <1>6 DEF Load, Fault, NothingLost, storeVars, r
    <2>2. CASE jobs[j].status = "cancelled" /\ jobs' = jobs
      BY <1>2, <2>2 DEF Settled
    <2> QED
      BY <1>3, <2>1, <2>2 DEF BusyPCs, HoldingPCs
  <1>7. CASE Start(g)
    BY <1>3, <1>7 DEF Start, Branch, BusyPCs, HoldingPCs
  <1>8. CASE Handle(g)
    BY <1>3, <1>8 DEF Handle, BusyPCs, HoldingPCs
  <1>9. CASE Complete(g)
    <2>1. jobs'[j] # NoRow /\ jobs'[j].status = "completed"
      BY <1>1, <1>2, <1>9, WrittenRow DEF Complete, Statuses, r
    <2> QED
      BY <2>1 DEF Settled
  <1>10. CASE CompleteEmail(g)
    <2>1. jobs' = Updated(j, "completed", r.attempt)
      BY <1>1, <1>10 DEF CompleteEmail, CompleteJobWithOutbox, Fault, NothingLost, r
    <2>3. jobs'[j].status = "completed" /\ jobs'[j] # NoRow
      BY <1>1, <1>2, <2>1, UpdatedRow, RowsKept DEF Statuses
    <2> QED
      BY <2>3 DEF Settled
  <1>11. CASE Reject(g)
    <2>1. jobs'[j] # NoRow /\ jobs'[j].status = "failed" /\ jobs'[j].work = r.work
      BY <1>1, <1>2, <1>11, WrittenRow DEF Reject, Statuses, r
    <2>2. r.work.type \notin Registered
      BY <1>11 DEF Reject, Unhindered, Branched, Matched, r
    <2> QED
      BY <2>1, <2>2 DEF Settled
  <1>12. CASE Fail(g)
    BY <1>3, <1>12 DEF Fail, BusyPCs, HoldingPCs
  <1>13. CASE Retry(g)
    <2> DEFINE m == Request(r.job, r.work, NextAttempt(r), r.maxRetry)
    <2>1. m \in JobRequest /\ m.job = j
      BY <1>1 DEF Request, JobRequest
    <2>2. topic' = Append(topic, m)
      BY <1>13 DEF Retry, EnqueueOk, EnqueueError, Fault, NothingLost, r
    <2> QED
      BY <2>1, <2>2 DEF r
  <1>14. CASE Archive(g)
    <2>1. jobs'[j] # NoRow /\ jobs'[j].status = "archived"
      BY <1>1, <1>2, <1>14, WrittenRow DEF Archive, Statuses, r
    <2> QED
      BY <2>1 DEF Settled
  <1>15. CASE Release(g) \/ Commit(g)
    BY <1>15 DEF Release, Commit, Moving, At, storeVars
  <1> QED
    BY <1>4, <1>5, <1>6, <1>7, <1>8, <1>9, <1>10, <1>11, <1>12, <1>13, <1>14, <1>15
       DEF GoroutineStep

\* A goroutine that was not moved.
LEMMA MatchedKept ==
    ASSUME TypeOK, KeepsLog, NEW h \in Goroutines, proc'[h] = proc[h], Matched(h)
    PROVE  Matched(h)'
  <1>1. CASE Busy(h)
    <2>1. Req(h)' = Req(h)
      BY <1>1, ReqKept
    <2> QED
      BY <2>1 DEF Matched, At
  <1>2. CASE ~Busy(h)
    BY <1>2 DEF Matched, At, Busy, KnownPCs
  <1> QED
    BY <1>1, <1>2

\* Start branches on the type of the job, and the later steps stay on its branch.
LEMMA BranchStep ==
    ASSUME TypeOK, Branched, WorkerNext
    PROVE  Branched'
  <1>0. ASSUME topic' = topic PROVE KeepsLog
    BY <1>0 DEF KeepsLog
  <1>1. ASSUME NEW g \in Goroutines, GoroutineStep(g)
        PROVE  Branched'
    <2>1. /\ Busy(g) /\ KeepsLog
          /\ \A h \in Goroutines \ {g} : proc'[h] = proc[h]
          /\ proc'[g].pc # "idle" => proc'[g].msg = proc[g].msg
      BY <1>1, StepShape
    <2>2. CASE proc'[g].pc \notin KnownPCs \cup {"reject"}
      BY <2>1, <2>2, MatchedKept DEF Branched, Matched, At
    <2>3. CASE proc'[g].pc \in KnownPCs \cup {"reject"}
      <3>1. Req(g)' = Req(g)
        BY <2>1, <2>3, ReqKept DEF KnownPCs
      <3>2. CASE Start(g)
        <4>1. proc'[g].pc = Branch(Req(g).work)
          BY <3>2 DEF Start, Goto, TypeOK, WorkerTypeOK
        <4>2. Matched(g)'
          BY <3>1, <4>1, StoreAssumption DEF Branch, Matched, At, KnownPCs
        <4> QED
          BY <2>1, <4>2, MatchedKept DEF Branched
      <3>3. CASE ~Start(g)
        <4>1. proc[g].pc \in KnownPCs /\ proc'[g].pc # "reject"
          BY <1>1, <2>3, <3>3
             DEF GoroutineStep, GetQueue, Acquire, Load, Handle, Complete, CompleteEmail,
                 Reject, Fail, Retry, Archive, Release, Commit, Goto, Idle, At, KnownPCs,
                 TypeOK, WorkerTypeOK
        <4>2. Matched(g)'
          BY <3>1, <4>1 DEF Branched, Matched, At
        <4> QED
          BY <2>1, <4>2, MatchedKept DEF Branched
      <3> QED
        BY <3>2, <3>3
    <2> QED
      BY <2>2, <2>3
  <1>2. ASSUME NEW g \in Goroutines, Fetch(g)
        PROVE  Branched'
    <2>1. /\ \A h \in Goroutines \ {g} : proc'[h] = proc[h]
          /\ proc'[g].pc = "getQueue" /\ topic' = topic
      BY <1>2 DEF Fetch, TypeOK, WorkerTypeOK
    <2> QED
      BY <1>0, <2>1, MatchedKept DEF Branched, Matched, At, KnownPCs
  <1>3. CASE Rebalance
    BY <1>0, <1>3, MatchedKept DEF Rebalance, Branched
  <1>4. ASSUME NEW w \in Workers, Crash(w)
        PROVE  Branched'
    <2>1. \A h \in Goroutines : proc'[h] = proc[h] \/ proc'[h].pc = "idle"
      BY <1>4 DEF Crash, Idle
    <2> QED
      BY <1>0, <1>4, <2>1, MatchedKept DEF Crash, Branched, Matched, At, KnownPCs
  <1> QED
    BY <1>1, <1>2, <1>3, <1>4 DEF WorkerNext

\* The workers keep every message in line with its row.
LEMMA WorkerKeepsWork ==
    ASSUME TypeOK, WorkAgrees, WorkerNext
    PROVE  WorkAgrees'
  <1>1. CASE jobs' = jobs /\ topic' = topic
    BY <1>1 DEF WorkAgrees
  <1>2. ASSUME NEW g \in Goroutines, Busy(g), WritesRow(g)
        PROVE  WorkAgrees'
    <2>1. Req(g).job \in Jobs
      BY <1>2, ReqType
    <2>2. \A k \in Jobs : jobs[k] # NoRow => jobs'[k] # NoRow /\ jobs'[k].work = jobs[k].work
      BY <1>2, <2>1, RowsKept DEF WritesRow
    <2> QED
      BY <1>2, <2>2, WorkKept DEF WritesRow
  <1>3. ASSUME NEW g \in Goroutines, Busy(g), WritesMessage(g)
        PROVE  WorkAgrees'
    <2>1. jobs[Req(g).job] # NoRow /\ jobs[Req(g).job].work = Req(g).work
      BY <1>3, ReqRow
    <2> QED
      BY <1>3, <2>1, WorkKept DEF WritesMessage
  <1> QED
    BY <1>1, <1>2, <1>3, WorkerWrites

LEMMA PausedKept ==
    ASSUME WorkerNext
    PROVE  paused' = paused
  BY DEF WorkerNext, GoroutineStep, Fetch, GetQueue, Acquire, Load, Start, Handle, Complete,
         CompleteEmail, Reject, Fail, Retry, Archive, Release, Commit, Rebalance, Crash, storeVars

\* A step that leaves the rows and moves no goroutine out of flight.
LEMMA HeldStays ==
    ASSUME TypeOK, KeepsLog, topic' \in Seq(JobRequest), Len(topic') >= Len(topic),
           jobs' = jobs, NEW h \in 0 .. Len(topic), NEW But, Held(h, But),
           \A g \in Goroutines : Moving(g) => proc'[g] = proc[g]
    PROVE  Held(h, But)'
  <1> SUFFICES ASSUME NEW j \in Jobs \ But, jobs'[j] # NoRow, ~Settled(j)'
               PROVE  InFlight(j)' \/ After(h, j)'
    BY DEF Held
  <1>1. jobs[j] # NoRow /\ ~Settled(j)
    BY DEF Settled
  <1>2. CASE InFlight(j)
    <2>1. PICK g \in Goroutines : Moving(g) /\ Req(g).job = j
      BY <1>2 DEF InFlight, Moving
    <2> QED
      BY <2>1, FlightKept
  <1>3. CASE After(h, j)
    BY <1>3, AfterKept
  <1> QED
    BY <1>1, <1>2, <1>3 DEF Held

\* The step of a goroutine.
LEMMA HeldGoroutine ==
    ASSUME TypeOK, Unhindered, NothingLost, NEW g \in Goroutines, GoroutineStep(g),
           NEW h \in 0 .. Len(topic), NEW But, Held(h, But)
    PROVE  Held(h, But)'
  <1>1. /\ Busy(g) /\ KeepsLog
        /\ topic' \in Seq(JobRequest) /\ Len(topic') >= Len(topic)
        /\ \A k \in Goroutines \ {g} : proc'[k] = proc[k]
        /\ proc'[g].pc # "idle" => proc'[g].msg = proc[g].msg
    BY StepShape
  <1>2. PICK a \in Jobs : a = Req(g).job
    BY <1>1, ReqType
  <1>3. \A j \in Jobs \ {a} : jobs'[j] = jobs[j]
    <2>1. CASE WritesRow(g)
      BY <1>2, <2>1, UpdatedRows DEF WritesRow
    <2>2. CASE WritesMessage(g)
      BY <2>2 DEF WritesMessage
    <2> QED
      BY <2>1, <2>2, StepWrites
  <1>4. SUFFICES ASSUME NEW j \in Jobs \ But, jobs'[j] # NoRow, ~Settled(j)'
                 PROVE  InFlight(j)' \/ After(h, j)'
    BY DEF Held
  <1>5. ASSUME jobs'[j] = jobs[j], j # a \/ ~Moving(g)
        PROVE  InFlight(j)' \/ After(h, j)'
    <2>1. jobs[j] # NoRow /\ ~Settled(j)
      BY <1>4, <1>5 DEF Settled
    <2>2. CASE InFlight(j)
      <3>1. PICK k \in Goroutines : Moving(k) /\ Req(k).job = j
        BY <2>2 DEF InFlight, Moving
      <3>2. k # g
        BY <1>2, <1>5, <3>1
      <3> QED
        BY <1>1, <3>1, <3>2, FlightKept
    <2>3. CASE After(h, j)
      BY <1>1, <2>3, AfterKept
    <2> QED
      BY <2>1, <2>2, <2>3 DEF Held
  <1>6. CASE j # a
    BY <1>3, <1>5, <1>6
  <1>7. CASE j = a /\ ~Moving(g) /\ jobs' = jobs
    BY <1>5, <1>7
  <1>8. CASE j = a /\ proc'[g].pc \in BusyPCs \ {"release", "commit"}
    <2>1. proc'[g].pc \notin {"idle", "release", "commit"}
      BY <1>8 DEF BusyPCs, HoldingPCs
    <2>2. Req(g)' = Req(g)
      BY <1>1, <2>1, ReqKept
    <2> QED
      BY <1>2, <1>8, <2>1, <2>2 DEF InFlight
  <1>9. ASSUME j = a, NEW m \in JobRequest, m.job = a, topic' = Append(topic, m)
        PROVE  After(h, j)'
    BY <1>9, AfterGrown
  <1> QED
    BY <1>2, <1>4, <1>6, <1>7, <1>8, <1>9, StepOutcome

\* The place h after a step that commits and moves on no further.
LEMMA PassedStays ==
    ASSUME TypeOK, KeepsLog, topic' \in Seq(JobRequest), Len(topic') >= Len(topic),
           NEW h, Passed(h), cursor' \in {cursor, committed},
           committed' = committed \/ \E g \in Goroutines : Busy(g) /\ committed' = proc[g].msg,
           \A g \in Goroutines : Busy(g)' => Busy(g) /\ proc'[g].msg = proc[g].msg
    PROVE  Passed(h)'
  <1>1. Len(topic) \in Nat /\ Len(topic') \in Nat
    BY LenProperties DEF TypeOK, QueueTypeOK
  <1>2. h \in 0 .. Len(topic')
    BY <1>1 DEF Passed
  <1> QED
    BY <1>2 DEF Passed

\* A fetch takes the first message after the cursor, which may be the first
\* after h.
LEMMA HeldFetch ==
    ASSUME TypeOK, NEW g \in Goroutines, Fetch(g), NEW h, Passed(h), NEW But, Held(h, But)
    PROVE  \E k \in Nat : Passed(k)' /\ Held(k, But)'
  <1>1. /\ topic' = topic /\ jobs' = jobs /\ committed' = committed
        /\ cursor < Len(topic) /\ cursor' = cursor + 1 /\ proc[g].pc = "idle"
        /\ \A k \in Goroutines \ {g} : proc'[k] = proc[k]
        /\ proc'[g].pc = "getQueue" /\ proc'[g].msg = cursor + 1
    BY DEF Fetch, storeVars, Idle, TypeOK, WorkerTypeOK
  <1>2. /\ Len(topic) \in Nat /\ h \in 0 .. Len(topic) /\ cursor \in Nat
        /\ topic \in Seq(JobRequest) /\ committed \in Nat
    BY LenProperties DEF TypeOK, QueueTypeOK, WorkerTypeOK, Passed
  <1>3. \A k \in Goroutines : Busy(k) => proc[k].msg \in Nat
    BY <1>2 DEF TypeOK, WorkerTypeOK
  <1>4. Held(h, But)'
    BY <1>1, <1>2, HeldStays DEF Moving, KeepsLog
  <1>5. CASE cursor + 1 <= h
    <2>1. Passed(h)'
      BY <1>1, <1>2, <1>5 DEF Passed, Busy
    <2> QED
      BY <1>2, <1>4, <2>1
  <1>6. CASE cursor + 1 > h
    <2>1. PICK k \in Nat : k = cursor + 1 /\ k = h + 1
      BY <1>2, <1>6 DEF Passed
    <2>2. Passed(k)'
      BY <1>1, <1>2, <1>3, <2>1 DEF Passed, Busy
    <2>3. ASSUME NEW j \in Jobs \ But, jobs'[j] # NoRow, ~Settled(j)'
          PROVE  InFlight(j)' \/ After(k, j)'
      <3>1. CASE InFlight(j)'
        BY <3>1
      <3>2. CASE After(h, j)'
        <4>1. PICK i \in h + 1 .. Len(topic) : topic[i].job = j
          BY <1>1, <3>2 DEF After
        <4>2. CASE i = k
          BY <1>1, <2>1, <4>1, <4>2 DEF InFlight, Req
        <4>3. CASE i # k
          <5>1. i \in k + 1 .. Len(topic)
            BY <1>2, <2>1, <4>3
          <5> QED
            BY <1>1, <4>1, <5>1 DEF After
        <4> QED
          BY <4>2, <4>3
      <3> QED
        BY <1>4, <2>3, <3>1, <3>2 DEF Held
    <2>4. Held(k, But)'
      BY <2>3 DEF Held
    <2> QED
      BY <2>2, <2>4
  <1> QED
    BY <1>2, <1>5, <1>6 DEF Passed

\* Every step of the workers.
LEMMA HeldStep ==
    ASSUME TypeOK, Unhindered, NothingLost, WorkerNext, NEW h, Passed(h), NEW But, Held(h, But)
    PROVE  \E k \in Nat : Passed(k)' /\ Held(k, But)'
  <1>1. h \in Nat /\ h \in 0 .. Len(topic) /\ Len(topic) \in Nat /\ topic \in Seq(JobRequest)
    BY LenProperties DEF Passed, TypeOK, QueueTypeOK
  <1>2. ASSUME NEW g \in Goroutines, Fetch(g)
        PROVE  \E k \in Nat : Passed(k)' /\ Held(k, But)'
    BY <1>2, HeldFetch
  <1>3. ASSUME NEW g \in Goroutines, GoroutineStep(g)
        PROVE  \E k \in Nat : Passed(k)' /\ Held(k, But)'
    <2>1. /\ Busy(g) /\ KeepsLog
          /\ topic' \in Seq(JobRequest) /\ Len(topic') >= Len(topic)
          /\ \A k \in Goroutines \ {g} : proc'[k] = proc[k]
          /\ proc'[g].pc # "idle" => proc'[g].msg = proc[g].msg
      BY <1>3, StepShape
    <2>2. cursor' = cursor /\ (committed' = committed \/ committed' = proc[g].msg)
      BY <1>3 DEF GoroutineStep, GetQueue, Acquire, Load, Start, Handle, Complete,
                  CompleteEmail, Reject, Fail, Retry, Archive, Release, Commit, consumerVars
    <2>3. Passed(h)'
      BY <2>1, <2>2, PassedStays DEF Busy
    <2>4. Held(h, But)'
      BY <1>1, <1>3, HeldGoroutine
    <2> QED
      BY <1>1, <2>3, <2>4
  <1>4. CASE Rebalance
    <2>1. /\ topic' = topic /\ jobs' = jobs /\ proc' = proc
          /\ committed' = committed /\ cursor' = committed
      BY <1>4 DEF Rebalance, Reassign, storeVars
    <2>2. KeepsLog /\ topic' \in Seq(JobRequest) /\ Len(topic') >= Len(topic)
      BY <1>1, <2>1 DEF KeepsLog
    <2>3. Passed(h)'
      BY <2>1, <2>2, PassedStays DEF Busy
    <2>4. Held(h, But)'
      BY <1>1, <2>1, <2>2, HeldStays
    <2> QED
      BY <1>1, <2>3, <2>4
  <1>5. ~ \E w \in Workers : Crash(w)
    BY DEF Crash, Fault, NothingLost
  <1> QED
    BY <1>2, <1>3, <1>4, <1>5 DEF WorkerNext

\* What the invariant is for: the messages after h are still to be fetched.
LEMMA HeldIsHeld ==
    ASSUME TypeOK, NEW h, Passed(h), NEW But, Held(h, But),
           NEW j \in Jobs \ But, jobs[j] # NoRow, ~Settled(j)
    PROVE  InFlight(j) \/ Awaiting(j)
  <1>1. CASE After(h, j)
    <2>1. PICK i \in h + 1 .. Len(topic) : topic[i].job = j
      BY <1>1 DEF After
    <2>2. i \in cursor + 1 .. Len(topic)
      BY <2>1, LenProperties DEF Passed, TypeOK, QueueTypeOK, WorkerTypeOK
    <2> QED
      BY <2>1, <2>2 DEF Awaiting
  <1> QED
    BY <1>1 DEF Held

StrandInv == Unhindered /\ \E h \in Nat : Passed(h) /\ Held(h, {})

LEMMA StrandInit == Init => StrandInv
  <1> SUFFICES ASSUME Init PROVE StrandInv
    OBVIOUS
  <1> USE DEF Init, StoreInit, QueueInit, WorkerInit
  <1>1. Len(topic) = 0 /\ DOMAIN topic = {}
    BY EmptySeq
  <1>2. Unhindered
    BY <1>1 DEF Unhindered, WorkAgrees, Branched, Matched, At, Idle, KnownPCs
  <1>3. Passed(0) /\ Held(0, {})
    BY <1>1 DEF Passed, Held, Busy, Idle
  <1> QED
    BY <1>2, <1>3 DEF StrandInv

LEMMA StrandStep ==
    ASSUME NothingLost, Base, StrandInv, [Next]_vars
    PROVE  StrandInv'
  <1> USE DEF Base
  <1>1. PICK h \in Nat : Passed(h) /\ Held(h, {})
    BY DEF StrandInv
  <1>2. Unhindered /\ h \in 0 .. Len(topic)
    BY <1>1 DEF StrandInv, Passed
  <1>3. CASE UNCHANGED vars
    <2>1. UNCHANGED <<jobs, paused, topic, proc, cursor, committed>>
      BY <1>3 DEF vars
    <2>2. Unhindered'
      BY <1>2, <2>1 DEF Unhindered, WorkAgrees, Branched, Matched, At, Req
    <2>3. Passed(h)' /\ Held(h, {})'
      BY <1>1, <2>1 DEF Passed, Held, Settled, InFlight, After, Busy, Req
    <2> QED
      BY <2>2, <2>3 DEF StrandInv
  <1>4. CASE WorkerNext
    <2>1. Unhindered'
      BY <1>2, <1>4, WorkerKeepsWork, BranchStep, PausedKept DEF Unhindered
    <2> QED
      BY <1>1, <1>2, <1>4, <2>1, HeldStep DEF StrandInv
  <1>5. ASSUME NEW j \in Jobs, NEW w \in Offered, NEW n \in Budgets, Arrive(j, w, n)
        PROVE  StrandInv'
    <2> DEFINE m == Request(j, w, 0, n)
    <2>1. m \in JobRequest /\ m.job = j /\ m.work = w /\ w \in Work
      BY ClientAssumption DEF Request, JobRequest
    <2>2. /\ jobs[j] = NoRow /\ topic' = Append(topic, m) /\ proc' = proc
          /\ paused' = paused /\ UNCHANGED <<cursor, committed>>
      BY <1>5 DEF Arrive, workerVars
    <2> HIDE DEF m
    <2>3. /\ Grown(m) /\ KeepsLog
          /\ topic' \in Seq(JobRequest) /\ Len(topic') >= Len(topic)
      BY <2>1, <2>2, AppendGrows DEF TypeOK, QueueTypeOK, Grown, KeepsLog
    <2>4. /\ jobs'[j] = [work |-> w, status |-> "pending", attempt |-> 0,
                         runAt |-> 0, key |-> NoKey]
          /\ \A k \in Jobs \ {j} : jobs'[k] = jobs[k]
      BY <1>5 DEF Arrive, Inserted, TypeOK, StoreTypeOK
    <2>5. jobs'[j] # NoRow /\ jobs'[j].work = w
      <3>1. jobs'[j] \in JobRecord
        BY <2>1, <2>4 DEF JobRecord, Statuses
      <3> QED
        BY <2>4, <3>1, StoreAssumption
    <2>6. WorkAgrees'
      BY <1>2, <2>1, <2>2, <2>3, <2>4, <2>5, WorkKept DEF Unhindered
    <2>7. Branched'
      BY <1>2, <2>2, <2>3, MatchedKept DEF Unhindered, Branched
    <2>8. Passed(h)'
      BY <1>1, <2>2, <2>3, PassedStays DEF Busy
    <2>9. ASSUME NEW k \in Jobs, jobs'[k] # NoRow, ~Settled(k)'
          PROVE  InFlight(k)' \/ After(h, k)'
      <3>1. CASE k = j
        BY <1>2, <2>1, <2>2, <3>1, AfterGrown
      <3>2. CASE k # j
        <4>1. jobs[k] # NoRow /\ ~Settled(k)
          BY <2>4, <2>9, <3>2 DEF Settled
        <4>2. CASE InFlight(k)
          <5>1. PICK g \in Goroutines : Moving(g) /\ Req(g).job = k
            BY <4>2 DEF InFlight, Moving
          <5> QED
            BY <2>2, <2>3, <5>1, FlightKept
        <4>3. CASE After(h, k)
          BY <1>2, <2>3, <4>3, AfterKept
        <4> QED
          BY <1>1, <4>1, <4>2, <4>3 DEF Held
      <3> QED
        BY <3>1, <3>2
    <2>10. Held(h, {})'
      BY <2>9 DEF Held
    <2> QED
      BY <1>2, <2>2, <2>6, <2>7, <2>8, <2>10 DEF StrandInv, Unhindered
  <1> QED
    BY <1>3, <1>4, <1>5 DEF Next

\* While store and broker answer and no process dies, no job is stranded: not
\* by commits out of order, failed commits or rebalances.
THEOREM NothingStranded == NothingLost => (Spec => []NoJobStranded)
  <1> SUFFICES ASSUME NothingLost PROVE Spec => []NoJobStranded
    OBVIOUS
  <1>1. Base /\ StrandInv => NoJobStranded
    BY HeldIsHeld DEF Base, StrandInv, NoJobStranded
  <1>2. Base /\ StrandInv /\ [Next]_vars => StrandInv'
    BY StrandStep
  <1> QED
    BY <1>1, <1>2, StrandInit, BaseInv, PTL DEF Spec

----------------------------------------------------------------------------
(***************************************************************************)
(* Outcomes that stand.  When the broker answers, the group is never       *)
(* rebalanced and no process dies, every message is fetched once.  Then a  *)
(* message that is still to be fetched, or that a goroutine works on, is   *)
(* the only one of its job to be so: it is the last of its job in the      *)
(* topic, and its job is not settled.                                      *)
(***************************************************************************)
NoRedelivery == FaultKinds \cap {"broker", "rebalance", "crash"} = {}

Sole(i) == ~After(i, topic[i].job) /\ ~Settled(topic[i].job)

FetchedOnce ==
    /\ \A g \in Goroutines : Busy(g) => proc[g].msg <= cursor
    /\ \A g, h \in Goroutines : Busy(g) /\ Busy(h) /\ proc[g].msg = proc[h].msg => g = h

SoleInv ==
    /\ \A i \in cursor + 1 .. Len(topic) : Sole(i)
    /\ \A g \in Goroutines : Moving(g) => Sole(proc[g].msg)

OnceInv ==
    /\ WorkAgrees /\ Branched /\ FetchedOnce /\ SoleInv
    /\ \A o \in DOMAIN outbox : Settled(outbox[o].job)
    /\ OneOutboxRowPerJob

\* Two such messages are of different jobs.
LEMMA SoleApart ==
    ASSUME TypeOK, NEW i \in 1 .. Len(topic), NEW k \in 1 .. Len(topic), Sole(i), Sole(k), i # k
    PROVE  topic[i].job # topic[k].job
  <1>1. Len(topic) \in Nat
    BY LenProperties DEF TypeOK, QueueTypeOK
  <1>2. i \in k + 1 .. Len(topic) \/ k \in i + 1 .. Len(topic)
    BY <1>1
  <1> QED
    BY <1>2 DEF Sole, After

\* What a goroutine's step does to its own job, a, and to no other one.
LEMMA StepOwn ==
    ASSUME TypeOK, NoRedelivery, WorkAgrees, Branched, NEW g \in Goroutines, GoroutineStep(g),
           NEW a \in Jobs, a = Req(g).job, ~Settled(a) \/ ~Moving(g)
    PROVE  /\ \A k \in Jobs \ {a} : jobs'[k] = jobs[k]
           /\ ~Moving(g) => ~Moving(g)' /\ jobs' = jobs /\ topic' = topic /\ outbox' = outbox
           /\ Moving(g)' => topic' = topic /\ outbox' = outbox /\ ~Settled(a)'
           /\ \/ topic' = topic
              \/ /\ jobs' = jobs /\ outbox' = outbox
                 /\ \E m \in JobRequest : m.job = a /\ topic' = Append(topic, m)
           /\ \/ outbox' = outbox
              \/ outbox' = Append(outbox, [job |-> a, status |-> "pending"]) /\ Settled(a)'
  <1> DEFINE r == Req(g)
  <1>1. /\ Busy(g) /\ r \in JobRequest /\ r.work \in Work
        /\ r.attempt \in Nat /\ r.maxRetry \in Nat /\ NextAttempt(r) \in Nat
    BY StepShape, ReqType DEF NextAttempt
  <1>2. jobs[a] # NoRow /\ jobs[a].work = r.work
    BY <1>1, ReqRow
  <1>3. \A k \in Jobs \ {a} : jobs'[k] = jobs[k]
    <2>1. CASE WritesRow(g)
      BY <2>1, UpdatedRows DEF WritesRow
    <2>2. CASE WritesMessage(g)
      BY <2>2 DEF WritesMessage
    <2> QED
      BY <2>1, <2>2, StepWrites
  <1>4. ASSUME NEW status \in Statuses, NEW attempt \in Nat, UpdateStatus(a, status, attempt)
        PROVE  /\ jobs'[a] # NoRow /\ jobs'[a].work = r.work
               /\ jobs'[a] = jobs[a] \/ jobs'[a].status = status
    BY <1>2, <1>4, UpdatedRows, RowsKept DEF UpdateStatus
  <1> HIDE DEF r
  <1>5. CASE GetQueue(g) \/ Acquire(g) \/ Load(g) \/ Handle(g)
    <2>1. jobs' = jobs /\ topic' = topic /\ outbox' = outbox /\ Moving(g)
      BY <1>5 DEF GetQueue, Acquire, Load, Handle, storeVars, Moving, At
    <2> QED
      BY <2>1 DEF Settled
  <1>6. CASE Start(g)
    <2>1. topic' = topic /\ outbox' = outbox /\ Moving(g)
      BY <1>6 DEF Start, Moving, At
    <2>2. jobs'[a] = jobs[a] \/ jobs'[a].status = "processing"
      BY <1>1, <1>4, <1>6 DEF Start, Statuses, r
    <2>3. ~Settled(a)'
      BY <1>2, <2>1, <2>2 DEF Settled
    <2> QED
      BY <1>3, <2>1, <2>3
  <1>7. CASE Fail(g)
    <2>1. topic' = topic /\ outbox' = outbox /\ Moving(g)
      BY <1>7 DEF Fail, Moving, At
    <2>2. jobs'[a] = jobs[a] \/ (jobs'[a].status = "failed" /\ jobs'[a].work.type \in Registered)
      BY <1>1, <1>4, <1>7 DEF Fail, Statuses, r, Branched, Matched, KnownPCs, At
    <2>3. ~Settled(a)'
      BY <1>2, <2>1, <2>2 DEF Settled
    <2> QED
      BY <1>3, <2>1, <2>3
  <1>8. CASE Complete(g) \/ Reject(g) \/ Archive(g)
    <2>1. topic' = topic /\ outbox' = outbox /\ Moving(g) /\ ~Moving(g)'
      BY <1>8 DEF Complete, Reject, Archive, Moving, At, Goto, TypeOK, WorkerTypeOK
    <2> QED
      BY <1>3, <2>1
  <1>9. CASE CompleteEmail(g)
    <2>1. topic' = topic /\ Moving(g) /\ ~Moving(g)'
      BY <1>9 DEF CompleteEmail, Moving, At, Goto, TypeOK, WorkerTypeOK
    <2>2. CASE CompleteJobWithOutbox(a, "completed", r.attempt)
      <3>1. "completed" \in Statuses /\ jobs' = Updated(a, "completed", r.attempt)
        BY <2>2 DEF CompleteJobWithOutbox, Statuses
      <3>2. jobs'[a] # NoRow /\ jobs'[a].status = "completed"
        BY <1>1, <1>2, <3>1, UpdatedRow, RowsKept
      <3>3. Settled(a)'
        BY <3>2 DEF Settled
      <3> QED
        BY <1>3, <2>1, <2>2, <3>3 DEF CompleteJobWithOutbox
    <2>3. CASE outbox' = outbox
      BY <1>3, <2>1, <2>3
    <2> QED
      BY <1>9, <2>2, <2>3 DEF CompleteEmail, r
  <1>10. CASE Retry(g)
    <2> DEFINE m == Request(a, r.work, NextAttempt(r), r.maxRetry)
    <2>1. m \in JobRequest /\ m.job = a
      BY <1>1 DEF Request, JobRequest
    <2>2. topic' = Append(topic, m)
      BY <1>10 DEF Retry, EnqueueOk, EnqueueError, Fault, NoRedelivery, r
    <2> HIDE DEF m
    <2>3. jobs' = jobs /\ outbox' = outbox /\ Moving(g) /\ ~Moving(g)'
      BY <1>10 DEF Retry, storeVars, Moving, At, Goto, TypeOK, WorkerTypeOK
    <2> QED
      BY <2>1, <2>2, <2>3
  <1>11. CASE Release(g) \/ Commit(g)
    <2>1. /\ jobs' = jobs /\ topic' = topic /\ outbox' = outbox
          /\ ~Moving(g) /\ ~Moving(g)'
      BY <1>11 DEF Release, Commit, storeVars, Moving, At, Goto, Idle, TypeOK, WorkerTypeOK
    <2> QED
      BY <2>1
  <1> QED
    BY <1>5, <1>6, <1>7, <1>8, <1>9, <1>10, <1>11 DEF GoroutineStep

\* A message stays the last one of its job while its row is not settled and what
\* is added to the topic is of another job.
LEMMA SoleKept ==
    ASSUME TypeOK, NEW i \in 1 .. Len(topic), Sole(i), NEW j, j = topic[i].job, ~Settled(j)',
           \/ topic' = topic
           \/ \E m \in JobRequest : m.job # j /\ topic' = Append(topic, m)
    PROVE  Sole(i)'
  <1>1. CASE topic' = topic
    <2>1. topic'[i].job = j
      BY <1>1
    <2> QED
      BY <1>1, <2>1 DEF Sole, After, Settled
  <1>2. ASSUME NEW m \in JobRequest, m.job # j, topic' = Append(topic, m)
        PROVE  Sole(i)'
    <2>1. Grown(m) /\ Len(topic') = Len(topic) + 1 /\ Len(topic) \in Nat
      BY <1>2, AppendGrows, LenProperties DEF TypeOK, QueueTypeOK
    <2>2. topic'[i] = topic[i] /\ topic'[Len(topic) + 1] = m
      BY <2>1 DEF Grown
    <2>3. ASSUME NEW k \in i + 1 .. Len(topic')
          PROVE  topic'[k].job # j
      <3>1. CASE k = Len(topic) + 1
        BY <1>2, <2>2, <3>1
      <3>2. CASE k # Len(topic) + 1
        <4>1. k \in i + 1 .. Len(topic) /\ topic'[k] = topic[k]
          BY <2>1, <3>2 DEF Grown
        <4> QED
          BY <4>1 DEF Sole, After
      <3> QED
        BY <3>1, <3>2
    <2> QED
      BY <2>2, <2>3 DEF Sole, After, Settled
  <1> QED
    BY <1>1, <1>2

\* The outbox after a step that settles what it adds and takes back nothing.
LEMMA OutboxKept ==
    ASSUME TypeOK, OnceInv, \A j \in Jobs : Settled(j) => jobs'[j] = jobs[j],
           \/ outbox' = outbox
           \/ \E a \in Jobs : /\ outbox' = Append(outbox, [job |-> a, status |-> "pending"])
                              /\ ~Settled(a) /\ Settled(a)'
    PROVE  (\A o \in DOMAIN outbox : Settled(outbox[o].job))' /\ OneOutboxRowPerJob'
  <1>1. /\ outbox \in Seq(OutboxRecord) /\ Len(outbox) \in Nat
        /\ DOMAIN outbox = 1 .. Len(outbox)
    BY LenProperties DEF TypeOK, StoreTypeOK
  <1>2. \A o \in DOMAIN outbox :
           outbox[o].job \in Jobs /\ jobs'[outbox[o].job] = jobs[outbox[o].job]
    <2> SUFFICES ASSUME NEW o \in DOMAIN outbox
                 PROVE  outbox[o].job \in Jobs /\ jobs'[outbox[o].job] = jobs[outbox[o].job]
      OBVIOUS
    <2>1. outbox[o] \in OutboxRecord
      BY <1>1, ElementOfSeq
    <2>2. outbox[o].job \in Jobs
      BY <2>1 DEF OutboxRecord
    <2> QED
      BY <2>2 DEF OnceInv
  <1>3. CASE outbox' = outbox
    BY <1>2, <1>3 DEF OnceInv, OneOutboxRowPerJob, Settled
  <1>4. ASSUME NEW a \in Jobs, outbox' = Append(outbox, [job |-> a, status |-> "pending"]),
               ~Settled(a), Settled(a)'
        PROVE  (\A o \in DOMAIN outbox : Settled(outbox[o].job))' /\ OneOutboxRowPerJob'
    <2> DEFINE row == [job |-> a, status |-> "pending"]  n == Len(outbox)
    <2>1. row \in OutboxRecord /\ row.job = a /\ outbox' = Append(outbox, row)
      BY <1>4 DEF OutboxRecord
    <2> HIDE DEF row
    <2>2. /\ DOMAIN outbox' = 1 .. n + 1 /\ outbox'[n + 1].job = a
          /\ \A o \in 1 .. n : outbox'[o] = outbox[o]
      <3>1. /\ outbox' \in Seq(OutboxRecord)
            /\ Len(outbox') = Len(outbox) + 1
            /\ outbox'[Len(outbox) + 1] = row
            /\ \A o \in 1 .. Len(outbox) : outbox'[o] = outbox[o]
        <4>1. outbox \in Seq(OutboxRecord) /\ row \in OutboxRecord
          BY <1>1, <2>1
        <4> QED
          BY <2>1, <4>1, AppendProperties
      <3>2. DOMAIN outbox' = 1 .. n + 1
        BY <3>1, LenProperties
      <3> QED
        BY <2>1, <3>1, <3>2
    <2>3. \A o \in 1 .. n : outbox[o].job # a
      BY <1>1, <1>4 DEF OnceInv, Settled
    <2>4. \A o \in 1 .. n + 1 : o = n + 1 \/ o \in 1 .. n
      BY <1>1
    <2> HIDE DEF n
    <2>5. OneOutboxRowPerJob'
      BY <1>1, <2>2, <2>3, <2>4 DEF OneOutboxRowPerJob, OnceInv, n
    <2>6. \A o \in 1 .. n : Settled(outbox[o].job)
      BY <1>1 DEF OnceInv, n
    <2>7. ASSUME NEW o \in 1 .. n + 1
          PROVE  LET j == outbox'[o].job IN
                 /\ jobs'[j] # NoRow
                 /\ \/ jobs'[j].status \in {"completed", "archived", "cancelled"}
                    \/ jobs'[j].status = "failed" /\ jobs'[j].work.type \notin Registered
      <3>1. ASSUME o \in 1 .. n
            PROVE  /\ jobs'[outbox'[o].job] = jobs[outbox'[o].job]
                   /\ outbox'[o] = outbox[o] /\ Settled(outbox[o].job)
        <4>1. o \in DOMAIN outbox /\ outbox'[o] = outbox[o] /\ Settled(outbox[o].job)
          BY <1>1, <2>2, <2>6, <3>1 DEF n
        <4>2. jobs'[outbox[o].job] = jobs[outbox[o].job]
          BY <1>2, <4>1
        <4> QED
          BY <4>1, <4>2
      <3>2. CASE o = n + 1
        BY <1>4, <2>2, <3>2 DEF Settled
      <3>3. CASE o \in 1 .. n
        BY <3>1, <3>3 DEF Settled
      <3> QED
        BY <2>4, <3>2, <3>3
    <2> QED
      BY <2>2, <2>5, <2>7 DEF Settled
  <1> QED
    BY <1>3, <1>4

\* The step of a goroutine settles at most its own job.
LEMMA StandsGoroutine ==
    ASSUME TypeOK, NoRedelivery, OnceInv, NEW g \in Goroutines, GoroutineStep(g)
    PROVE  \A j \in Jobs : Settled(j) => jobs'[j] = jobs[j]
  <1>1. PICK a \in Jobs : a = Req(g).job
    BY StepShape, ReqType
  <1>2. Moving(g) => ~Settled(a)
    BY <1>1 DEF OnceInv, SoleInv, Sole, Req
  <1> QED
    BY <1>1, <1>2, StepOwn DEF OnceInv

LEMMA OnceGoroutine ==
    ASSUME TypeOK, NoRedelivery, OnceInv, NEW g \in Goroutines, GoroutineStep(g)
    PROVE  FetchedOnce' /\ SoleInv'
           /\ (\A o \in DOMAIN outbox : Settled(outbox[o].job))' /\ OneOutboxRowPerJob'
  <1>1. /\ Busy(g) /\ KeepsLog
        /\ topic' \in Seq(JobRequest) /\ Len(topic') >= Len(topic)
        /\ \A h \in Goroutines \ {g} : proc'[h] = proc[h]
        /\ proc'[g].pc # "idle" => proc'[g].msg = proc[g].msg
    BY StepShape
  <1>2. /\ cursor' = cursor /\ cursor \in Nat /\ cursor <= Len(topic)
        /\ Len(topic) \in Nat /\ Len(topic') \in Nat /\ topic \in Seq(JobRequest)
    <2>1. cursor' = cursor
      BY DEF GoroutineStep, GetQueue, Acquire, Load, Start, Handle, Complete, CompleteEmail,
             Reject, Fail, Retry, Archive, Release, Commit, consumerVars
    <2> QED
      BY <1>1, <2>1, LenProperties DEF TypeOK, QueueTypeOK, WorkerTypeOK
  <1>3. PICK a \in Jobs : a = Req(g).job
    BY <1>1, ReqType
  <1>4. /\ proc[g].msg \in 1 .. Len(topic) /\ topic[proc[g].msg].job = a
        /\ Moving(g) => Sole(proc[g].msg) /\ ~Settled(a)
    BY <1>1, <1>3 DEF TypeOK, WorkerTypeOK, OnceInv, SoleInv, Sole, Req
  <1>5. /\ \A k \in Jobs \ {a} : jobs'[k] = jobs[k]
        /\ ~Moving(g) => ~Moving(g)' /\ jobs' = jobs /\ topic' = topic /\ outbox' = outbox
        /\ Moving(g)' => topic' = topic /\ outbox' = outbox /\ ~Settled(a)'
        /\ \/ topic' = topic
           \/ /\ jobs' = jobs /\ outbox' = outbox
              /\ \E m \in JobRequest : m.job = a /\ topic' = Append(topic, m)
        /\ \/ outbox' = outbox
           \/ outbox' = Append(outbox, [job |-> a, status |-> "pending"]) /\ Settled(a)'
    BY <1>3, <1>4, StepOwn DEF OnceInv
  <1>6. FetchedOnce'
    <2>1. \A h \in Goroutines : Busy(h)' => Busy(h) /\ proc'[h].msg = proc[h].msg
      BY <1>1 DEF Busy
    <2> QED
      BY <1>2, <2>1 DEF OnceInv, FetchedOnce
  <1>7. ASSUME NEW i \in 1 .. Len(topic), Sole(i), i # proc[g].msg
        PROVE  Sole(i)'
    <2>1. PICK j \in Jobs : j = topic[i].job
      <3>1. topic[i] \in JobRequest
        BY <1>2, ElementOfSeq
      <3> QED
        BY <3>1 DEF JobRequest
    <2>2. CASE Moving(g)
      <3>1. j # a
        BY <1>4, <1>7, <2>1, <2>2, SoleApart
      <3>2. ~Settled(j)'
        BY <1>5, <1>7, <2>1, <3>1 DEF Sole, Settled
      <3> QED
        BY <1>5, <1>7, <2>1, <3>1, <3>2, SoleKept
    <2>3. CASE ~Moving(g)
      <3>1. ~Settled(j)'
        BY <1>5, <1>7, <2>1, <2>3 DEF Sole, Settled
      <3> QED
        BY <1>5, <1>7, <2>1, <2>3, <3>1, SoleKept
    <2> QED
      BY <2>2, <2>3
  <1>8. ASSUME NEW i \in cursor + 1 .. Len(topic')
        PROVE  Sole(i)'
    <2>1. CASE i \in 1 .. Len(topic)
      <3>1. i # proc[g].msg
        BY <1>1, <1>2, <1>4 DEF OnceInv, FetchedOnce
      <3>2. Sole(i)
        BY <1>2, <1>8, <2>1 DEF OnceInv, SoleInv
      <3> QED
        BY <1>7, <2>1, <3>1, <3>2
    <2>2. CASE i \notin 1 .. Len(topic)
      <3>1. PICK m \in JobRequest : m.job = a /\ topic' = Append(topic, m)
        BY <1>2, <1>5, <1>8, <2>2
      <3>2. jobs' = jobs /\ Moving(g)
        BY <1>2, <1>5, <1>8, <2>2
      <3>3. Len(topic') = Len(topic) + 1 /\ topic'[Len(topic) + 1] = m
        BY <1>2, <3>1, AppendProperties
      <3>4. i = Len(topic') /\ topic'[i] = m
        BY <1>2, <1>8, <2>2, <3>3
      <3>5. ~Settled(a)'
        BY <1>4, <3>2 DEF Settled
      <3>6. i + 1 .. Len(topic') = {}
        BY <1>2, <3>4
      <3> QED
        BY <3>1, <3>4, <3>5, <3>6 DEF Sole, After, Settled
    <2> QED
      BY <2>1, <2>2
  <1>9. ASSUME NEW h \in Goroutines, Moving(h)'
        PROVE  Sole(proc[h].msg)'
    <2>1. CASE h = g
      <3>1. Moving(g) /\ topic' = topic /\ ~Settled(a)' /\ proc'[g].msg = proc[g].msg
        BY <1>1, <1>5, <1>9, <2>1 DEF Moving
      <3> QED
        BY <1>4, <2>1, <3>1 DEF Sole, After, Settled
    <2>2. CASE h # g
      <3>1. proc'[h] = proc[h] /\ Moving(h) /\ Busy(h)
        BY <1>1, <1>9, <2>2 DEF Moving, Busy
      <3>2. PICK i \in 1 .. Len(topic) : i = proc[h].msg
        BY <3>1 DEF TypeOK, WorkerTypeOK
      <3>3. Sole(i) /\ i # proc[g].msg
        BY <1>1, <2>2, <3>1, <3>2 DEF OnceInv, SoleInv, FetchedOnce
      <3>4. Sole(i)'
        BY <1>7, <3>3
      <3> QED
        BY <3>1, <3>2, <3>4 DEF Sole, After, Settled
    <2> QED
      BY <2>1, <2>2
  <1>10. SoleInv'
    BY <1>2, <1>8, <1>9 DEF SoleInv
  <1>11. (\A o \in DOMAIN outbox : Settled(outbox[o].job))' /\ OneOutboxRowPerJob'
    <2>1. \A j \in Jobs : Settled(j) => jobs'[j] = jobs[j]
      BY StandsGoroutine
    <2>2. outbox' # outbox => ~Settled(a)
      BY <1>4, <1>5
    <2> QED
      BY <1>5, <2>1, <2>2, OutboxKept
  <1> QED
    BY <1>6, <1>10, <1>11

\* A fetch makes the first message after the cursor the goroutine's.
LEMMA OnceFetch ==
    ASSUME TypeOK, OnceInv, NEW g \in Goroutines, Fetch(g)
    PROVE  FetchedOnce' /\ SoleInv'
  <1>1. /\ topic' = topic /\ jobs' = jobs
        /\ cursor < Len(topic) /\ cursor' = cursor + 1
        /\ \A h \in Goroutines \ {g} : proc'[h] = proc[h]
        /\ proc'[g].pc = "getQueue" /\ proc'[g].msg = cursor + 1
        /\ cursor \in Nat /\ Len(topic) \in Nat
    BY LenProperties DEF Fetch, storeVars, TypeOK, WorkerTypeOK, QueueTypeOK
  <1>2. \A h \in Goroutines : Busy(h) => proc[h].msg \in Nat /\ proc[h].msg <= cursor
    BY DEF TypeOK, WorkerTypeOK, OnceInv, FetchedOnce
  <1>3. FetchedOnce'
    <2>1. \A h \in Goroutines \ {g} : Busy(h)' => Busy(h) /\ proc'[h].msg < cursor + 1
      BY <1>1, <1>2 DEF Busy
    <2>2. \A h \in Goroutines : Busy(h)' => proc'[h].msg <= cursor'
      BY <1>1, <2>1, <1>2
    <2>3. ASSUME NEW h \in Goroutines, NEW k \in Goroutines, Busy(h)', Busy(k)',
                 proc'[h].msg = proc'[k].msg
          PROVE  h = k
      <3>1. CASE h # g /\ k # g
        BY <1>1, <2>1, <2>3, <3>1 DEF OnceInv, FetchedOnce
      <3>2. CASE h = g \/ k = g
        BY <1>1, <1>2, <2>1, <2>3, <3>2
      <3> QED
        BY <3>1, <3>2
    <2> QED
      BY <2>2, <2>3 DEF FetchedOnce
  <1>4. ASSUME NEW i \in cursor + 1 .. Len(topic)
        PROVE  Sole(i)'
    <2>1. Sole(i)
      BY DEF OnceInv, SoleInv
    <2> QED
      BY <1>1, <2>1 DEF Sole, After, Settled
  <1>5. \A i \in cursor' + 1 .. Len(topic') : Sole(i)'
    BY <1>1, <1>4
  <1>6. ASSUME NEW h \in Goroutines, Moving(h)'
        PROVE  Sole(proc[h].msg)'
    <2>1. CASE h = g
      <3>1. Sole(cursor + 1)
        BY <1>1 DEF OnceInv, SoleInv
      <3> QED
        BY <1>1, <2>1, <3>1 DEF Sole, After, Settled
    <2>2. CASE h # g
      <3>1. proc'[h] = proc[h] /\ Sole(proc[h].msg)
        BY <1>1, <1>6, <2>2 DEF Moving, OnceInv, SoleInv
      <3> QED
        BY <1>1, <3>1 DEF Sole, After, Settled
    <2> QED
      BY <2>1, <2>2
  <1> QED
    BY <1>3, <1>5, <1>6 DEF SoleInv

\* A new job has one message and one row.
LEMMA ArrivedRow ==
    ASSUME TypeOK, NEW j \in Jobs, NEW w \in Offered, NEW n \in Budgets, Arrive(j, w, n)
    PROVE  /\ jobs[j] = NoRow
           /\ jobs'[j] # NoRow /\ jobs'[j].work = w
           /\ jobs'[j].status = "pending" /\ jobs'[j].attempt = 0
           /\ \A k \in Jobs \ {j} : jobs'[k] = jobs[k]
           /\ Request(j, w, 0, n) \in JobRequest /\ Request(j, w, 0, n).job = j
           /\ Grown(Request(j, w, 0, n)) /\ KeepsLog
           /\ topic' = Append(topic, Request(j, w, 0, n)) /\ Len(topic') = Len(topic) + 1
           /\ UNCHANGED <<paused, outbox, faults, workerVars>>
  <1>1. Request(j, w, 0, n) \in JobRequest /\ Request(j, w, 0, n).job = j /\ w \in Work
    BY ClientAssumption DEF Request, JobRequest
  <1>2. /\ jobs[j] = NoRow /\ topic' = Append(topic, Request(j, w, 0, n))
        /\ UNCHANGED <<paused, outbox, faults, workerVars>>
    BY DEF Arrive
  <1>3. /\ Grown(Request(j, w, 0, n)) /\ KeepsLog /\ Len(topic') = Len(topic) + 1
    BY <1>1, <1>2, AppendGrows DEF TypeOK, QueueTypeOK, Grown, KeepsLog
  <1>4. /\ jobs'[j] = [work |-> w, status |-> "pending", attempt |-> 0,
                       runAt |-> 0, key |-> NoKey]
        /\ \A k \in Jobs \ {j} : jobs'[k] = jobs[k]
    BY DEF Arrive, Inserted, TypeOK, StoreTypeOK
  <1>5. jobs'[j] \in JobRecord
    BY <1>1, <1>4 DEF JobRecord, Statuses
  <1> QED
    BY <1>1, <1>2, <1>3, <1>4, <1>5, StoreAssumption

LEMMA ArriveKeepsWork ==
    ASSUME TypeOK, WorkAgrees, NEW j \in Jobs, NEW w \in Offered, NEW n \in Budgets,
           Arrive(j, w, n)
    PROVE  WorkAgrees'
  <1> DEFINE m == Request(j, w, 0, n)
  <1>1. /\ m \in JobRequest /\ Grown(m) /\ m.job = j
        /\ jobs'[j] # NoRow /\ jobs'[j].work = w
        /\ \A k \in Jobs : jobs[k] # NoRow => jobs'[k] # NoRow /\ jobs'[k].work = jobs[k].work
    BY ArrivedRow
  <1>2. m.work = w
    BY DEF Request
  <1> HIDE DEF m
  <1> QED
    BY <1>1, <1>2, WorkKept

LEMMA OnceArrive ==
    ASSUME TypeOK, OnceInv, NEW j \in Jobs, NEW w \in Offered, NEW n \in Budgets, Arrive(j, w, n)
    PROVE  OnceInv'
  <1>1. PICK m \in JobRequest : m.job = j /\ topic' = Append(topic, m) /\ Grown(m)
    BY ArrivedRow
  <1>2. /\ jobs[j] = NoRow /\ jobs'[j] # NoRow /\ jobs'[j].status = "pending"
        /\ \A k \in Jobs \ {j} : jobs'[k] = jobs[k]
        /\ outbox' = outbox /\ proc' = proc /\ cursor' = cursor /\ KeepsLog
        /\ Len(topic') = Len(topic) + 1 /\ WorkAgrees /\ Branched
        /\ Len(topic) \in Nat /\ cursor \in Nat /\ topic \in Seq(JobRequest)
        /\ DOMAIN topic = 1 .. Len(topic)
    BY ArrivedRow, LenProperties DEF workerVars, OnceInv, TypeOK, QueueTypeOK, WorkerTypeOK
  <1>3. WorkAgrees' /\ Branched' /\ FetchedOnce'
    BY <1>2, ArriveKeepsWork, MatchedKept DEF Branched, OnceInv, FetchedOnce, Busy
  <1>4. ASSUME NEW i \in 1 .. Len(topic), Sole(i)
        PROVE  Sole(i)'
    <2>1. PICK k \in Jobs : k = topic[i].job
      <3>1. topic[i] \in JobRequest
        BY <1>2, ElementOfSeq
      <3> QED
        BY <3>1 DEF JobRequest
    <2>2. k # j
      BY <1>2, <2>1 DEF WorkAgrees
    <2>3. ~Settled(k)'
      BY <1>2, <1>4, <2>1, <2>2 DEF Sole, Settled
    <2> QED
      BY <1>1, <1>4, <2>1, <2>2, <2>3, SoleKept
  <1>5. ASSUME NEW i \in cursor + 1 .. Len(topic')
        PROVE  Sole(i)'
    <2>1. CASE i \in 1 .. Len(topic)
      <3>1. Sole(i)
        BY <1>2, <1>5, <2>1 DEF OnceInv, SoleInv
      <3> QED
        BY <1>4, <2>1, <3>1
    <2>2. CASE i \notin 1 .. Len(topic)
      <3>1. i = Len(topic') /\ i + 1 .. Len(topic') = {}
        BY <1>2, <1>5, <2>2
      <3>2. topic'[i] = m
        BY <1>1, <1>2, <1>5, <2>2, <3>1 DEF Grown
      <3> QED
        BY <1>1, <1>2, <3>1, <3>2 DEF Sole, After, Settled
    <2> QED
      BY <2>1, <2>2
  <1>6. ASSUME NEW h \in Goroutines, Moving(h)'
        PROVE  Sole(proc[h].msg)'
    <2>1. Moving(h) /\ Busy(h)
      BY <1>2, <1>6 DEF Moving, Busy
    <2>2. PICK i \in 1 .. Len(topic) : i = proc[h].msg
      BY <2>1 DEF TypeOK, WorkerTypeOK
    <2>3. Sole(i)'
      BY <1>4, <2>1, <2>2 DEF OnceInv, SoleInv
    <2> QED
      BY <1>2, <2>2, <2>3 DEF Sole, After, Settled
  <1>7. SoleInv'
    BY <1>2, <1>5, <1>6 DEF SoleInv
  <1>8. (\A o \in DOMAIN outbox : Settled(outbox[o].job))' /\ OneOutboxRowPerJob'
    <2>1. \A k \in Jobs : Settled(k) => jobs'[k] = jobs[k]
      BY <1>2 DEF Settled
    <2> QED
      BY <1>2, <2>1, OutboxKept
  <1> QED
    BY <1>3, <1>7, <1>8 DEF OnceInv

LEMMA OnceInit == Init => OnceInv
  <1> SUFFICES ASSUME Init PROVE OnceInv
    OBVIOUS
  <1> USE DEF Init, StoreInit, QueueInit, WorkerInit
  <1>1. Len(topic) = 0 /\ DOMAIN topic = {} /\ DOMAIN outbox = {}
    BY EmptySeq
  <1>2. WorkAgrees /\ Branched
    BY <1>1 DEF WorkAgrees, Branched, Matched, At, Idle, KnownPCs
  <1>3. FetchedOnce /\ SoleInv
    BY <1>1 DEF FetchedOnce, SoleInv, Busy, Moving, Idle
  <1> QED
    BY <1>1, <1>2, <1>3 DEF OnceInv, OneOutboxRowPerJob

\* A step of the workers alone, when every message is fetched once.
LEMMA NoOtherStep ==
    ASSUME NoRedelivery, WorkerNext
    PROVE  \E g \in Goroutines : Fetch(g) \/ GoroutineStep(g)
  BY DEF WorkerNext, Rebalance, Crash, Fault, NoRedelivery

LEMMA OnceStep ==
    ASSUME NoRedelivery, Base, OnceInv, [Next]_vars
    PROVE  OnceInv' /\ \A j \in Jobs : Settled(j) => jobs'[j] = jobs[j]
  <1> USE DEF Base
  <1>1. CASE UNCHANGED vars
    <2>1. UNCHANGED <<jobs, outbox, topic, proc, cursor>>
      BY <1>1 DEF vars
    <2>2. WorkAgrees' /\ Branched' /\ FetchedOnce'
      BY <2>1 DEF OnceInv, WorkAgrees, Branched, Matched, At, Req, FetchedOnce, Busy
    <2>3. SoleInv'
      BY <2>1 DEF OnceInv, SoleInv, Sole, After, Settled, Moving
    <2> QED
      BY <2>1, <2>2, <2>3 DEF OnceInv, OneOutboxRowPerJob, Settled
  <1>2. ASSUME NEW j \in Jobs, NEW w \in Offered, NEW n \in Budgets, Arrive(j, w, n)
        PROVE  OnceInv' /\ \A k \in Jobs : Settled(k) => jobs'[k] = jobs[k]
    BY <1>2, OnceArrive, ArrivedRow DEF Settled
  <1>3. ASSUME NEW g \in Goroutines, Fetch(g)
        PROVE  OnceInv' /\ \A k \in Jobs : Settled(k) => jobs'[k] = jobs[k]
    <2>1. UNCHANGED <<jobs, outbox, topic>> /\ WorkerNext
      BY <1>3 DEF Fetch, storeVars, WorkerNext
    <2>2. WorkAgrees' /\ Branched'
      BY <2>1, WorkerKeepsWork, BranchStep DEF OnceInv
    <2> QED
      BY <1>3, <2>1, <2>2, OnceFetch DEF OnceInv, OneOutboxRowPerJob, Settled
  <1>4. ASSUME NEW g \in Goroutines, GoroutineStep(g)
        PROVE  OnceInv' /\ \A k \in Jobs : Settled(k) => jobs'[k] = jobs[k]
    <2>1. WorkerNext
      BY <1>4 DEF WorkerNext
    <2>2. WorkAgrees' /\ Branched'
      BY <2>1, WorkerKeepsWork, BranchStep DEF OnceInv
    <2> QED
      BY <1>4, <2>2, OnceGoroutine, StandsGoroutine DEF OnceInv
  <1> QED
    BY <1>1, <1>2, <1>3, <1>4, NoOtherStep DEF Next

LEMMA OnceAlways == NoRedelivery => (Spec => [](Base /\ OnceInv))
  <1> SUFFICES ASSUME NoRedelivery PROVE Spec => [](Base /\ OnceInv)
    OBVIOUS
  <1>1. Base /\ OnceInv /\ [Next]_vars => OnceInv'
    BY OnceStep
  <1> QED
    BY <1>1, OnceInit, BaseInv, PTL DEF Spec

\* A completed email is recorded in the outbox once, as long as its message is
\* delivered once.
THEOREM EmailsRecordedOnce == NoRedelivery => (Spec => []OneOutboxRowPerJob)
  <1> SUFFICES ASSUME NoRedelivery PROVE Spec => []OneOutboxRowPerJob
    OBVIOUS
  <1>1. Base /\ OnceInv => OneOutboxRowPerJob
    BY DEF OnceInv
  <1> QED
    BY <1>1, OnceAlways, PTL

\* No step of any goroutine takes back the outcome of a job, even when store
\* calls and commits fail, as long as messages are delivered once.
THEOREM OutcomesAreFinal == NoRedelivery => (Spec => OutcomeStands)
  <1> SUFFICES ASSUME NoRedelivery PROVE Spec => OutcomeStands
    OBVIOUS
  <1>1. Base /\ OnceInv /\ [Next]_vars
          => [\A j \in Jobs : Settled(j) => jobs'[j] = jobs[j]]_vars
    BY OnceStep
  <1> QED
    BY <1>1, OnceAlways, PTL DEF Spec, OutcomeStands

----------------------------------------------------------------------------
(***************************************************************************)
(* The contract.  When only commits fail, a message that is still to be    *)
(* fetched, or that a goroutine works on, also agrees with its row: what   *)
(* process has done with it is what the row says.  A row is then seen to   *)
(* take the steps of JobContract, under the budget of its messages.        *)
(***************************************************************************)
OnlyCommitsFail == FaultKinds \cap {"store", "broker", "rebalance", "crash"} = {}

\* The row of a message that no goroutine has started on.
Fit(m) ==
    /\ jobs[m.job].attempt = m.attempt /\ m.attempt <= m.maxRetry
    /\ jobs[m.job].status \in {"pending", "failed"}

\* The row of a message a goroutine works on.
Stage(g) ==
    LET m == Req(g)  r == jobs[m.job] IN
    /\ proc[g].pc \in {"getQueue", "acquire", "load", "start"} => Fit(m)
    /\ proc[g].pc \in {"handle", "outbox", "complete", "fail", "reject"}
          => r.status = "processing" /\ r.attempt = m.attempt
    /\ proc[g].pc \in {"retry", "archive"}
          => r.status = "failed" /\ r.attempt = NextAttempt(m)
    /\ At(g, "retry") => HasRetryLeft(m)
    /\ At(g, "archive") => ~HasRetryLeft(m)

Budgeted ==
    /\ \A j \in Jobs : jobs[j] # NoRow => \E i \in DOMAIN topic : topic[i].job = j
    /\ \A i, k \in DOMAIN topic :
          topic[i].job = topic[k].job => topic[i].maxRetry = topic[k].maxRetry

StageInv ==
    /\ \A i \in cursor + 1 .. Len(topic) : Fit(topic[i])
    /\ \A g \in Goroutines : Moving(g) => Stage(g)
    /\ Budgeted

\* What is seen of a job with a row: the budget may be read off any message.
LEMMA SeenRow ==
    ASSUME Budgeted, NEW i \in DOMAIN topic, NEW j \in Jobs, j = topic[i].job, jobs[j] # NoRow
    PROVE  JobSeen(j) = [status |-> jobs[j].status, attempt |-> jobs[j].attempt,
                         budget |-> topic[i].maxRetry,
                         known |-> jobs[j].work.type \in Registered]
  <1> DEFINE c == CHOOSE k \in DOMAIN topic : topic[k].job = j
  <1>1. c \in DOMAIN topic /\ topic[c].job = j
    OBVIOUS
  <1>2. topic[c].maxRetry = topic[i].maxRetry
    BY <1>1 DEF Budgeted
  <1> HIDE DEF c
  <1>3. JobSeen(j) = [status |-> jobs[j].status, attempt |-> jobs[j].attempt,
                      budget |-> topic[c].maxRetry,
                      known |-> jobs[j].work.type \in Registered]
    BY DEF JobSeen, c
  <1> QED
    BY <1>2, <1>3

\* A log that grows by messages with the budget of their job shows every row
\* as before.
LEMMA BudgetKept ==
    ASSUME TypeOK, Budgeted, topic' = topic \/ \E m \in JobRequest :
               topic' = Append(topic, m) /\ \E i \in DOMAIN topic :
                   topic[i].job = m.job /\ topic[i].maxRetry = m.maxRetry,
           \A j \in Jobs : jobs'[j] # NoRow => jobs[j] # NoRow
    PROVE  Budgeted'
  <1>1. CASE topic' = topic
    BY <1>1 DEF Budgeted
  <1>2. ASSUME NEW m \in JobRequest, topic' = Append(topic, m),
               NEW i \in DOMAIN topic, topic[i].job = m.job, topic[i].maxRetry = m.maxRetry
        PROVE  Budgeted'
    <2>1. /\ Len(topic') = Len(topic) + 1 /\ Len(topic) \in Nat
          /\ DOMAIN topic = 1 .. Len(topic) /\ DOMAIN topic' = 1 .. Len(topic) + 1
          /\ topic'[Len(topic) + 1] = m
          /\ \A k \in 1 .. Len(topic) : topic'[k] = topic[k]
      <3>1. topic \in Seq(JobRequest) /\ topic' \in Seq(JobRequest)
        BY <1>2, AppendProperties DEF TypeOK, QueueTypeOK
      <3> QED
        BY <1>2, <3>1, AppendProperties, LenProperties
    <2>2. \A j \in Jobs : jobs'[j] # NoRow => \E k \in DOMAIN topic' : topic'[k].job = j
      <3> SUFFICES ASSUME NEW j \in Jobs, jobs'[j] # NoRow
                   PROVE  \E k \in DOMAIN topic' : topic'[k].job = j
        OBVIOUS
      <3>1. PICK k \in DOMAIN topic : topic[k].job = j
        BY DEF Budgeted
      <3> QED
        BY <2>1, <3>1
    <2>3. ASSUME NEW k \in DOMAIN topic', topic'[k].job = m.job
          PROVE  topic'[k].maxRetry = m.maxRetry
      <3>1. CASE k = Len(topic) + 1
        BY <2>1, <3>1
      <3>2. CASE k \in DOMAIN topic
        <4>1. topic'[k] = topic[k] /\ topic[k].job = topic[i].job
          BY <1>2, <2>1, <2>3, <3>2
        <4> QED
          BY <1>2, <3>2, <4>1 DEF Budgeted
      <3> QED
        BY <2>1, <3>1, <3>2
    <2>4. ASSUME NEW k \in DOMAIN topic', NEW l \in DOMAIN topic', topic'[k].job = topic'[l].job
          PROVE  topic'[k].maxRetry = topic'[l].maxRetry
      <3>1. CASE topic'[k].job = m.job
        BY <2>3, <2>4, <3>1
      <3>2. CASE topic'[k].job # m.job
        <4>1. k \in DOMAIN topic /\ l \in DOMAIN topic
          BY <2>1, <2>4, <3>2
        <4> QED
          BY <2>1, <2>4, <4>1 DEF Budgeted
      <3> QED
        BY <3>1, <3>2
    <2> QED
      BY <2>2, <2>4 DEF Budgeted
  <1> QED
    BY <1>1, <1>2

\* A job whose row stands is seen as before.
LEMMA SeenKept ==
    ASSUME TypeOK, Budgeted, Budgeted', KeepsLog, topic' \in Seq(JobRequest),
           Len(topic') >= Len(topic), NEW j \in Jobs, jobs'[j] = jobs[j]
    PROVE  JobSeen(j)' = JobSeen(j)
  <1>1. CASE jobs[j] = NoRow
    BY <1>1 DEF JobSeen
  <1>2. CASE jobs[j] # NoRow
    <2>1. PICK i \in DOMAIN topic : topic[i].job = j
      BY <1>2 DEF Budgeted
    <2>2. i \in DOMAIN topic' /\ topic'[i] = topic[i]
      <3>1. /\ DOMAIN topic = 1 .. Len(topic) /\ DOMAIN topic' = 1 .. Len(topic')
            /\ Len(topic) \in Nat /\ Len(topic') \in Nat
        BY LenProperties DEF TypeOK, QueueTypeOK
      <3> QED
        BY <2>1, <3>1 DEF KeepsLog
    <2>3. PICK c \in DOMAIN topic' :
             /\ c = CHOOSE k \in DOMAIN topic' : topic'[k].job = j
             /\ topic'[c].job = j /\ topic'[c].maxRetry = topic'[i].maxRetry
      <3> DEFINE c == CHOOSE k \in DOMAIN topic' : topic'[k].job = j
      <3>1. c \in DOMAIN topic' /\ topic'[c].job = j
        BY <2>1, <2>2
      <3>2. topic'[c].maxRetry = topic'[i].maxRetry
        BY <2>1, <2>2, <3>1 DEF Budgeted
      <3> QED
        BY <3>1, <3>2
    <2>4. JobSeen(j)' = [status |-> jobs'[j].status, attempt |-> jobs'[j].attempt,
                         budget |-> topic'[c].maxRetry,
                         known |-> jobs'[j].work.type \in Registered]
      BY <1>2, <2>3 DEF JobSeen
    <2> QED
      BY <1>2, <2>1, <2>2, <2>3, <2>4, SeenRow
  <1> QED
    BY <1>1, <1>2

----------------------------------------------------------------------------
\* A step that changes what is seen of one job only.
Seen == [j \in Jobs |-> JobSeen(j)]

LEMMA SeenStep ==
    ASSUME NEW a \in Jobs, \A j \in Jobs \ {a} : JobSeen(j)' = JobSeen(j),
           NEW status, NEW attempt,
           JobSeen(a)' = [JobSeen(a) EXCEPT !.status = status, !.attempt = attempt]
    PROVE  Contract!Become(a, status, attempt)
  <1>1. [Seen EXCEPT ![a].status = status, ![a].attempt = attempt]
           = [j \in Jobs |-> IF j = a THEN [JobSeen(a) EXCEPT !.status = status,
                                                             !.attempt = attempt]
                             ELSE JobSeen(j)]
    BY DEF Seen
  <1>2. Seen' = [j \in Jobs |-> JobSeen(j)']
    BY DEF Seen
  <1> QED
    BY <1>1, <1>2 DEF Contract!Become, Seen

\* What is seen of a job after an UPDATE of its row.
LEMMA SeenUpdate ==
    ASSUME TypeOK, Budgeted, topic' = topic,
           NEW i \in DOMAIN topic, NEW a \in Jobs, a = topic[i].job, jobs[a] # NoRow,
           NEW status \in Statuses, NEW attempt \in Nat, jobs' = Updated(a, status, attempt)
    PROVE  Contract!Become(a, status, attempt)
  <1>1. /\ jobs' \in [Jobs -> JobRecord \cup {NoRow}]
        /\ jobs'[a] # NoRow /\ jobs'[a].status = status /\ jobs'[a].attempt = attempt
        /\ jobs'[a].work = jobs[a].work
        /\ \A j \in Jobs \ {a} : jobs'[j] = jobs[j]
    BY UpdatedType, UpdatedRow, UpdatedRows, RowsKept DEF TypeOK, StoreTypeOK
  <1>2. KeepsLog /\ Budgeted' /\ topic' \in Seq(JobRequest) /\ Len(topic') >= Len(topic)
    <2>1. Budgeted'
      BY <1>1, BudgetKept
    <2> QED
      BY <2>1, LenProperties DEF TypeOK, QueueTypeOK, KeepsLog
  <1>3. \A j \in Jobs \ {a} : JobSeen(j)' = JobSeen(j)
    BY <1>1, <1>2, SeenKept
  <1>4. JobSeen(a) = [status |-> jobs[a].status, attempt |-> jobs[a].attempt,
                      budget |-> topic[i].maxRetry,
                      known |-> jobs[a].work.type \in Registered]
    BY SeenRow
  <1>5. JobSeen(a)' = [status |-> status, attempt |-> attempt,
                       budget |-> topic[i].maxRetry,
                       known |-> jobs[a].work.type \in Registered]
    <2> DEFINE c == CHOOSE k \in DOMAIN topic : topic[k].job = a
    <2>1. c \in DOMAIN topic /\ topic[c].job = a
      OBVIOUS
    <2>2. topic[c].maxRetry = topic[i].maxRetry
      BY <2>1 DEF Budgeted
    <2>3. c = CHOOSE k \in DOMAIN topic' : topic'[k].job = a
      OBVIOUS
    <2> HIDE DEF c
    <2>4. JobSeen(a)' = [status |-> jobs'[a].status, attempt |-> jobs'[a].attempt,
                         budget |-> topic[c].maxRetry,
                         known |-> jobs'[a].work.type \in Registered]
      BY <1>1, <2>3 DEF JobSeen
    <2> QED
      BY <1>1, <2>2, <2>4
  <1>6. JobSeen(a)' = [JobSeen(a) EXCEPT !.status = status, !.attempt = attempt]
    <2> DEFINE known == jobs[a].work.type \in Registered
    <2>1. /\ JobSeen(a) = [status |-> jobs[a].status, attempt |-> jobs[a].attempt,
                           budget |-> topic[i].maxRetry, known |-> known]
          /\ JobSeen(a)' = [status |-> status, attempt |-> attempt,
                            budget |-> topic[i].maxRetry, known |-> known]
      BY <1>4, <1>5
    <2> HIDE DEF known
    <2> DEFINE new == [status |-> status, attempt |-> attempt,
                       budget |-> topic[i].maxRetry, known |-> known]
    <2>2. [JobSeen(a) EXCEPT !.status = status, !.attempt = attempt] = new
      <3>1. PICK first : first = [JobSeen(a) EXCEPT !.status = status]
        OBVIOUS
      <3>2. first = [status |-> status, attempt |-> jobs[a].attempt,
                     budget |-> topic[i].maxRetry, known |-> known]
        BY <2>1, <3>1
      <3>3. [first EXCEPT !.attempt = attempt] = new
        BY <3>2
      <3> QED
        BY <3>1, <3>3
    <2>3. JobSeen(a)' = new
      BY <2>1
    <2> HIDE DEF new
    <2> QED
      BY <2>2, <2>3
  <1> QED
    BY <1>3, <1>6, SeenStep

\* A goroutine whose message agrees with its row takes a step of the contract.
LEMMA GoroutineContract ==
    ASSUME TypeOK, OnlyCommitsFail, OnceInv, Budgeted,
           NEW g \in Goroutines, GoroutineStep(g), Moving(g) => Stage(g)
    PROVE  jobs' = jobs \/ \E j \in Jobs : Contract!Progress(j)
  <1> DEFINE r == Req(g)
  <1>1. /\ Busy(g) /\ r \in JobRequest /\ r.job \in Jobs
        /\ r.attempt \in Nat /\ r.maxRetry \in Nat /\ NextAttempt(r) \in Nat
    BY StepShape, ReqType DEF NextAttempt
  <1>2. PICK i \in DOMAIN topic : r = topic[i] /\ i = proc[g].msg
    BY <1>1, LenProperties DEF TypeOK, QueueTypeOK, WorkerTypeOK, Req
  <1>3. PICK a \in Jobs : a = r.job
    BY <1>1
  <1>4. /\ jobs[a] # NoRow /\ jobs[a].work = r.work
        /\ Moving(g) => ~Settled(a)
    BY <1>1, <1>2, <1>3, ReqRow DEF OnceInv, SoleInv, Sole
  <1>5. JobSeen(a) = [status |-> jobs[a].status, attempt |-> jobs[a].attempt,
                      budget |-> r.maxRetry, known |-> jobs[a].work.type \in Registered]
    BY <1>2, <1>3, <1>4, SeenRow
  <1>50. [j \in Jobs |-> JobSeen(j)][a] = JobSeen(a)
    OBVIOUS
  <1>51. /\ JobSeen(a).status = jobs[a].status /\ JobSeen(a).attempt = jobs[a].attempt
         /\ JobSeen(a).budget = r.maxRetry
         /\ JobSeen(a).known <=> jobs[a].work.type \in Registered
    <2> DEFINE known == jobs[a].work.type \in Registered
    <2>1. JobSeen(a) = [status |-> jobs[a].status, attempt |-> jobs[a].attempt,
                        budget |-> r.maxRetry, known |-> known]
      BY <1>5
    <2>2. known <=> jobs[a].work.type \in Registered
      OBVIOUS
    <2> HIDE DEF known
    <2>3. JobSeen(a).known = known
      BY <2>1
    <2> QED
      BY <2>1, <2>2, <2>3
  <1>6. ASSUME NEW status \in Statuses, NEW attempt \in Nat, topic' = topic,
               UpdateStatus(a, status, attempt) \/ jobs' = Updated(a, status, attempt)
        PROVE  Contract!Become(a, status, attempt)
    <2>1. jobs' = Updated(a, status, attempt)
      BY <1>6 DEF UpdateStatus, Fault, OnlyCommitsFail
    <2> QED
      BY <1>2, <1>3, <1>4, <1>6, <2>1, SeenUpdate
  <1>7. "processing" \in Statuses /\ "completed" \in Statuses /\ "failed" \in Statuses
        /\ "archived" \in Statuses
    BY DEF Statuses
  <1> HIDE DEF r
  <1> USE DEF Contract!Progress
  <1>8. CASE Start(g)
    <2>1. Moving(g) /\ Fit(r)
      BY <1>8 DEF Start, At, Moving, Stage, r
    <2>2. /\ jobs[a].attempt = r.attempt /\ r.attempt <= r.maxRetry
          /\ \/ jobs[a].status = "pending"
             \/ jobs[a].status = "failed" /\ jobs[a].work.type \in Registered
      BY <1>3, <1>4, <2>1 DEF Fit, Settled
    <2>3. Contract!Become(a, "processing", r.attempt)
      BY <1>1, <1>3, <1>6, <1>7, <1>8 DEF Start, r
    <2>4. Contract!Start(a)
      BY <1>1, <1>51, <2>2, <2>3 DEF Contract!Start, Contract!Exhausted
    <2> QED
      BY <2>4
  <1>9. CASE Complete(g) \/ CompleteEmail(g)
    <2>1. /\ Moving(g) /\ jobs[a].status = "processing" /\ jobs[a].attempt = r.attempt
          /\ jobs[a].work.type \in Registered
      BY <1>3, <1>4, <1>9
         DEF Complete, CompleteEmail, At, Moving, Stage, r, OnceInv, Branched, Matched, KnownPCs
    <2>2. Contract!Become(a, "completed", r.attempt)
      <3>1. CASE Complete(g)
        BY <1>1, <1>3, <1>6, <1>7, <3>1 DEF Complete, r
      <3>2. CASE CompleteEmail(g)
        <4>1. topic' = topic /\ jobs' = Updated(a, "completed", r.attempt)
          BY <1>3, <3>2 DEF CompleteEmail, CompleteJobWithOutbox, Fault, OnlyCommitsFail, r
        <4> QED
          BY <1>1, <1>6, <1>7, <4>1
      <3> QED
        BY <1>9, <3>1, <3>2
    <2>3. Contract!Complete(a)
      BY <1>51, <2>1, <2>2 DEF Contract!Complete
    <2> QED
      BY <2>3
  <1>10. CASE Reject(g)
    <2>1. /\ Moving(g) /\ jobs[a].status = "processing" /\ jobs[a].attempt = r.attempt
          /\ jobs[a].work.type \notin Registered
      BY <1>3, <1>4, <1>10 DEF Reject, At, Moving, Stage, r, OnceInv, Branched, Matched
    <2>2. Contract!Become(a, "failed", r.attempt)
      BY <1>1, <1>3, <1>6, <1>7, <1>10 DEF Reject, r
    <2>3. Contract!Reject(a)
      BY <1>51, <2>1, <2>2 DEF Contract!Reject
    <2> QED
      BY <2>3
  <1>11. CASE Fail(g)
    <2>1. /\ Moving(g) /\ jobs[a].status = "processing" /\ jobs[a].attempt = r.attempt
          /\ jobs[a].work.type \in Registered
      BY <1>3, <1>4, <1>11
         DEF Fail, At, Moving, Stage, r, OnceInv, Branched, Matched, KnownPCs
    <2>2. Contract!Become(a, "failed", NextAttempt(r))
      BY <1>1, <1>3, <1>6, <1>7, <1>11 DEF Fail, r
    <2>3. Contract!Fail(a)
      BY <1>51, <2>1, <2>2 DEF Contract!Fail, NextAttempt
    <2> QED
      BY <2>3
  <1>12. CASE Archive(g)
    <2>1. /\ Moving(g) /\ jobs[a].status = "failed" /\ jobs[a].attempt = NextAttempt(r)
          /\ ~HasRetryLeft(r) /\ jobs[a].work.type \in Registered
      BY <1>3, <1>4, <1>12
         DEF Archive, At, Moving, Stage, r, OnceInv, Branched, Matched, KnownPCs
    <2>2. Contract!Become(a, "archived", NextAttempt(r))
      BY <1>1, <1>3, <1>6, <1>7, <1>12 DEF Archive, r
    <2>3. Contract!Archive(a)
      BY <1>1, <1>51, <2>1, <2>2 DEF Contract!Archive, Contract!Exhausted, HasRetryLeft
    <2> QED
      BY <2>3
  <1>13. CASE ~(\/ Start(g) \/ Complete(g) \/ CompleteEmail(g) \/ Reject(g) \/ Fail(g)
                \/ Archive(g))
    BY <1>13 DEF GoroutineStep, GetQueue, Acquire, Load, Handle, Retry, Release, Commit, storeVars
  <1> QED
    BY <1>8, <1>9, <1>10, <1>11, <1>12, <1>13

\* What a goroutine does to its row is what its next place, or the message it
\* puts into the topic, says.
LEMMA StageOwn ==
    ASSUME TypeOK, OnlyCommitsFail, OnceInv,
           NEW g \in Goroutines, GoroutineStep(g), Moving(g) => Stage(g),
           NEW a \in Jobs, a = Req(g).job
    PROVE  /\ Moving(g)' => Stage(g)'
           /\ \/ topic' = topic
              \/ \E m \in JobRequest :
                    /\ topic' = Append(topic, m)
                    /\ m.job = a /\ m.maxRetry = Req(g).maxRetry
                    /\ jobs'[a].attempt = m.attempt /\ m.attempt <= m.maxRetry
                    /\ jobs'[a].status \in {"pending", "failed"}
  <1> DEFINE r == Req(g)
  <1>1. /\ Busy(g) /\ r \in JobRequest /\ KeepsLog /\ r.work \in Work
        /\ r.attempt \in Nat /\ r.maxRetry \in Nat /\ NextAttempt(r) \in Nat
        /\ proc'[g].pc # "idle" => proc'[g].msg = proc[g].msg
    BY StepShape, ReqType DEF NextAttempt
  <1>2. proc'[g].pc # "idle" => Req(g)' = r
    BY <1>1, ReqKept
  <1>3. jobs[a] # NoRow
    BY <1>1, ReqRow DEF OnceInv
  <1>4. ASSUME NEW status \in Statuses, NEW attempt \in Nat, UpdateStatus(a, status, attempt)
        PROVE  jobs'[a].status = status /\ jobs'[a].attempt = attempt
    <2>1. jobs' = Updated(a, status, attempt)
      BY <1>4 DEF UpdateStatus, Fault, OnlyCommitsFail
    <2> QED
      BY <1>3, <2>1, UpdatedRow
  <1>5. ASSUME NEW pc, Goto(g, pc)
        PROVE  proc'[g].pc = pc
    BY <1>5 DEF Goto, TypeOK, WorkerTypeOK
  <1> HIDE DEF r
  <1>6. CASE GetQueue(g) \/ Acquire(g) \/ Load(g)
    <2>1. /\ Moving(g) /\ topic' = topic /\ jobs' = jobs
          /\ proc[g].pc \in {"getQueue", "acquire", "load"}
          /\ proc'[g].pc \in {"acquire", "load", "start", "commit", "release"}
      BY <1>5, <1>6 DEF GetQueue, Acquire, Load, At, Moving, storeVars
    <2>2. Fit(r)
      BY <2>1 DEF Stage, r
    <2>3. CASE proc'[g].pc \in {"acquire", "load", "start"}
      <3>1. Req(g)' = r /\ jobs'[r.job] = jobs[r.job]
        BY <1>2, <2>1, <2>3
      <3> QED
        BY <2>1, <2>2, <2>3, <3>1 DEF Stage, Fit, At
    <2>4. CASE proc'[g].pc \in {"commit", "release"}
      BY <2>1, <2>4 DEF Moving
    <2> QED
      BY <2>1, <2>3, <2>4
  <1>7. CASE Start(g)
    <2>1. /\ Moving(g) /\ topic' = topic /\ Fit(r)
          /\ jobs'[a].status = "processing" /\ jobs'[a].attempt = r.attempt
      BY <1>1, <1>4, <1>7 DEF Start, At, Moving, Stage, Statuses, r
    <2>2. proc'[g].pc \in {"handle", "outbox", "fail", "reject"}
      BY <1>5, <1>7 DEF Start, Branch
    <2>3. Req(g)' = r
      BY <1>2, <2>2
    <2>4. a = r.job
      BY DEF r
    <2> QED
      BY <2>1, <2>2, <2>3, <2>4 DEF Stage, At
  <1>8. CASE Handle(g)
    <2>1. /\ Moving(g) /\ topic' = topic /\ jobs' = jobs /\ proc[g].pc = "handle"
          /\ proc'[g].pc \in {"complete", "fail"}
      BY <1>5, <1>8 DEF Handle, At, Moving, storeVars
    <2>2. Req(g)' = r /\ a = r.job
      BY <1>2, <2>1 DEF r
    <2>3. jobs[a].status = "processing" /\ jobs[a].attempt = r.attempt
      BY <2>1 DEF Stage, r
    <2> QED
      BY <2>1, <2>2, <2>3 DEF Stage, At
  <1>9. CASE Fail(g)
    <2>1. /\ Moving(g) /\ topic' = topic
          /\ jobs'[a].status = "failed" /\ jobs'[a].attempt = NextAttempt(r)
          /\ proc'[g].pc = IF HasRetryLeft(r) THEN "retry" ELSE "archive"
      BY <1>1, <1>4, <1>5, <1>9 DEF Fail, At, Moving, Statuses, r
    <2>2. Req(g)' = r /\ a = r.job
      BY <1>2, <2>1 DEF r
    <2> QED
      BY <2>1, <2>2 DEF Stage, At, HasRetryLeft, NextAttempt
  <1>10. CASE Retry(g)
    <2> DEFINE m == Request(a, r.work, NextAttempt(r), r.maxRetry)
    <2>1. m \in JobRequest /\ m.job = a /\ m.maxRetry = r.maxRetry /\ m.attempt = NextAttempt(r)
      BY <1>1 DEF Request, JobRequest
    <2>2. topic' = Append(topic, m) /\ jobs' = jobs
      BY <1>10 DEF Retry, EnqueueOk, EnqueueError, Fault, OnlyCommitsFail, storeVars, r
    <2> HIDE DEF m
    <2>3. Moving(g) /\ proc[g].pc = "retry" /\ proc'[g].pc = "release"
      BY <1>5, <1>10 DEF Retry, At, Moving
    <2>4. jobs[a].status = "failed" /\ jobs[a].attempt = NextAttempt(r) /\ HasRetryLeft(r)
      BY <2>3 DEF Stage, At, r
    <2> QED
      BY <2>1, <2>2, <2>3, <2>4 DEF Moving, HasRetryLeft, r
  <1>11. CASE \/ Complete(g) \/ CompleteEmail(g) \/ Reject(g) \/ Archive(g)
              \/ Release(g) \/ Commit(g)
    <2>1. topic' = topic /\ proc'[g].pc \in {"release", "commit", "idle"}
      BY <1>5, <1>11
         DEF Complete, CompleteEmail, Reject, Archive, Release, Commit, Idle, storeVars,
             TypeOK, WorkerTypeOK
    <2> QED
      BY <2>1 DEF Moving
  <1> QED
    BY <1>6, <1>7, <1>8, <1>9, <1>10, <1>11 DEF GoroutineStep

\* The message of another job is left alone, and so is its row.
LEMMA FitKept ==
    ASSUME NEW m, Fit(m), jobs'[m.job] = jobs[m.job]
    PROVE  Fit(m)'
  BY DEF Fit

LEMMA StageGoroutine ==
    ASSUME TypeOK, OnlyCommitsFail, OnceInv, StageInv, NEW g \in Goroutines, GoroutineStep(g)
    PROVE  StageInv'
  <1>1. /\ Busy(g) /\ KeepsLog
        /\ topic' \in Seq(JobRequest) /\ Len(topic') >= Len(topic)
        /\ \A h \in Goroutines \ {g} : proc'[h] = proc[h]
    BY StepShape
  <1>2. /\ cursor' = cursor /\ cursor \in Nat /\ cursor <= Len(topic)
        /\ Len(topic) \in Nat /\ Len(topic') \in Nat /\ topic \in Seq(JobRequest)
        /\ DOMAIN topic = 1 .. Len(topic)
    <2>1. cursor' = cursor
      BY DEF GoroutineStep, GetQueue, Acquire, Load, Start, Handle, Complete, CompleteEmail,
             Reject, Fail, Retry, Archive, Release, Commit, consumerVars
    <2> QED
      BY <1>1, <2>1, LenProperties DEF TypeOK, QueueTypeOK, WorkerTypeOK
  <1>3. PICK a \in Jobs : a = Req(g).job
    BY <1>1, ReqType
  <1>4. /\ proc[g].msg \in 1 .. Len(topic) /\ topic[proc[g].msg] = Req(g)
        /\ Moving(g) => Sole(proc[g].msg) /\ ~Settled(a)
    BY <1>1, <1>3 DEF TypeOK, WorkerTypeOK, OnceInv, SoleInv, Sole, Req
  <1>5. NoRedelivery /\ WorkAgrees /\ Branched /\ Budgeted
    BY DEF OnlyCommitsFail, NoRedelivery, OnceInv, StageInv
  <1>6. /\ \A k \in Jobs \ {a} : jobs'[k] = jobs[k]
        /\ ~Moving(g) => ~Moving(g)' /\ jobs' = jobs /\ topic' = topic
    BY <1>3, <1>4, <1>5, StepOwn
  <1>7. /\ Moving(g)' => Stage(g)'
        /\ \/ topic' = topic
           \/ \E m \in JobRequest :
                 /\ topic' = Append(topic, m)
                 /\ m.job = a /\ m.maxRetry = Req(g).maxRetry
                 /\ jobs'[a].attempt = m.attempt /\ m.attempt <= m.maxRetry
                 /\ jobs'[a].status \in {"pending", "failed"}
    BY <1>3, StageOwn DEF StageInv
  <1>8. ASSUME NEW i \in 1 .. Len(topic), Sole(i), i # proc[g].msg
        PROVE  jobs'[topic[i].job] = jobs[topic[i].job]
    <2>1. PICK j \in Jobs : j = topic[i].job
      <3>1. topic[i] \in JobRequest
        BY <1>2, ElementOfSeq
      <3> QED
        BY <3>1 DEF JobRequest
    <2>2. Moving(g) => j # a
      BY <1>3, <1>4, <1>8, <2>1, SoleApart
    <2> QED
      BY <1>6, <2>1, <2>2
  <1>9. ASSUME NEW i \in cursor + 1 .. Len(topic')
        PROVE  Fit(topic[i])'
    <2>1. CASE i \in 1 .. Len(topic)
      <3>1. Sole(i) /\ i # proc[g].msg /\ Fit(topic[i])
        BY <1>1, <1>2, <1>9, <2>1 DEF OnceInv, SoleInv, FetchedOnce, StageInv
      <3>2. jobs'[topic[i].job] = jobs[topic[i].job] /\ topic'[i] = topic[i]
        BY <1>1, <1>8, <2>1, <3>1 DEF KeepsLog
      <3> QED
        BY <3>1, <3>2 DEF Fit
    <2>2. CASE i \notin 1 .. Len(topic)
      <3>1. PICK m \in JobRequest :
                 /\ topic' = Append(topic, m)
                 /\ m.job = a
                 /\ jobs'[a].attempt = m.attempt /\ m.attempt <= m.maxRetry
                 /\ jobs'[a].status \in {"pending", "failed"}
        BY <1>2, <1>7, <1>9, <2>2
      <3>2. Len(topic') = Len(topic) + 1 /\ topic'[Len(topic) + 1] = m
        BY <1>2, <3>1, AppendProperties
      <3>3. topic'[i] = m
        BY <1>2, <1>9, <2>2, <3>2
      <3> QED
        BY <3>1, <3>3 DEF Fit
    <2> QED
      BY <2>1, <2>2
  <1>10. ASSUME NEW h \in Goroutines, h # g, Moving(h)'
         PROVE  Stage(h)'
    <2>1. proc'[h] = proc[h] /\ Moving(h) /\ Busy(h)
      BY <1>1, <1>10 DEF Moving, Busy
    <2>2. PICK i \in 1 .. Len(topic) : i = proc[h].msg /\ topic[i] = Req(h)
      BY <2>1 DEF TypeOK, WorkerTypeOK, Req
    <2>3. Sole(i) /\ i # proc[g].msg /\ Stage(h)
      BY <1>1, <1>10, <2>1, <2>2 DEF OnceInv, SoleInv, FetchedOnce, StageInv
    <2>4. jobs'[topic[i].job] = jobs[topic[i].job]
      BY <1>8, <2>3
    <2>5. Req(h)' = Req(h)
      BY <1>1, <2>1, ReqKept
    <2> QED
      BY <2>1, <2>2, <2>3, <2>4, <2>5 DEF Stage, Fit, At
  <1>11. Budgeted'
    <2>1. \A j \in Jobs : jobs'[j] # NoRow => jobs[j] # NoRow
      <3>1. jobs[a] # NoRow
        BY <1>1, <1>3, <1>5, ReqRow
      <3> QED
        BY <1>6, <3>1
    <2>2. topic' = topic \/ \E m \in JobRequest :
             topic' = Append(topic, m) /\ \E i \in DOMAIN topic :
                 topic[i].job = m.job /\ topic[i].maxRetry = m.maxRetry
      BY <1>2, <1>3, <1>4, <1>7
    <2> QED
      BY <1>5, <2>1, <2>2, BudgetKept
  <1> QED
    BY <1>2, <1>7, <1>9, <1>10, <1>11 DEF StageInv

LEMMA StageFetch ==
    ASSUME TypeOK, StageInv, NEW g \in Goroutines, Fetch(g)
    PROVE  StageInv'
  <1>1. /\ topic' = topic /\ jobs' = jobs
        /\ cursor < Len(topic) /\ cursor' = cursor + 1
        /\ \A h \in Goroutines \ {g} : proc'[h] = proc[h]
        /\ proc'[g].pc = "getQueue" /\ proc'[g].msg = cursor + 1
        /\ cursor \in Nat /\ Len(topic) \in Nat
    BY LenProperties DEF Fetch, storeVars, TypeOK, WorkerTypeOK, QueueTypeOK
  <1>2. \A i \in cursor' + 1 .. Len(topic') : Fit(topic[i])'
    BY <1>1 DEF StageInv, Fit
  <1>3. ASSUME NEW h \in Goroutines, Moving(h)'
        PROVE  Stage(h)'
    <2>1. CASE h = g
      <3>1. Fit(topic[cursor + 1])
        BY <1>1 DEF StageInv
      <3>2. Req(g)' = topic[cursor + 1]
        BY <1>1 DEF Req
      <3> QED
        BY <1>1, <2>1, <3>1, <3>2 DEF Stage, Fit, At
    <2>2. CASE h # g
      <3>1. proc'[h] = proc[h] /\ Stage(h) /\ Req(h)' = Req(h)
        BY <1>1, <1>3, <2>2 DEF Moving, StageInv, Req
      <3> QED
        BY <1>1, <3>1 DEF Stage, Fit, At
    <2> QED
      BY <2>1, <2>2
  <1>4. Budgeted'
    BY <1>1 DEF StageInv, Budgeted
  <1> QED
    BY <1>2, <1>3, <1>4 DEF StageInv

\* A job that arrives is one the contract lets a client submit.
LEMMA StageArrive ==
    ASSUME TypeOK, OnceInv, StageInv,
           NEW j \in Jobs, NEW w \in Offered, NEW n \in Budgets, Arrive(j, w, n)
    PROVE  StageInv' /\ Contract!Submit(j)
  <1>1. PICK m \in JobRequest : m = Request(j, w, 0, n)
    BY ArrivedRow
  <1>2. /\ m.job = j /\ m.attempt = 0 /\ m.maxRetry = n /\ n \in Nat
    BY <1>1, ClientAssumption DEF Request
  <1>3. /\ jobs[j] = NoRow /\ jobs'[j] # NoRow /\ jobs'[j].work = w
        /\ jobs'[j].status = "pending" /\ jobs'[j].attempt = 0
        /\ \A k \in Jobs \ {j} : jobs'[k] = jobs[k]
        /\ topic' = Append(topic, m) /\ KeepsLog /\ Len(topic') = Len(topic) + 1
        /\ proc' = proc /\ cursor' = cursor /\ WorkAgrees /\ Budgeted
    BY <1>1, ArrivedRow DEF workerVars, OnceInv, StageInv
  <1>4. /\ topic \in Seq(JobRequest) /\ topic' \in Seq(JobRequest)
        /\ Len(topic) \in Nat /\ cursor \in Nat
        /\ DOMAIN topic = 1 .. Len(topic) /\ DOMAIN topic' = 1 .. Len(topic) + 1
        /\ topic'[Len(topic) + 1] = m
        /\ \A i \in 1 .. Len(topic) : topic'[i] = topic[i] /\ topic[i].job # j
    <2>1. /\ topic \in Seq(JobRequest) /\ topic' \in Seq(JobRequest)
          /\ topic'[Len(topic) + 1] = m
          /\ \A i \in 1 .. Len(topic) : topic'[i] = topic[i]
      BY <1>3, AppendProperties DEF TypeOK, QueueTypeOK
    <2>2. /\ Len(topic) \in Nat /\ DOMAIN topic = 1 .. Len(topic)
          /\ DOMAIN topic' = 1 .. Len(topic')
      BY <2>1, LenProperties
    <2>3. \A i \in 1 .. Len(topic) : topic[i].job # j
      BY <1>3, <2>2 DEF WorkAgrees
    <2> QED
      BY <1>3, <2>1, <2>2, <2>3 DEF TypeOK, WorkerTypeOK
  <1>5. Budgeted'
    <2>1. ASSUME NEW k \in Jobs, jobs'[k] # NoRow
          PROVE  \E i \in DOMAIN topic' : topic'[i].job = k
      <3>1. CASE k = j
        BY <1>2, <1>4, <3>1
      <3>2. CASE k # j
        <4>1. jobs[k] # NoRow
          BY <1>3, <2>1, <3>2
        <4>2. PICK i \in DOMAIN topic : topic[i].job = k
          BY <1>3, <4>1 DEF Budgeted
        <4> QED
          BY <1>4, <4>2
      <3> QED
        BY <3>1, <3>2
    <2>2. ASSUME NEW i \in DOMAIN topic', NEW k \in DOMAIN topic', topic'[i].job = topic'[k].job
          PROVE  topic'[i].maxRetry = topic'[k].maxRetry
      <3>1. CASE i = Len(topic) + 1 \/ k = Len(topic) + 1
        <4>1. i = k
          BY <1>2, <1>4, <2>2, <3>1
        <4> QED
          BY <4>1
      <3>2. CASE i \in 1 .. Len(topic) /\ k \in 1 .. Len(topic)
        <4>1. topic'[i] = topic[i] /\ topic'[k] = topic[k] /\ topic[i].job = topic[k].job
          BY <1>4, <2>2, <3>2
        <4> QED
          BY <1>3, <1>4, <3>2, <4>1 DEF Budgeted
      <3> QED
        BY <1>4, <3>1, <3>2
    <2> QED
      BY <2>1, <2>2 DEF Budgeted
  <1>6. ASSUME NEW i \in cursor + 1 .. Len(topic')
        PROVE  Fit(topic[i])'
    <2>1. CASE i \in 1 .. Len(topic)
      <3>1. Fit(topic[i]) /\ topic'[i] = topic[i]
        BY <1>4, <1>6, <2>1 DEF StageInv
      <3>2. topic[i].job \in Jobs
        <4>1. topic[i] \in JobRequest
          BY <1>4, <2>1, ElementOfSeq
        <4> QED
          BY <4>1 DEF JobRequest
      <3>3. jobs'[topic[i].job] = jobs[topic[i].job]
        BY <1>3, <1>4, <2>1, <3>2
      <3> QED
        BY <3>1, <3>3 DEF Fit
    <2>2. CASE i \notin 1 .. Len(topic)
      <3>1. topic'[i] = m
        BY <1>3, <1>4, <1>6, <2>2
      <3> QED
        BY <1>2, <1>3, <3>1 DEF Fit
    <2> QED
      BY <2>1, <2>2
  <1>7. ASSUME NEW h \in Goroutines, Moving(h)'
        PROVE  Stage(h)'
    <2>1. Moving(h) /\ Busy(h) /\ proc'[h] = proc[h] /\ Stage(h)
      BY <1>3, <1>7 DEF Moving, Busy, StageInv
    <2>2. PICK i \in 1 .. Len(topic) : i = proc[h].msg /\ topic[i] = Req(h)
      BY <2>1 DEF TypeOK, WorkerTypeOK, Req
    <2>3. Req(h)' = Req(h) /\ Req(h).job \in Jobs
      BY <1>3, <2>1, ReqKept, ReqType
    <2>4. jobs'[Req(h).job] = jobs[Req(h).job]
      BY <1>3, <1>4, <2>2, <2>3
    <2> QED
      BY <2>1, <2>3, <2>4 DEF Stage, Fit, At
  <1>8. StageInv'
    BY <1>3, <1>5, <1>6, <1>7 DEF StageInv
  <1>9. \A k \in Jobs \ {j} : JobSeen(k)' = JobSeen(k)
    BY <1>3, <1>4, <1>5, SeenKept
  <1>10. PICK known \in BOOLEAN :
            JobSeen(j)' = [status |-> "pending", attempt |-> 0, budget |-> n, known |-> known]
    <2> DEFINE c == CHOOSE i \in DOMAIN topic' : topic'[i].job = j
               known == w.type \in Registered
    <2>1. c = Len(topic) + 1
      BY <1>2, <1>4
    <2>2. topic'[c] = m
      BY <1>4, <2>1
    <2> HIDE DEF c
    <2>3. JobSeen(j)' = [status |-> jobs'[j].status, attempt |-> jobs'[j].attempt,
                         budget |-> topic'[c].maxRetry,
                         known |-> jobs'[j].work.type \in Registered]
      BY <1>3 DEF JobSeen, c
    <2>4. JobSeen(j)' = [status |-> "pending", attempt |-> 0, budget |-> n, known |-> known]
      BY <1>2, <1>3, <2>2, <2>3
    <2>5. known \in BOOLEAN
      OBVIOUS
    <2> HIDE DEF known
    <2> QED
      BY <2>4, <2>5
  <1>11. JobSeen(j) = Contract!Absent
    BY <1>3 DEF JobSeen, Contract!Absent
  <1>12. Contract!Submit(j)
    BY <1>9, <1>10, <1>11 DEF Contract!Submit
  <1> QED
    BY <1>8, <1>12

LEMMA StageInit == Init => StageInv /\ Contract!Init
  <1> SUFFICES ASSUME Init PROVE StageInv /\ Contract!Init
    OBVIOUS
  <1> USE DEF Init, StoreInit, QueueInit, WorkerInit
  <1>1. Len(topic) = 0 /\ DOMAIN topic = {}
    BY EmptySeq
  <1>2. StageInv
    BY <1>1 DEF StageInv, Budgeted, Moving, Idle
  <1>3. Contract!Init
    BY DEF Contract!Init, Contract!Absent, JobSeen
  <1> QED
    BY <1>2, <1>3

LEMMA StageStep ==
    ASSUME OnlyCommitsFail, Base, OnceInv, StageInv, [Next]_vars
    PROVE  StageInv' /\ [Contract!Next]_Seen
  <1> USE DEF Base
  <1>1. CASE UNCHANGED vars
    <2>1. UNCHANGED <<jobs, topic, proc, cursor>>
      BY <1>1 DEF vars
    <2>2. StageInv'
      BY <2>1 DEF StageInv, Budgeted, Moving, Stage, Fit, At, Req
    <2>3. UNCHANGED Seen
      BY <2>1 DEF Seen, JobSeen
    <2> QED
      BY <2>2, <2>3
  <1>2. ASSUME NEW j \in Jobs, NEW w \in Offered, NEW n \in Budgets, Arrive(j, w, n)
        PROVE  StageInv' /\ [Contract!Next]_Seen
    BY <1>2, StageArrive DEF Contract!Next
  <1>3. ASSUME NEW g \in Goroutines, Fetch(g)
        PROVE  StageInv' /\ [Contract!Next]_Seen
    <2>1. UNCHANGED <<jobs, topic>>
      BY <1>3 DEF Fetch, storeVars
    <2>2. UNCHANGED Seen
      BY <2>1 DEF Seen, JobSeen
    <2> QED
      BY <1>3, <2>2, StageFetch
  <1>4. ASSUME NEW g \in Goroutines, GoroutineStep(g)
        PROVE  StageInv' /\ [Contract!Next]_Seen
    <2>1. StageInv'
      BY <1>4, StageGoroutine
    <2>2. CASE jobs' = jobs
      <3>1. KeepsLog /\ topic' \in Seq(JobRequest) /\ Len(topic') >= Len(topic)
        BY <1>4, StepShape
      <3>2. \A j \in Jobs : JobSeen(j)' = JobSeen(j)
        BY <2>1, <2>2, <3>1, SeenKept DEF StageInv
      <3> QED
        BY <2>1, <3>2 DEF Seen
    <2>3. CASE \E j \in Jobs : Contract!Progress(j)
      BY <2>1, <2>3 DEF Contract!Next
    <2> QED
      BY <1>4, <2>2, <2>3, GoroutineContract DEF StageInv
  <1>5. NoRedelivery
    BY DEF OnlyCommitsFail, NoRedelivery
  <1> QED
    BY <1>1, <1>2, <1>3, <1>4, <1>5, NoOtherStep DEF Next

\* The workers implement the safety part of JobContract: whatever the
\* interleaving of the goroutines, and whatever offsets get committed, a client
\* sees each job go through one attempt after the other up to its budget.
THEOREM ContractIsKept == OnlyCommitsFail => (Spec => KeepsContract)
  <1> SUFFICES ASSUME OnlyCommitsFail PROVE Spec => KeepsContract
    OBVIOUS
  <1>1. NoRedelivery
    BY DEF OnlyCommitsFail, NoRedelivery
  <1>2. Spec => [](Base /\ OnceInv)
    BY <1>1, OnceAlways
  <1>3. Base /\ OnceInv /\ StageInv /\ [Next]_vars => StageInv'
    BY StageStep
  <1>4. Base /\ OnceInv /\ StageInv /\ [Next]_vars => [Contract!Next]_([j \in Jobs |-> JobSeen(j)])
    BY StageStep DEF Seen
  <1> QED
    BY <1>2, <1>3, <1>4, StageInit, PTL DEF Spec, KeepsContract, Contract!Safety
=============================================================================
