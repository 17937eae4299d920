---------------------------- MODULE WorkerProofs ----------------------------
(***************************************************************************)
(* Theorems about the workers, for any number of workers, goroutines, jobs *)
(* and failures.                                                           *)
(***************************************************************************)
EXTENDS Worker, FiniteSetTheorems, SequenceTheorems, TLAPS

----------------------------------------------------------------------------
(***************************************************************************)
(* Lemmas about the operators the actions are built from.                  *)
(***************************************************************************)

\* An update of a row leaves a table of rows.
LEMMA UpdatedType ==
    ASSUME jobs \in [Jobs -> JobRecord \cup {NoRow}],
           NEW j \in Jobs, NEW status \in Statuses, NEW attempt \in Nat
    PROVE  Updated(j, status, attempt) \in [Jobs -> JobRecord \cup {NoRow}]
  <1>1. CASE jobs[j] = NoRow
    BY <1>1 DEF Updated
  <1>2. CASE jobs[j] # NoRow
    <2>1. jobs[j] \in JobRecord
      BY <1>2
    <2>2. [jobs[j] EXCEPT !.status = status, !.attempt = attempt] \in JobRecord
      BY <2>1 DEF JobRecord
    <2>3. Updated(j, status, attempt)
            = [jobs EXCEPT ![j] = [jobs[j] EXCEPT !.status = status, !.attempt = attempt]]
      BY <1>2 DEF Updated
    <2> QED
      BY <2>2, <2>3
  <1> QED
    BY <1>1, <1>2

\* What a step of the topic may do: the old log stays, and every message that
\* is new is m.
Grown(m) ==
    /\ topic' \in Seq(JobRequest)
    /\ Len(topic') >= Len(topic)
    /\ \A i \in 1 .. Len(topic) : topic'[i] = topic[i]
    /\ \A i \in 1 .. Len(topic') : i > Len(topic) => topic'[i] = m

\* The log after an append.
LEMMA AppendGrows ==
    ASSUME topic \in Seq(JobRequest), NEW m \in JobRequest, topic' = Append(topic, m)
    PROVE  Grown(m) /\ Len(topic') = Len(topic) + 1
  BY AppendProperties DEF Grown

\* Whatever Enqueue returns, the log holds its old messages and, at most, new
\* copies of m.
LEMMA EnqueueGrows ==
    ASSUME topic \in Seq(JobRequest), NEW m \in JobRequest,
           EnqueueOk(m) \/ EnqueueError(m)
    PROVE  Grown(m)
  <1>1. CASE topic' = Append(topic, m)
    BY <1>1, AppendGrows
  <1>2. CASE topic' = topic
    BY <1>2 DEF Grown
  <1>3. CASE topic' = topic \o <<m, m>>
    <2>1. <<m, m>> \in Seq(JobRequest) /\ Len(<<m, m>>) = 2
      OBVIOUS
    <2>2. <<m, m>>[1] = m /\ <<m, m>>[2] = m
      OBVIOUS
    <2>3. /\ topic' \in Seq(JobRequest)
          /\ Len(topic') = Len(topic) + 2
          /\ \A i \in 1 .. Len(topic) + 2 :
                topic'[i] = IF i <= Len(topic) THEN topic[i] ELSE <<m, m>>[i - Len(topic)]
      BY <1>3, <2>1, ConcatProperties
    <2>4. Len(topic) \in Nat
      BY LenProperties
    <2>5. ASSUME NEW i \in 1 .. Len(topic'), i > Len(topic)
          PROVE  topic'[i] = m
      <3>1. i - Len(topic) \in {1, 2}
        BY <2>3, <2>4, <2>5
      <3> QED
        BY <3>1, <2>2, <2>3, <2>4, <2>5
    <2> QED
      BY <2>3, <2>4, <2>5 DEF Grown
  <1> QED
    BY <1>1, <1>2, <1>3 DEF EnqueueOk, EnqueueError

\* The request of a goroutine, and the jobs and numbers in it.
LEMMA ReqType ==
    ASSUME TypeOK, NEW g \in Goroutines, Busy(g)
    PROVE  /\ Req(g) \in JobRequest
           /\ Req(g).job \in Jobs
           /\ Req(g).attempt \in Nat
           /\ Req(g).maxRetry \in Nat
           /\ Req(g).work \in Work
           /\ Req(g).work.type \in Types
           /\ proc[g].host \in Workers
  <1>1. Req(g) \in JobRequest
    BY ElementOfSeq DEF TypeOK, QueueTypeOK, WorkerTypeOK, Req
  <1> QED
    BY <1>1 DEF TypeOK, WorkerTypeOK, JobRequest, Work

\* A goroutine that moves on keeps the worker's variables well typed, as long
\* as the log does not shrink.
LEMMA GotoType ==
    ASSUME TypeOK, NEW g \in Goroutines, Busy(g), NEW pc \in BusyPCs, Goto(g, pc),
           topic' \in Seq(JobRequest), Len(topic') >= Len(topic),
           UNCHANGED consumerVars, tokens' \in [Workers -> [Types -> Nat]]
    PROVE  WorkerTypeOK'
  <1> USE DEF TypeOK, QueueTypeOK, WorkerTypeOK
  <1>1. Len(topic) \in Nat /\ Len(topic') \in Nat
    BY LenProperties
  <1>2. cursor' \in 0 .. Len(topic') /\ committed' \in 0 .. Len(topic') /\ owner' \in Workers
    BY <1>1 DEF consumerVars
  <1>3. proc' = [proc EXCEPT ![g] = [proc[g] EXCEPT !.pc = pc]]
    BY DEF Goto
  <1>4. proc' \in [Goroutines ->
                      [pc : BusyPCs \cup {"idle"}, host : Workers \cup {NoWorker}, msg : Nat]]
    BY <1>3
  <1>5. ASSUME NEW h \in Goroutines, Busy(h)'
        PROVE  proc'[h].host \in Workers /\ proc'[h].msg \in 1 .. Len(topic')
    <2>1. CASE h = g
      BY <2>1, <1>1, <1>3
    <2>2. CASE h # g
      BY <2>2, <1>1, <1>3, <1>5 DEF Busy
    <2> QED
      BY <2>1, <2>2
  <1> QED
    BY <1>2, <1>4, <1>5

\* Writing a status, or failing to, leaves the store well typed.
LEMMA UpdateType ==
    ASSUME TypeOK, NEW j \in Jobs, NEW status \in Statuses, NEW attempt \in Nat,
           UpdateStatus(j, status, attempt), UNCHANGED <<paused, outbox>>
    PROVE  StoreTypeOK'
  BY UpdatedType, StoreAssumption DEF TypeOK, StoreTypeOK, UpdateStatus, Fault

\* Counting a failure, or none.
LEMMA FaultType ==
    ASSUME TypeOK, UNCHANGED storeVars,
           UNCHANGED faults \/ \E kind \in FaultKinds : Fault(kind)
    PROVE  StoreTypeOK'
  BY StoreAssumption DEF TypeOK, StoreTypeOK, storeVars, Fault

----------------------------------------------------------------------------
(***************************************************************************)
(* Types and the limiter.  That Release never takes a token out of an      *)
(* empty channel needs the count of the holders, so the two go together.   *)
(***************************************************************************)
TokensExact ==
    \A w \in Workers, t \in Types :
        tokens[w][t] = IF Limit = 0 THEN 0 ELSE Cardinality(Holders(w, t))

LEMMA HoldersFinite ==
    ASSUME NEW w, NEW t
    PROVE  IsFiniteSet(Holders(w, t)) /\ Cardinality(Holders(w, t)) \in Nat
  <1>1. Holders(w, t) \in SUBSET Goroutines
    BY DEF Holders
  <1> QED
    BY <1>1, FS_Subset, FS_CardinalityType, WorkerAssumption

\* A goroutine about to release holds a token.
LEMMA ReleasePositive ==
    ASSUME TypeOK, TokensExact, NEW g \in Goroutines, At(g, "release"), Limit # 0
    PROVE  tokens[proc[g].host][Req(g).work.type] \in Nat \ {0}
  <1> DEFINE w == proc[g].host  t == Req(g).work.type
  <1>1. w \in Workers /\ t \in Types
    BY ReqType DEF At, Busy
  <1>2. g \in Holders(w, t)
    BY DEF Holders, At, HoldingPCs
  <1>3. Cardinality(Holders(w, t)) \in Nat \ {0}
    BY <1>2, HoldersFinite, FS_EmptySet
  <1> QED
    BY <1>1, <1>3 DEF TokensExact

\* Every step keeps every variable's type.
LEMMA TypeStep == TypeOK /\ TokensExact /\ [Next]_vars => TypeOK'
  <1> SUFFICES ASSUME TypeOK, TokensExact, [Next]_vars PROVE TypeOK'
    OBVIOUS
  <1> USE DEF TypeOK
  <1>0. topic \in Seq(JobRequest) /\ Len(topic) \in Nat /\ Len(topic) >= Len(topic)
    BY LenProperties DEF QueueTypeOK
  <1>1. CASE UNCHANGED vars
    BY <1>1 DEF vars, StoreTypeOK, QueueTypeOK, WorkerTypeOK, Busy
  <1>2. ASSUME NEW j \in Jobs, NEW w \in Offered, NEW n \in Budgets, Arrive(j, w, n)
        PROVE  TypeOK'
    <2>1. w \in Work /\ n \in Nat
      BY ClientAssumption
    <2>2. Inserted(j, w, "pending", 0, NoKey) \in [Jobs -> JobRecord \cup {NoRow}]
      BY <2>1 DEF Inserted, JobRecord, Statuses, StoreTypeOK
    <2>3. Request(j, w, 0, n) \in JobRequest
      BY <2>1 DEF Request, JobRequest
    <2>4. Grown(Request(j, w, 0, n))
      BY <1>2, <2>3, AppendGrows DEF Arrive, QueueTypeOK
    <2>5. StoreTypeOK'
      BY <1>2, <2>2 DEF Arrive, StoreTypeOK
    <2>6. Len(topic') \in Nat
      BY <2>4, LenProperties DEF Grown
    <2>7. WorkerTypeOK'
      BY <1>0, <1>2, <2>4, <2>6 DEF Arrive, workerVars, WorkerTypeOK, Grown, Busy
    <2> QED
      BY <2>4, <2>5, <2>7 DEF Grown, QueueTypeOK
  <1>3. ASSUME NEW g \in Goroutines, Fetch(g)
        PROVE  TypeOK'
    <2>1. StoreTypeOK' /\ QueueTypeOK'
      BY <1>3 DEF Fetch, storeVars, StoreTypeOK, QueueTypeOK
    <2>2. cursor' \in 0 .. Len(topic') /\ cursor + 1 \in 1 .. Len(topic')
      BY <1>0, <1>3 DEF Fetch, WorkerTypeOK
    <2>3. proc' \in [Goroutines ->
                       [pc : BusyPCs \cup {"idle"}, host : Workers \cup {NoWorker}, msg : Nat]]
      BY <1>0, <1>3 DEF Fetch, WorkerTypeOK, BusyPCs
    <2>4. WorkerTypeOK'
      BY <1>3, <2>2, <2>3 DEF Fetch, WorkerTypeOK, Busy
    <2> QED
      BY <2>1, <2>4
  <1>4. ASSUME NEW g \in Goroutines, GoroutineStep(g)
        PROVE  TypeOK'
    <2>1. Busy(g)
      BY <1>4 DEF GoroutineStep, Busy, At, GetQueue, Acquire, Load, Start, Handle, Complete,
                  CompleteEmail, Reject, Fail, Retry, Archive, Release, Commit
    <2>2. /\ Req(g).job \in Jobs /\ Req(g).attempt \in Nat
          /\ Req(g).work \in Work /\ Req(g).work.type \in Types
          /\ proc[g].host \in Workers /\ Req(g).maxRetry \in Nat
      BY <2>1, ReqType
    <2>3. NextAttempt(Req(g)) \in Nat
      BY <2>2 DEF NextAttempt
    <2>4. tokens \in [Workers -> [Types -> Nat]]
      BY DEF WorkerTypeOK
    <2>5. CASE GetQueue(g)
      <3>1. StoreTypeOK' /\ QueueTypeOK'
        BY <2>5, FaultType DEF GetQueue, QueueTypeOK, Fault
      <3>2. PICK pc \in {"acquire", "commit"} : Goto(g, pc)
        BY <2>5 DEF GetQueue
      <3> QED
        BY <1>0, <2>1, <2>4, <2>5, <3>1, <3>2, GotoType DEF GetQueue, BusyPCs, HoldingPCs
    <2>6. CASE Acquire(g)
      <3>1. StoreTypeOK' /\ QueueTypeOK'
        BY <2>6 DEF Acquire, storeVars, StoreTypeOK, QueueTypeOK
      <3>2. tokens' \in [Workers -> [Types -> Nat]]
        BY <2>2, <2>4, <2>6 DEF Acquire
      <3> QED
        BY <1>0, <2>1, <2>6, <3>1, <3>2, GotoType DEF Acquire, BusyPCs, HoldingPCs
    <2>7. CASE Load(g)
      <3>1. StoreTypeOK' /\ QueueTypeOK'
        BY <2>7, FaultType DEF Load, QueueTypeOK, Fault
      <3>2. PICK pc \in {"start", "release"} : Goto(g, pc)
        BY <2>7 DEF Load
      <3> QED
        BY <1>0, <2>1, <2>4, <2>7, <3>1, <3>2, GotoType DEF Load, BusyPCs, HoldingPCs
    <2>8. CASE Start(g)
      <3>1. StoreTypeOK' /\ QueueTypeOK'
        BY <2>2, <2>8, UpdateType DEF Start, Statuses, QueueTypeOK
      <3>2. Branch(Req(g).work) \in BusyPCs
        BY DEF Branch, BusyPCs, HoldingPCs
      <3> QED
        BY <1>0, <2>1, <2>4, <2>8, <3>1, <3>2, GotoType DEF Start
    <2>9. CASE Handle(g)
      <3>1. StoreTypeOK' /\ QueueTypeOK'
        BY <2>9 DEF Handle, storeVars, StoreTypeOK, QueueTypeOK
      <3>2. PICK pc \in {"complete", "fail"} : Goto(g, pc)
        BY <2>9 DEF Handle
      <3> QED
        BY <1>0, <2>1, <2>4, <2>9, <3>1, <3>2, GotoType DEF Handle, BusyPCs, HoldingPCs
    <2>10. CASE Complete(g)
      <3>1. StoreTypeOK' /\ QueueTypeOK'
        BY <2>2, <2>10, UpdateType DEF Complete, Statuses, QueueTypeOK
      <3> QED
        BY <1>0, <2>1, <2>4, <2>10, <3>1, GotoType DEF Complete, BusyPCs, HoldingPCs
    <2>11. CASE CompleteEmail(g)
      <3>1. outbox' \in Seq(OutboxRecord)
        <4>1. [job |-> Req(g).job, status |-> "pending"] \in OutboxRecord
          BY <2>2 DEF OutboxRecord
        <4> QED
          BY <2>11, <4>1, AppendProperties DEF CompleteEmail, CompleteJobWithOutbox, StoreTypeOK
      <3>2. jobs' \in [Jobs -> JobRecord \cup {NoRow}]
        BY <2>2, <2>11, UpdatedType
           DEF CompleteEmail, CompleteJobWithOutbox, StoreTypeOK, Statuses
      <3>3. paused' \in SUBSET Queues /\ faults' \in 0 .. MaxFaults
        BY <2>11, StoreAssumption DEF CompleteEmail, Fault, StoreTypeOK
      <3> QED
        BY <1>0, <2>1, <2>4, <2>11, <3>1, <3>2, <3>3, GotoType
           DEF CompleteEmail, StoreTypeOK, QueueTypeOK, BusyPCs, HoldingPCs
    <2>12. CASE Reject(g)
      <3>1. StoreTypeOK' /\ QueueTypeOK'
        BY <2>2, <2>12, UpdateType DEF Reject, Statuses, QueueTypeOK
      <3> QED
        BY <1>0, <2>1, <2>4, <2>12, <3>1, GotoType DEF Reject, BusyPCs, HoldingPCs
    <2>13. CASE Fail(g)
      <3>1. StoreTypeOK' /\ QueueTypeOK'
        BY <2>2, <2>3, <2>13, UpdateType DEF Fail, Statuses, QueueTypeOK
      <3>2. PICK pc \in {"retry", "archive"} : Goto(g, pc)
        BY <2>13 DEF Fail
      <3> QED
        BY <1>0, <2>1, <2>4, <2>13, <3>1, <3>2, GotoType DEF Fail, BusyPCs, HoldingPCs
    <2>14. CASE Retry(g)
      <3>1. StoreTypeOK'
        BY <2>14, FaultType DEF Retry, EnqueueOk, EnqueueError, Fault
      <3>2. Request(Req(g).job, Req(g).work, NextAttempt(Req(g)), Req(g).maxRetry) \in JobRequest
        BY <2>2, <2>3 DEF Request, JobRequest
      <3>3. QueueTypeOK' /\ Len(topic') >= Len(topic)
        BY <2>14, <3>2, EnqueueGrows DEF Retry, QueueTypeOK, Grown
      <3> QED
        BY <2>1, <2>4, <2>14, <3>1, <3>3, GotoType DEF Retry, QueueTypeOK, BusyPCs, HoldingPCs
    <2>15. CASE Archive(g)
      <3>1. StoreTypeOK' /\ QueueTypeOK'
        BY <2>2, <2>3, <2>15, UpdateType DEF Archive, Statuses, QueueTypeOK
      <3> QED
        BY <1>0, <2>1, <2>4, <2>15, <3>1, GotoType DEF Archive, BusyPCs, HoldingPCs
    <2>16. CASE Release(g)
      <3>1. StoreTypeOK' /\ QueueTypeOK'
        BY <2>16 DEF Release, storeVars, StoreTypeOK, QueueTypeOK
      <3>2. tokens' \in [Workers -> [Types -> Nat]]
        <4>1. CASE Limit = 0
          BY <2>4, <2>16, <4>1 DEF Release
        <4>2. CASE Limit # 0
          <5>1. tokens[proc[g].host][Req(g).work.type] - 1 \in Nat
            BY <2>16, <4>2, ReleasePositive DEF Release
          <5> QED
            BY <2>2, <2>4, <2>16, <4>2, <5>1 DEF Release
        <4> QED
          BY <4>1, <4>2
      <3> QED
        BY <1>0, <2>1, <2>16, <3>1, <3>2, GotoType DEF Release, BusyPCs, HoldingPCs
    <2>17. CASE Commit(g)
      <3>1. StoreTypeOK' /\ QueueTypeOK'
        BY <2>17, FaultType DEF Commit, QueueTypeOK, Fault
      <3>2. committed' \in 0 .. Len(topic')
        BY <1>0, <2>1, <2>17 DEF Commit, WorkerTypeOK
      <3>3. proc' = [proc EXCEPT ![g] = Idle]
        BY <2>17 DEF Commit
      <3>4. WorkerTypeOK'
        BY <2>17, <3>2, <3>3 DEF Commit, WorkerTypeOK, Idle, Busy
      <3> QED
        BY <3>1, <3>4
    <2> QED
      BY <1>4, <2>5, <2>6, <2>7, <2>8, <2>9, <2>10, <2>11, <2>12, <2>13, <2>14, <2>15, <2>16,
         <2>17 DEF GoroutineStep
  <1>5. CASE Rebalance
    <2>1. StoreTypeOK' /\ QueueTypeOK'
      BY <1>5, FaultType DEF Rebalance, QueueTypeOK, Fault
    <2> QED
      BY <1>5, <2>1 DEF Rebalance, Reassign, WorkerTypeOK, Busy
  <1>6. ASSUME NEW w \in Workers, Crash(w)
        PROVE  TypeOK'
    <2>1. StoreTypeOK' /\ QueueTypeOK'
      BY <1>6, FaultType DEF Crash, QueueTypeOK, Fault
    <2>2. proc' = [g \in Goroutines |-> IF proc[g].host = w THEN Idle ELSE proc[g]]
      BY <1>6 DEF Crash
    <2>3. WorkerTypeOK'
      BY <1>6, <2>2 DEF Crash, Reassign, WorkerTypeOK, Busy, Idle
    <2> QED
      BY <2>1, <2>3
  <1> QED
    BY <1>1, <1>2, <1>3, <1>4, <1>5, <1>6 DEF Next, WorkerNext

\* The log keeps the messages it had.
KeepsLog == \A i \in 1 .. Len(topic) : topic'[i] = topic[i]

\* Holders do not change when no goroutine enters or leaves the part of
\* process between Acquire and Release, or changes its message there.
LEMMA HoldersKept ==
    ASSUME TypeOK, KeepsLog,
           \A h \in Goroutines : proc'[h].pc \in HoldingPCs <=> proc[h].pc \in HoldingPCs,
           \A h \in Goroutines : proc[h].pc \in HoldingPCs =>
               proc'[h].host = proc[h].host /\ proc'[h].msg = proc[h].msg
    PROVE  \A w \in Workers, t \in Types : Holders(w, t)' = Holders(w, t)
  <1>1. ASSUME NEW h \in Goroutines, proc[h].pc \in HoldingPCs
        PROVE  Req(h)' = Req(h)
    <2>1. proc[h].msg \in 1 .. Len(topic)
      BY <1>1 DEF TypeOK, WorkerTypeOK, Busy, HoldingPCs
    <2> QED
      BY <1>1, <2>1 DEF Req, KeepsLog
  <1>2. ASSUME NEW w \in Workers, NEW t \in Types, NEW h \in Goroutines
        PROVE  h \in Holders(w, t)' <=> h \in Holders(w, t)
    BY <1>1 DEF Holders
  <1>3. ASSUME NEW w \in Workers, NEW t \in Types
        PROVE  Holders(w, t)' \subseteq Goroutines /\ Holders(w, t) \subseteq Goroutines
    BY DEF Holders
  <1> QED
    BY <1>2, <1>3

\* The same for a goroutine that only moves on.
LEMMA GotoKeepsHolders ==
    ASSUME TypeOK, KeepsLog, NEW g \in Goroutines, NEW pc, Goto(g, pc),
           pc \in HoldingPCs <=> proc[g].pc \in HoldingPCs
    PROVE  \A w \in Workers, t \in Types : Holders(w, t)' = Holders(w, t)
  <1>1. proc' = [proc EXCEPT ![g] = [proc[g] EXCEPT !.pc = pc]]
    BY DEF Goto
  <1>2. \A h \in Goroutines :
           /\ proc'[h].pc = IF h = g THEN pc ELSE proc[h].pc
           /\ proc'[h].host = proc[h].host /\ proc'[h].msg = proc[h].msg
    BY <1>1 DEF TypeOK, WorkerTypeOK
  <1> QED
    BY <1>2, HoldersKept

\* The limiter's channels after a step that leaves tokens and holders alone.
WithinLimit == Limit # 0 => \A w \in Workers, t \in Types : tokens[w][t] <= Limit

LimiterInv == TokensExact /\ WithinLimit

LEMMA KeepsLimiter ==
    ASSUME LimiterInv, UNCHANGED tokens,
           \A w \in Workers, t \in Types : Holders(w, t)' = Holders(w, t)
    PROVE  LimiterInv'
  BY DEF LimiterInv, TokensExact, WithinLimit

\* Acquire adds one holder and one token, and only below the limit.
LEMMA AcquireKeepsLimiter ==
    ASSUME TypeOK, LimiterInv, NEW g \in Goroutines, Acquire(g)
    PROVE  LimiterInv'
  <1> DEFINE w0 == proc[g].host  t0 == Req(g).work.type
  <1>1. w0 \in Workers /\ t0 \in Types
    BY ReqType DEF Acquire, At, Busy
  <1>2. proc' = [proc EXCEPT ![g] = [proc[g] EXCEPT !.pc = "load"]]
    BY DEF Acquire, Goto
  <1>3. \A h \in Goroutines :
           /\ proc'[h].pc = IF h = g THEN "load" ELSE proc[h].pc
           /\ proc'[h].host = proc[h].host /\ proc'[h].msg = proc[h].msg
    BY <1>2 DEF TypeOK, WorkerTypeOK
  <1>4. \A h \in Goroutines : Req(h)' = Req(h)
    BY <1>3 DEF Acquire, Req
  <1>5. proc[g].pc \notin HoldingPCs /\ "load" \in HoldingPCs
    BY DEF Acquire, At, HoldingPCs
  <1>6. CASE Limit = 0
    <2>1. tokens[w0][t0] \in Nat
      BY <1>1 DEF TypeOK, WorkerTypeOK
    <2>2. UNCHANGED tokens
      BY <1>6, <2>1 DEF Acquire
    <2> QED
      BY <1>6, <2>2 DEF LimiterInv, TokensExact, WithinLimit
  <1>7. CASE Limit # 0
    <2>1. ASSUME NEW w \in Workers, NEW t \in Types
          PROVE  Holders(w, t)' = IF w = w0 /\ t = t0 THEN Holders(w, t) \cup {g}
                                                     ELSE Holders(w, t)
      BY <1>3, <1>4, <1>5 DEF Holders
    <2>2. g \notin Holders(w0, t0)
      BY <1>5 DEF Holders
    <2>3. Cardinality(Holders(w0, t0) \cup {g}) = Cardinality(Holders(w0, t0)) + 1
      BY <2>2, HoldersFinite, FS_AddElement
    <2>4. /\ tokens[w0][t0] < Limit
          /\ tokens' = [tokens EXCEPT ![w0][t0] = tokens[w0][t0] + 1]
      BY <1>7 DEF Acquire
    <2>5. ASSUME NEW w \in Workers, NEW t \in Types
          PROVE  tokens'[w][t] = IF w = w0 /\ t = t0 THEN tokens[w][t] + 1 ELSE tokens[w][t]
      BY <1>1, <2>4 DEF TypeOK, WorkerTypeOK
    <2>6. TokensExact'
      BY <1>7, <2>1, <2>3, <2>5 DEF LimiterInv, TokensExact
    <2>7. WithinLimit'
      BY <1>1, <2>4, <2>5, WorkerAssumption DEF LimiterInv, WithinLimit, TypeOK, WorkerTypeOK
    <2> QED
      BY <2>6, <2>7 DEF LimiterInv
  <1> QED
    BY <1>6, <1>7

\* Release removes one holder and one token.
LEMMA ReleaseKeepsLimiter ==
    ASSUME TypeOK, LimiterInv, NEW g \in Goroutines, Release(g)
    PROVE  LimiterInv'
  <1> DEFINE w0 == proc[g].host  t0 == Req(g).work.type
  <1>1. w0 \in Workers /\ t0 \in Types
    BY ReqType DEF Release, At, Busy
  <1>2. proc' = [proc EXCEPT ![g] = [proc[g] EXCEPT !.pc = "commit"]]
    BY DEF Release, Goto
  <1>3. \A h \in Goroutines :
           /\ proc'[h].pc = IF h = g THEN "commit" ELSE proc[h].pc
           /\ proc'[h].host = proc[h].host /\ proc'[h].msg = proc[h].msg
    BY <1>2 DEF TypeOK, WorkerTypeOK
  <1>4. \A h \in Goroutines : Req(h)' = Req(h)
    BY <1>3 DEF Release, Req
  <1>5. proc[g].pc \in HoldingPCs /\ "commit" \notin HoldingPCs
    BY DEF Release, At, HoldingPCs
  <1>6. CASE Limit = 0
    BY <1>6 DEF Release, LimiterInv, TokensExact, WithinLimit
  <1>7. CASE Limit # 0
    <2>1. ASSUME NEW w \in Workers, NEW t \in Types
          PROVE  Holders(w, t)' = IF w = w0 /\ t = t0 THEN Holders(w, t) \ {g}
                                                     ELSE Holders(w, t)
      <3>1. \A h \in Goroutines \ {g} : h \in Holders(w, t)' <=> h \in Holders(w, t)
        BY <1>3, <1>4 DEF Holders
      <3>2. g \notin Holders(w, t)'
        BY <1>3, <1>5 DEF Holders
      <3>3. g \in Holders(w, t) <=> w = w0 /\ t = t0
        BY <1>5 DEF Holders
      <3>4. Holders(w, t)' \subseteq Goroutines /\ Holders(w, t) \subseteq Goroutines
        BY DEF Holders
      <3> QED
        BY <3>1, <3>2, <3>3, <3>4
    <2>2. g \in Holders(w0, t0)
      BY <1>5 DEF Holders
    <2>3. Cardinality(Holders(w0, t0) \ {g}) = Cardinality(Holders(w0, t0)) - 1
      <3>1. IsFiniteSet(Holders(w0, t0))
        BY HoldersFinite
      <3>2. Cardinality(Holders(w0, t0) \ {g})
              = IF g \in Holders(w0, t0) THEN Cardinality(Holders(w0, t0)) - 1
                ELSE Cardinality(Holders(w0, t0))
        BY <3>1, FS_RemoveElement, Zenon
      <3> QED
        BY <2>2, <3>2
    <2>4. tokens' = [tokens EXCEPT ![w0][t0] = tokens[w0][t0] - 1]
      BY <1>7 DEF Release
    <2>5. ASSUME NEW w \in Workers, NEW t \in Types
          PROVE  tokens'[w][t] = IF w = w0 /\ t = t0 THEN tokens[w][t] - 1 ELSE tokens[w][t]
      BY <1>1, <2>4 DEF TypeOK, WorkerTypeOK
    <2>6. TokensExact'
      <3>1. ASSUME NEW w \in Workers, NEW t \in Types
            PROVE  tokens'[w][t] = Cardinality(Holders(w, t)')
        <4>1. tokens[w][t] = Cardinality(Holders(w, t))
          BY <1>7 DEF LimiterInv, TokensExact
        <4>2. CASE w = w0 /\ t = t0
          BY <2>1, <2>3, <2>5, <4>1, <4>2
        <4>3. CASE ~(w = w0 /\ t = t0)
          BY <2>1, <2>5, <4>1, <4>3
        <4> QED
          BY <4>2, <4>3
      <3> QED
        BY <1>7, <3>1 DEF TokensExact
    <2>7. WithinLimit'
      BY <2>5, WorkerAssumption DEF LimiterInv, WithinLimit, TypeOK, WorkerTypeOK
    <2> QED
      BY <2>6, <2>7 DEF LimiterInv
  <1> QED
    BY <1>6, <1>7

\* A crash empties the limiter of the worker along with its goroutines.
LEMMA CrashKeepsLimiter ==
    ASSUME TypeOK, LimiterInv, NEW w0 \in Workers, Crash(w0)
    PROVE  LimiterInv'
  <1>1. \A h \in Goroutines : proc'[h] = IF proc[h].host = w0 THEN Idle ELSE proc[h]
    BY DEF Crash
  <1>2. topic' = topic
    BY DEF Crash
  <1>3. \A w \in Workers, t \in Types :
           tokens'[w][t] = IF w = w0 THEN 0 ELSE tokens[w][t]
    BY DEF Crash, TypeOK, WorkerTypeOK
  <1>4. ASSUME NEW w \in Workers, NEW t \in Types
        PROVE  Holders(w, t)' = IF w = w0 THEN {} ELSE Holders(w, t)
    <2>1. CASE w = w0
      BY <1>1, <2>1, WorkerAssumption DEF Holders, Idle
    <2>2. CASE w # w0
      BY <1>1, <1>2, <2>2 DEF Holders, Idle, HoldingPCs, Req
    <2> QED
      BY <2>1, <2>2
  <1>5. Limit \in Nat /\ Cardinality({}) = 0
    BY FS_EmptySet, WorkerAssumption
  <1>6. TokensExact'
    BY <1>3, <1>4, <1>5 DEF LimiterInv, TokensExact
  <1>7. WithinLimit'
    BY <1>3, <1>5 DEF LimiterInv, WithinLimit
  <1> QED
    BY <1>6, <1>7 DEF LimiterInv

\* Every step keeps one token per holder, and never more than Limit.
LEMMA LimiterStep == TypeOK /\ LimiterInv /\ [Next]_vars => LimiterInv'
  <1> SUFFICES ASSUME TypeOK, LimiterInv, [Next]_vars PROVE LimiterInv'
    OBVIOUS
  <1> USE DEF HoldingPCs
  <1>0. ASSUME topic' = topic PROVE KeepsLog
    BY <1>0 DEF KeepsLog
  <1>1. CASE UNCHANGED vars
    BY <1>0, <1>1, HoldersKept, KeepsLimiter DEF vars
  <1>2. ASSUME NEW j \in Jobs, NEW w \in Offered, NEW n \in Budgets, Arrive(j, w, n)
        PROVE  LimiterInv'
    <2>1. Request(j, w, 0, n) \in JobRequest
      BY ClientAssumption DEF Request, JobRequest
    <2>2. KeepsLog
      BY <1>2, <2>1, AppendGrows DEF Arrive, TypeOK, QueueTypeOK, Grown, KeepsLog
    <2> QED
      BY <1>2, <2>2, HoldersKept, KeepsLimiter DEF Arrive, workerVars
  <1>3. ASSUME NEW g \in Goroutines, Fetch(g)
        PROVE  LimiterInv'
    <2>1. \A h \in Goroutines \ {g} : proc'[h] = proc[h]
      BY <1>3 DEF Fetch, TypeOK, WorkerTypeOK
    <2>2. proc[g].pc = "idle" /\ proc'[g].pc = "getQueue"
      BY <1>3 DEF Fetch, Idle, TypeOK, WorkerTypeOK
    <2> QED
      BY <1>0, <1>3, <2>1, <2>2, HoldersKept, KeepsLimiter DEF Fetch
  <1>4. ASSUME NEW g \in Goroutines, GoroutineStep(g)
        PROVE  LimiterInv'
    <2>1. CASE Acquire(g)
      BY <2>1, AcquireKeepsLimiter
    <2>2. CASE Release(g)
      BY <2>2, ReleaseKeepsLimiter
    <2>3. CASE Commit(g)
      <3>1. \A h \in Goroutines \ {g} : proc'[h] = proc[h]
        BY <2>3 DEF Commit, TypeOK, WorkerTypeOK
      <3>2. proc[g].pc = "commit" /\ proc'[g].pc = "idle"
        BY <2>3 DEF Commit, At, Idle, TypeOK, WorkerTypeOK
      <3> QED
        BY <1>0, <2>3, <3>1, <3>2, HoldersKept, KeepsLimiter DEF Commit
    <2>4. CASE Retry(g)
      <3>1. Request(Req(g).job, Req(g).work, NextAttempt(Req(g)), Req(g).maxRetry) \in JobRequest
        BY <2>4, ReqType DEF Retry, At, Busy, NextAttempt, Request, JobRequest
      <3>2. KeepsLog
        BY <2>4, <3>1, EnqueueGrows DEF Retry, TypeOK, QueueTypeOK, Grown, KeepsLog
      <3> QED
        BY <2>4, <3>2, GotoKeepsHolders, KeepsLimiter DEF Retry, At
    <2>5. CASE GetQueue(g)
      BY <1>0, <2>5, GotoKeepsHolders, KeepsLimiter DEF GetQueue, At
    <2>6. CASE Load(g)
      BY <1>0, <2>6, GotoKeepsHolders, KeepsLimiter DEF Load, At
    <2>7. CASE Start(g)
      BY <1>0, <2>7, GotoKeepsHolders, KeepsLimiter DEF Start, At, Branch
    <2>8. CASE Handle(g)
      BY <1>0, <2>8, GotoKeepsHolders, KeepsLimiter DEF Handle, At
    <2>9. CASE Complete(g) \/ CompleteEmail(g)
      BY <1>0, <2>9, GotoKeepsHolders, KeepsLimiter DEF Complete, CompleteEmail, At
    <2>10. CASE Reject(g) \/ Archive(g)
      BY <1>0, <2>10, GotoKeepsHolders, KeepsLimiter DEF Reject, Archive, At
    <2>11. CASE Fail(g)
      BY <1>0, <2>11, GotoKeepsHolders, KeepsLimiter DEF Fail, At
    <2> QED
      BY <1>4, <2>1, <2>2, <2>3, <2>4, <2>5, <2>6, <2>7, <2>8, <2>9, <2>10, <2>11
         DEF GoroutineStep
  <1>5. CASE Rebalance
    BY <1>0, <1>5, HoldersKept, KeepsLimiter DEF Rebalance
  <1>6. ASSUME NEW w \in Workers, Crash(w)
        PROVE  LimiterInv'
    BY <1>6, CrashKeepsLimiter
  <1> QED
    BY <1>1, <1>2, <1>3, <1>4, <1>5, <1>6 DEF Next, WorkerNext

\* The initial state.
LEMMA InitInv == Init => TypeOK /\ LimiterInv
  <1> SUFFICES ASSUME Init PROVE TypeOK /\ LimiterInv
    OBVIOUS
  <1> USE DEF Init, StoreInit, QueueInit, WorkerInit
  <1>1. StoreTypeOK /\ QueueTypeOK
    BY StoreAssumption, EmptySeq DEF StoreTypeOK, QueueTypeOK
  <1>2. WorkerTypeOK
    <2>1. Len(topic) = 0
      BY EmptySeq
    <2>2. proc \in [Goroutines ->
                      [pc : BusyPCs \cup {"idle"}, host : Workers \cup {NoWorker}, msg : Nat]]
      BY DEF Idle
    <2>3. \A g \in Goroutines : ~Busy(g)
      BY DEF Busy, Idle
    <2> QED
      BY <2>1, <2>2, <2>3 DEF WorkerTypeOK
  <1>3. \A w \in Workers, t \in Types : Holders(w, t) = {}
    BY DEF Holders, Idle, HoldingPCs
  <1>4. LimiterInv
    <2>1. \A w \in Workers, t \in Types : Cardinality(Holders(w, t)) = 0
      BY <1>3, FS_EmptySet
    <2>2. \A w \in Workers, t \in Types : tokens[w][t] = 0
      OBVIOUS
    <2> QED
      BY <2>1, <2>2, WorkerAssumption DEF LimiterInv, TokensExact, WithinLimit
  <1> QED
    BY <1>1, <1>2, <1>4 DEF TypeOK

\* Every variable of store, topic and workers keeps its type in every run.
THEOREM TypeCorrect == Spec => []TypeOK
  <1>1. Init => TypeOK /\ LimiterInv
    BY InitInv
  <1>2. TypeOK /\ LimiterInv /\ [Next]_vars => TypeOK' /\ LimiterInv'
    BY TypeStep, LimiterStep DEF LimiterInv
  <1> QED
    BY <1>1, <1>2, PTL DEF Spec

\* The limiter of a worker counts the jobs between Acquire and Release exactly
\* and never admits more than Limit of a type, through every error return,
\* crash and rebalance.
THEOREM LimiterCorrect == Spec => []LimiterExact
  <1>1. Init => TypeOK /\ LimiterInv
    BY InitInv
  <1>2. TypeOK /\ LimiterInv /\ [Next]_vars => TypeOK' /\ LimiterInv'
    BY TypeStep, LimiterStep DEF LimiterInv
  <1>3. LimiterInv => LimiterExact
    BY WorkerAssumption DEF LimiterInv, TokensExact, WithinLimit, LimiterExact
  <1> QED
    BY <1>1, <1>2, <1>3, PTL DEF Spec

----------------------------------------------------------------------------
(***************************************************************************)
(* What becomes of a job: its email is never completed without an outbox   *)
(* row, its retries follow one another up to max_retry, and it is archived *)
(* only after all of them, whatever fails.                                 *)
(***************************************************************************)

\* The invariant of the earlier theorems, used here as a fact about every state.
Base == TypeOK /\ LimiterInv

LEMMA BaseInv == Spec => []Base
  <1>1. Init => Base
    BY InitInv DEF Base
  <1>2. Base /\ [Next]_vars => Base'
    BY TypeStep, LimiterStep DEF LimiterInv, Base
  <1> QED
    BY <1>1, <1>2, PTL DEF Spec

\* A goroutine keeps its request while it keeps its message.
LEMMA ReqKept ==
    ASSUME TypeOK, KeepsLog, NEW g \in Goroutines, Busy(g), proc'[g].msg = proc[g].msg
    PROVE  Req(g)' = Req(g)
  BY DEF TypeOK, WorkerTypeOK, Req, KeepsLog

\* What UpdateStatus does to a row that exists: status and attempt, no more.
LEMMA UpdatedRow ==
    ASSUME TypeOK, NEW j \in Jobs, jobs[j] # NoRow, NEW status, NEW attempt, NEW k \in Jobs
    PROVE  LET new == Updated(j, status, attempt)[k] IN
           /\ k # j => new = jobs[k]
           /\ k = j => new.work = jobs[j].work /\ new.status = status /\ new.attempt = attempt
  <1>1. jobs[j] \in JobRecord
    BY DEF TypeOK, StoreTypeOK
  <1>2. Updated(j, status, attempt)
          = [jobs EXCEPT ![j] = [jobs[j] EXCEPT !.status = status, !.attempt = attempt]]
    BY DEF Updated
  <1> QED
    BY <1>1, <1>2 DEF TypeOK, StoreTypeOK, JobRecord

\* The rows after an UpdateStatus.
LEMMA UpdatedRows ==
    ASSUME TypeOK, NEW j \in Jobs, NEW status \in Statuses, NEW attempt \in Nat,
           jobs' = Updated(j, status, attempt) \/ jobs' = jobs
    PROVE  /\ \A k \in Jobs \ {j} : jobs'[k] = jobs[k]
           /\ jobs'[j] = jobs[j] \/ (jobs'[j].status = status /\ jobs'[j].attempt = attempt)
  <1>1. CASE jobs' = jobs \/ jobs[j] = NoRow
    BY <1>1 DEF Updated
  <1>2. CASE jobs[j] # NoRow /\ jobs' = Updated(j, status, attempt)
    BY <1>2, UpdatedRow
  <1> QED
    BY <1>1, <1>2

\* No step of a goroutine changes another one, and the log only grows.
LEMMA StepShape ==
    ASSUME TypeOK, NEW g \in Goroutines, GoroutineStep(g)
    PROVE  /\ Busy(g)
           /\ \A h \in Goroutines \ {g} : proc'[h] = proc[h]
           /\ proc'[g].pc # "idle" => proc'[g].msg = proc[g].msg
           /\ KeepsLog
           /\ topic' \in Seq(JobRequest) /\ Len(topic') >= Len(topic)
  <1> USE DEF GetQueue, Acquire, Load, Start, Handle, Complete, CompleteEmail, Reject,
              Fail, Retry, Archive, Release, Commit
  <1>0. Len(topic) \in Nat
    BY LenProperties DEF TypeOK, QueueTypeOK
  <1>1. Busy(g)
    BY DEF GoroutineStep, Busy, At
  <1>2. CASE Commit(g)
    <2>1. topic' = topic /\ proc' = [proc EXCEPT ![g] = Idle]
      BY <1>2
    <2> QED
      BY <1>0, <1>1, <2>1 DEF TypeOK, QueueTypeOK, WorkerTypeOK, Idle, KeepsLog
  <1>3. CASE ~Commit(g)
    <2>1. PICK pc : Goto(g, pc)
      BY <1>3 DEF GoroutineStep
    <2>2. proc' = [proc EXCEPT ![g] = [proc[g] EXCEPT !.pc = pc]]
      BY <2>1 DEF Goto
    <2>3. KeepsLog /\ topic' \in Seq(JobRequest) /\ Len(topic') >= Len(topic)
      <3>1. CASE Retry(g)
        <4>1. Request(Req(g).job, Req(g).work, NextAttempt(Req(g)), Req(g).maxRetry) \in JobRequest
          BY <1>1, ReqType DEF NextAttempt, Request, JobRequest
        <4> QED
          BY <3>1, <4>1, EnqueueGrows DEF TypeOK, QueueTypeOK, Grown, KeepsLog
      <3>2. CASE ~Retry(g)
        <4>1. topic' = topic
          BY <1>3, <3>2 DEF GoroutineStep
        <4> QED
          BY <1>0, <4>1 DEF KeepsLog, TypeOK, QueueTypeOK
      <3> QED
        BY <3>1, <3>2
    <2> QED
      BY <1>1, <2>2, <2>3 DEF TypeOK, WorkerTypeOK
  <1> QED
    BY <1>2, <1>3

----------------------------------------------------------------------------
(***************************************************************************)
(* Retries.  A goroutine that is about to enqueue a retry has one left,    *)
(* and the message it works on is the attempt before.                      *)
(***************************************************************************)
RetryInv ==
    /\ RetryChain
    /\ \A g \in Goroutines : At(g, "retry") => HasRetryLeft(Req(g))

\* A longer log is a chain too, if the new message is a first attempt or
\* follows one that is there.
LEMMA ChainGrown ==
    ASSUME TypeOK, RetryChain, NEW m \in JobRequest, Grown(m),
           \/ m.attempt = 0
           \/ /\ m.attempt <= m.maxRetry
              /\ \E k \in 1 .. Len(topic) : topic[k] = [m EXCEPT !.attempt = m.attempt - 1]
    PROVE  RetryChain'
  <1>1. Len(topic) \in Nat /\ Len(topic') \in Nat
    BY LenProperties DEF TypeOK, QueueTypeOK, Grown
  <1>2. DOMAIN topic = 1 .. Len(topic) /\ DOMAIN topic' = 1 .. Len(topic')
    BY LenProperties DEF TypeOK, QueueTypeOK, Grown
  <1>3. SUFFICES ASSUME NEW i \in 1 .. Len(topic'), topic'[i].attempt > 0
                 PROVE  /\ topic'[i].attempt <= topic'[i].maxRetry
                        /\ \E k \in 1 .. i - 1 :
                              topic'[k] = [topic'[i] EXCEPT !.attempt = topic'[i].attempt - 1]
    BY <1>2 DEF RetryChain
  <1>4. CASE i <= Len(topic)
    <2>1. i \in 1 .. Len(topic) /\ topic'[i] = topic[i]
      BY <1>1, <1>4 DEF Grown
    <2>2. /\ topic[i].attempt <= topic[i].maxRetry
          /\ \E k \in 1 .. i - 1 : topic[k] = [topic[i] EXCEPT !.attempt = topic[i].attempt - 1]
      BY <1>2, <1>3, <2>1 DEF RetryChain
    <2>3. \A k \in 1 .. i - 1 : topic'[k] = topic[k]
      BY <1>1, <2>1 DEF Grown
    <2> QED
      BY <2>1, <2>2, <2>3
  <1>5. CASE i > Len(topic)
    <2>1. topic'[i] = m
      BY <1>5 DEF Grown
    <2>2. m.attempt # 0
      BY <1>3, <2>1 DEF JobRequest
    <2>3. PICK k \in 1 .. Len(topic) : topic[k] = [m EXCEPT !.attempt = m.attempt - 1]
      BY <2>2
    <2>4. k \in 1 .. i - 1 /\ topic'[k] = topic[k]
      BY <1>1, <1>5, <2>3 DEF Grown
    <2> QED
      BY <2>1, <2>2, <2>3, <2>4
  <1> QED
    BY <1>1, <1>4, <1>5

\* What a goroutine does at "retry" after a step that left it there.
LEMMA RetryPcKept ==
    ASSUME TypeOK, RetryInv, KeepsLog, NEW h \in Goroutines, proc'[h] = proc[h]
    PROVE  At(h, "retry")' => HasRetryLeft(Req(h))'
  <1> SUFFICES ASSUME At(h, "retry")' PROVE HasRetryLeft(Req(h))'
    OBVIOUS
  <1>1. At(h, "retry") /\ Busy(h)
    BY DEF At, Busy
  <1>2. Req(h)' = Req(h)
    BY <1>1, ReqKept
  <1> QED
    BY <1>1, <1>2 DEF RetryInv, HasRetryLeft, NextAttempt

LEMMA RetryStep == Base /\ RetryInv /\ [Next]_vars => RetryInv'
  <1> SUFFICES ASSUME Base, RetryInv, [Next]_vars PROVE RetryInv'
    OBVIOUS
  <1> USE DEF Base
  <1>0. ASSUME topic' = topic PROVE KeepsLog /\ RetryChain'
    BY <1>0 DEF KeepsLog, RetryInv, RetryChain
  <1>1. CASE UNCHANGED vars
    BY <1>0, <1>1, RetryPcKept DEF vars, RetryInv
  <1>2. ASSUME NEW j \in Jobs, NEW w \in Offered, NEW n \in Budgets, Arrive(j, w, n)
        PROVE  RetryInv'
    <2>1. Request(j, w, 0, n) \in JobRequest /\ Request(j, w, 0, n).attempt = 0
      BY ClientAssumption DEF Request, JobRequest
    <2>2. Grown(Request(j, w, 0, n))
      BY <1>2, <2>1, AppendGrows DEF Arrive, TypeOK, QueueTypeOK
    <2>3. RetryChain' /\ KeepsLog
      BY <2>1, <2>2, ChainGrown DEF RetryInv, Grown, KeepsLog
    <2> QED
      BY <1>2, <2>3, RetryPcKept DEF Arrive, workerVars, RetryInv
  <1>3. ASSUME NEW g \in Goroutines, Fetch(g)
        PROVE  RetryInv'
    <2>1. \A h \in Goroutines \ {g} : proc'[h] = proc[h]
      BY <1>3 DEF Fetch, TypeOK, WorkerTypeOK
    <2>2. proc'[g].pc = "getQueue"
      BY <1>3 DEF Fetch, TypeOK, WorkerTypeOK
    <2> QED
      BY <1>0, <1>3, <2>1, <2>2, RetryPcKept DEF Fetch, RetryInv, At
  <1>4. ASSUME NEW g \in Goroutines, GoroutineStep(g)
        PROVE  RetryInv'
    <2>1. /\ Busy(g) /\ KeepsLog
          /\ \A h \in Goroutines \ {g} : proc'[h] = proc[h]
      BY <1>4, StepShape
    <2>2. \A h \in Goroutines \ {g} : At(h, "retry")' => HasRetryLeft(Req(h))'
      BY <2>1, RetryPcKept
    <2>3. CASE Fail(g)
      <3>1. topic' = topic /\ Req(g)' = Req(g)
        BY <2>1, <2>3, StepShape, ReqKept, <1>4 DEF Fail, Goto, TypeOK, WorkerTypeOK
      <3>2. At(g, "retry")' => HasRetryLeft(Req(g))
        BY <2>3 DEF Fail, Goto, At, TypeOK, WorkerTypeOK
      <3> QED
        BY <1>0, <2>2, <3>1, <3>2 DEF RetryInv, HasRetryLeft, NextAttempt
    <2>4. CASE Retry(g)
      <3> DEFINE m == Req(g)  again == Request(m.job, m.work, NextAttempt(m), m.maxRetry)
      <3>1. m \in JobRequest /\ again \in JobRequest
        BY <2>1, ReqType DEF NextAttempt, Request, JobRequest
      <3>2. Grown(again)
        BY <2>4, <3>1, EnqueueGrows DEF Retry, TypeOK, QueueTypeOK
      <3>3. again.attempt <= again.maxRetry
        BY <2>4 DEF Retry, RetryInv, HasRetryLeft, Request
      <3>4. m = [again EXCEPT !.attempt = again.attempt - 1]
        BY <3>1 DEF JobRequest, Request, NextAttempt
      <3>5. \E k \in 1 .. Len(topic) : topic[k] = [again EXCEPT !.attempt = again.attempt - 1]
        BY <2>1, <3>4 DEF Req, TypeOK, WorkerTypeOK
      <3>6. RetryChain'
        BY <3>1, <3>2, <3>3, <3>5, ChainGrown DEF RetryInv
      <3>7. proc'[g].pc = "release"
        BY <2>4 DEF Retry, Goto, TypeOK, WorkerTypeOK
      <3> QED
        BY <2>2, <3>6, <3>7 DEF RetryInv, At
    <2>5. CASE ~Fail(g) /\ ~Retry(g)
      <3>1. topic' = topic
        BY <1>4, <2>5 DEF GoroutineStep, GetQueue, Acquire, Load, Start, Handle, Complete,
                          CompleteEmail, Reject, Archive, Release, Commit
      <3>2. proc'[g].pc # "retry"
        BY <1>4, <2>5 DEF GoroutineStep, GetQueue, Acquire, Load, Start, Handle, Complete,
                          CompleteEmail, Reject, Archive, Release, Commit, Goto, Idle, Branch,
                          TypeOK, WorkerTypeOK
      <3> QED
        BY <1>0, <2>2, <3>1, <3>2 DEF RetryInv, At
    <2> QED
      BY <2>3, <2>4, <2>5
  <1>5. CASE Rebalance
    BY <1>0, <1>5, RetryPcKept DEF Rebalance, RetryInv
  <1>6. ASSUME NEW w \in Workers, Crash(w)
        PROVE  RetryInv'
    <2>1. \A h \in Goroutines : proc'[h] = proc[h] \/ proc'[h].pc = "idle"
      BY <1>6 DEF Crash, Idle
    <2> QED
      BY <1>0, <1>6, <2>1, RetryPcKept DEF Crash, RetryInv, At
  <1> QED
    BY <1>1, <1>2, <1>3, <1>4, <1>5, <1>6 DEF Next, WorkerNext

\* Retries stay within max_retry and follow one another without a gap, under
\* crashes, redeliveries and duplicated writes alike.
THEOREM RetriesFollow == Spec => []RetryChain
  <1>1. Init => RetryInv
    BY EmptySeq DEF Init, StoreInit, QueueInit, WorkerInit, RetryInv, RetryChain, At, Idle
  <1>2. RetryInv => RetryChain
    BY DEF RetryInv
  <1> QED
    BY <1>1, <1>2, BaseInv, RetryStep, PTL DEF Spec

----------------------------------------------------------------------------
(***************************************************************************)
(* Emails.  A message carries the work of its row, so that what process    *)
(* branches on is what the row says; and no goroutine that runs a handler  *)
(* or completes without the outbox works on an email.                      *)
(***************************************************************************)
WorkAgrees ==
    \A i \in DOMAIN topic :
        /\ jobs[topic[i].job] # NoRow
        /\ jobs[topic[i].job].work = topic[i].work

NoEmailHandled ==
    \A g \in Goroutines :
        At(g, "handle") \/ At(g, "complete") => Req(g).work.type # EmailType

EmailInv == CompletedEmailHasOutbox /\ WorkAgrees /\ NoEmailHandled

\* A goroutine's message has a row with the same work.
LEMMA ReqRow ==
    ASSUME TypeOK, WorkAgrees, NEW g \in Goroutines, Busy(g)
    PROVE  jobs[Req(g).job] # NoRow /\ jobs[Req(g).job].work = Req(g).work
  <1>1. proc[g].msg \in DOMAIN topic
    BY LenProperties DEF TypeOK, QueueTypeOK, WorkerTypeOK
  <1> QED
    BY <1>1 DEF WorkAgrees, Req

\* UpdateStatus leaves the work of every row as it is.
LEMMA RowsKept ==
    ASSUME TypeOK, NEW j \in Jobs, NEW status \in Statuses, NEW attempt \in Nat,
           jobs' = Updated(j, status, attempt) \/ jobs' = jobs
    PROVE  \A k \in Jobs : jobs[k] # NoRow => jobs'[k] # NoRow /\ jobs'[k].work = jobs[k].work
  <1>1. CASE jobs' = jobs
    BY <1>1
  <1>2. CASE jobs[j] = NoRow
    BY <1>2 DEF Updated
  <1>3. CASE jobs' = Updated(j, status, attempt) /\ jobs[j] # NoRow
    <2> SUFFICES ASSUME NEW k \in Jobs, jobs[k] # NoRow
                 PROVE  jobs'[k] # NoRow /\ jobs'[k].work = jobs[k].work
      OBVIOUS
    <2>1. CASE k # j
      BY <1>3, <2>1, UpdatedRow
    <2>2. CASE k = j
      <3>1. jobs[j] \in JobRecord
        BY <1>3 DEF TypeOK, StoreTypeOK
      <3>2. jobs' = [jobs EXCEPT ![j] = [jobs[j] EXCEPT !.status = status, !.attempt = attempt]]
        BY <1>3 DEF Updated
      <3>3. jobs'[j] = [jobs[j] EXCEPT !.status = status, !.attempt = attempt]
        BY <3>2 DEF TypeOK, StoreTypeOK
      <3>4. jobs'[j] \in JobRecord /\ jobs'[j].work = jobs[j].work
        BY <3>1, <3>3 DEF JobRecord
      <3> QED
        BY <2>2, <3>4, StoreAssumption
    <2> QED
      BY <2>1, <2>2
  <1> QED
    BY <1>1, <1>2, <1>3

\* WorkAgrees and CompletedEmailHasOutbox survive an UpdateStatus that does not
\* complete an email.
LEMMA UpdateKeepsEmails ==
    ASSUME TypeOK, EmailInv, NEW j \in Jobs, NEW status \in Statuses, NEW attempt \in Nat,
           UpdateStatus(j, status, attempt), UNCHANGED outbox,
           status = "completed" => jobs[j].work.type # EmailType
    PROVE  CompletedEmailHasOutbox'
  <1>1. CASE jobs' = jobs \/ jobs[j] = NoRow
    BY <1>1 DEF EmailInv, CompletedEmailHasOutbox, UpdateStatus, Updated
  <1>2. CASE jobs' = Updated(j, status, attempt) /\ jobs[j] # NoRow
    <2> SUFFICES ASSUME NEW k \in Jobs, jobs'[k] # NoRow,
                        jobs'[k].work.type = EmailType, jobs'[k].status = "completed"
                 PROVE  \E i \in DOMAIN outbox : outbox[i].job = k
      BY DEF CompletedEmailHasOutbox
    <2>1. k # j
      BY <1>2, UpdatedRow
    <2>2. jobs'[k] = jobs[k]
      BY <1>2, <2>1, UpdatedRow
    <2> QED
      BY <2>2 DEF EmailInv, CompletedEmailHasOutbox
  <1> QED
    BY <1>1, <1>2 DEF UpdateStatus

LEMMA CompleteEmailKeeps ==
    ASSUME TypeOK, EmailInv, NEW j \in Jobs, NEW attempt \in Nat,
           CompleteJobWithOutbox(j, "completed", attempt)
    PROVE  CompletedEmailHasOutbox'
  <1> DEFINE row == [job |-> j, status |-> "pending"]
  <1>1. row \in OutboxRecord /\ outbox \in Seq(OutboxRecord)
    BY DEF OutboxRecord, TypeOK, StoreTypeOK
  <1>2. /\ DOMAIN outbox' = 1 .. Len(outbox) + 1 /\ DOMAIN outbox = 1 .. Len(outbox)
        /\ Len(outbox) \in Nat
        /\ outbox'[Len(outbox) + 1] = row
        /\ \A i \in 1 .. Len(outbox) : outbox'[i] = outbox[i]
    BY <1>1, AppendProperties, LenProperties DEF CompleteJobWithOutbox
  <1> SUFFICES ASSUME NEW k \in Jobs, jobs'[k] # NoRow,
                      jobs'[k].work.type = EmailType, jobs'[k].status = "completed"
               PROVE  \E i \in DOMAIN outbox' : outbox'[i].job = k
    BY DEF CompletedEmailHasOutbox
  <1>3. CASE k = j
    <2>1. Len(outbox) + 1 \in DOMAIN outbox' /\ outbox'[Len(outbox) + 1].job = k
      BY <1>2, <1>3
    <2> QED
      BY <2>1
  <1>4. CASE k # j
    <2>1. jobs'[k] = jobs[k]
      BY <1>4, UpdatedRows DEF CompleteJobWithOutbox, Statuses
    <2>2. PICK i \in DOMAIN outbox : outbox[i].job = k
      BY <2>1 DEF EmailInv, CompletedEmailHasOutbox
    <2> QED
      BY <1>2, <2>2
  <1> QED
    BY <1>3, <1>4

\* A log that gained only messages of a row's job and work still agrees with
\* the rows, if these kept their work.
LEMMA WorkKept ==
    ASSUME TypeOK, WorkAgrees,
           \A k \in Jobs : jobs[k] # NoRow => jobs'[k] # NoRow /\ jobs'[k].work = jobs[k].work,
           \/ topic' = topic
           \/ \E m \in JobRequest : /\ Grown(m)
                                    /\ jobs'[m.job] # NoRow /\ jobs'[m.job].work = m.work
    PROVE  WorkAgrees'
  <1>1. \A i \in DOMAIN topic : topic[i].job \in Jobs
    <2>1. \A i \in DOMAIN topic : topic[i] \in JobRequest
      BY LenProperties DEF TypeOK, QueueTypeOK
    <2> QED
      BY <2>1 DEF JobRequest
  <1>2. CASE topic' = topic
    BY <1>1, <1>2 DEF WorkAgrees
  <1>3. ASSUME NEW m \in JobRequest, Grown(m),
               jobs'[m.job] # NoRow, jobs'[m.job].work = m.work
        PROVE  WorkAgrees'
    <2> SUFFICES ASSUME NEW i \in DOMAIN topic'
                 PROVE  /\ jobs'[topic'[i].job] # NoRow
                        /\ jobs'[topic'[i].job].work = topic'[i].work
      BY DEF WorkAgrees
    <2>1. i \in 1 .. Len(topic') /\ DOMAIN topic = 1 .. Len(topic) /\ Len(topic) \in Nat
      BY <1>3, LenProperties DEF TypeOK, QueueTypeOK, Grown
    <2>2. CASE i <= Len(topic)
      <3>1. i \in DOMAIN topic /\ topic'[i] = topic[i]
        BY <1>3, <2>1, <2>2 DEF Grown
      <3> QED
        BY <1>1, <3>1 DEF WorkAgrees
    <2>3. CASE i > Len(topic)
      BY <1>3, <2>1, <2>3 DEF Grown
    <2> QED
      BY <2>1, <2>2, <2>3
  <1> QED
    BY <1>2, <1>3

\* A goroutine that was not moved handles no email afterwards either.
LEMMA HandledKept ==
    ASSUME TypeOK, EmailInv, KeepsLog, NEW h \in Goroutines, proc'[h] = proc[h]
    PROVE  At(h, "handle")' \/ At(h, "complete")' => Req(h)'.work.type # EmailType
  <1> SUFFICES ASSUME At(h, "handle")' \/ At(h, "complete")'
               PROVE  Req(h)'.work.type # EmailType
    OBVIOUS
  <1>1. (At(h, "handle") \/ At(h, "complete")) /\ Busy(h)
    BY DEF At, Busy
  <1>2. Req(h)' = Req(h)
    BY <1>1, ReqKept
  <1> QED
    BY <1>1, <1>2 DEF EmailInv, NoEmailHandled

\* After its own step a goroutine is at handle only if its message is no email,
\* and at complete only if it was at handle.
LEMMA NoEmailStep ==
    ASSUME TypeOK, EmailInv, NEW g \in Goroutines, GoroutineStep(g)
    PROVE  NoEmailHandled'
  <1>1. /\ Busy(g) /\ KeepsLog
        /\ \A h \in Goroutines \ {g} : proc'[h] = proc[h]
        /\ proc'[g].pc # "idle" => proc'[g].msg = proc[g].msg
    BY StepShape
  <1>2. SUFFICES ASSUME At(g, "handle")' \/ At(g, "complete")'
                 PROVE  Req(g)'.work.type # EmailType
    BY <1>1, HandledKept DEF NoEmailHandled
  <1>3. Req(g)' = Req(g)
    BY <1>1, <1>2, ReqKept DEF At
  <1>4. CASE Start(g)
    <2>1. proc'[g].pc = Branch(Req(g).work)
      BY <1>4 DEF Start, Goto, TypeOK, WorkerTypeOK
    <2> QED
      BY <1>2, <1>3, <2>1 DEF Branch, At
  <1>5. CASE Handle(g)
    BY <1>3, <1>5 DEF Handle, EmailInv, NoEmailHandled
  <1>6. CASE ~Start(g) /\ ~Handle(g)
    BY <1>2, <1>6 DEF GoroutineStep, GetQueue, Acquire, Load, Complete, CompleteEmail, Reject,
                      Fail, Retry, Archive, Release, Commit, Goto, Idle, At, TypeOK, WorkerTypeOK
  <1> QED
    BY <1>4, <1>5, <1>6

\* What a step of a goroutine does to the tables and the log.
LEMMA EmailGoroutineStep ==
    ASSUME TypeOK, EmailInv, NEW g \in Goroutines, GoroutineStep(g)
    PROVE  CompletedEmailHasOutbox' /\ WorkAgrees'
  <1> DEFINE r == Req(g)
  <1>1. /\ Busy(g)
        /\ r \in JobRequest /\ r.job \in Jobs
        /\ r.attempt \in Nat /\ NextAttempt(r) \in Nat
    BY StepShape, ReqType DEF NextAttempt
  <1>2. jobs[r.job] # NoRow /\ jobs[r.job].work = r.work
    BY <1>1, ReqRow DEF EmailInv
  <1>3. ASSUME NEW status \in Statuses, NEW attempt \in Nat,
               UpdateStatus(r.job, status, attempt), UNCHANGED <<outbox, topic>>,
               status = "completed" => r.work.type # EmailType
        PROVE  CompletedEmailHasOutbox' /\ WorkAgrees'
    <2>1. CompletedEmailHasOutbox'
      BY <1>1, <1>2, <1>3, UpdateKeepsEmails
    <2>2. jobs' = Updated(r.job, status, attempt) \/ jobs' = jobs
      BY <1>3 DEF UpdateStatus
    <2>3. \A k \in Jobs : jobs[k] # NoRow => jobs'[k] # NoRow /\ jobs'[k].work = jobs[k].work
      BY <1>1, <2>2, RowsKept
    <2> QED
      BY <1>3, <2>1, <2>3, WorkKept DEF EmailInv
  <1>4. CASE Start(g)
    BY <1>1, <1>3, <1>4 DEF Start, Statuses
  <1>5. CASE Complete(g)
    BY <1>1, <1>3, <1>5 DEF Complete, Statuses, EmailInv, NoEmailHandled
  <1>6. CASE Reject(g)
    BY <1>1, <1>3, <1>6 DEF Reject, Statuses
  <1>7. CASE Fail(g)
    BY <1>1, <1>3, <1>7 DEF Fail, Statuses
  <1>8. CASE Archive(g)
    BY <1>1, <1>3, <1>8 DEF Archive, Statuses
  <1>9. CASE CompleteEmail(g)
    <2>1. CASE CompleteJobWithOutbox(r.job, "completed", r.attempt)
      <3>1. \A k \in Jobs : jobs[k] # NoRow => jobs'[k] # NoRow /\ jobs'[k].work = jobs[k].work
        BY <1>1, <2>1, RowsKept DEF CompleteJobWithOutbox, Statuses
      <3>2. WorkAgrees'
        BY <1>9, <3>1, WorkKept DEF CompleteEmail, EmailInv
      <3> QED
        BY <1>1, <2>1, <3>2, CompleteEmailKeeps
    <2>2. CASE UNCHANGED <<jobs, outbox>>
      BY <1>9, <2>2, WorkKept DEF CompleteEmail, EmailInv, CompletedEmailHasOutbox
    <2> QED
      BY <1>9, <2>1, <2>2 DEF CompleteEmail
  <1>10. CASE Retry(g)
    <2> DEFINE again == Request(r.job, r.work, NextAttempt(r), r.maxRetry)
    <2>1. again \in JobRequest /\ again.job = r.job /\ again.work = r.work
      BY <1>1, ReqType DEF Request, JobRequest
    <2>2. Grown(again)
      BY <1>10, <2>1, EnqueueGrows DEF Retry, TypeOK, QueueTypeOK
    <2>3. jobs' = jobs /\ outbox' = outbox
      BY <1>10 DEF Retry, storeVars
    <2>4. WorkAgrees'
      BY <1>2, <2>1, <2>2, <2>3, WorkKept DEF EmailInv
    <2> QED
      BY <2>3, <2>4 DEF EmailInv, CompletedEmailHasOutbox
  <1>11. CASE ~ (\/ Start(g) \/ Complete(g) \/ Reject(g) \/ Fail(g) \/ Archive(g)
                 \/ CompleteEmail(g) \/ Retry(g))
    <2>1. UNCHANGED <<jobs, outbox, topic>>
      BY <1>11 DEF GoroutineStep, GetQueue, Acquire, Load, Handle, Release, Commit, storeVars
    <2> QED
      BY <2>1, WorkKept DEF EmailInv, CompletedEmailHasOutbox
  <1> QED
    BY <1>4, <1>5, <1>6, <1>7, <1>8, <1>9, <1>10, <1>11

LEMMA EmailStep == Base /\ EmailInv /\ [Next]_vars => EmailInv'
  <1> SUFFICES ASSUME Base, EmailInv, [Next]_vars PROVE EmailInv'
    OBVIOUS
  <1> USE DEF Base
  <1>0. ASSUME UNCHANGED <<jobs, outbox, topic>>
        PROVE  CompletedEmailHasOutbox' /\ WorkAgrees' /\ KeepsLog
    BY <1>0 DEF EmailInv, CompletedEmailHasOutbox, WorkAgrees, KeepsLog
  <1>1. CASE UNCHANGED vars
    BY <1>0, <1>1, HandledKept DEF vars, EmailInv, NoEmailHandled
  <1>2. ASSUME NEW j \in Jobs, NEW w \in Offered, NEW n \in Budgets, Arrive(j, w, n)
        PROVE  EmailInv'
    <2> DEFINE m == Request(j, w, 0, n)
    <2>1. m \in JobRequest /\ m.job = j /\ m.work = w
      BY ClientAssumption DEF Request, JobRequest
    <2>2. Grown(m) /\ KeepsLog
      BY <1>2, <2>1, AppendGrows DEF Arrive, TypeOK, QueueTypeOK, Grown, KeepsLog
    <2>3. jobs[j] = NoRow /\ outbox' = outbox /\ proc' = proc
      BY <1>2 DEF Arrive, workerVars
    <2>4. /\ jobs'[j] = [work |-> w, status |-> "pending", attempt |-> 0,
                         runAt |-> 0, key |-> NoKey]
          /\ \A k \in Jobs \ {j} : jobs'[k] = jobs[k]
      BY <1>2 DEF Arrive, Inserted, TypeOK, StoreTypeOK
    <2>5. jobs'[j] \in JobRecord
      BY <2>4, ClientAssumption DEF JobRecord, Statuses
    <2>6. jobs'[j] # NoRow /\ jobs'[j].work = w /\ jobs'[j].status = "pending"
      BY <2>4, <2>5, StoreAssumption
    <2>7. WorkAgrees'
      BY <2>1, <2>2, <2>3, <2>4, <2>6, WorkKept DEF EmailInv
    <2>8. CompletedEmailHasOutbox'
      BY <2>3, <2>4, <2>6 DEF EmailInv, CompletedEmailHasOutbox
    <2> QED
      BY <2>2, <2>3, <2>7, <2>8, HandledKept DEF EmailInv, NoEmailHandled
  <1>3. ASSUME NEW g \in Goroutines, Fetch(g)
        PROVE  EmailInv'
    <2>1. /\ \A h \in Goroutines \ {g} : proc'[h] = proc[h]
          /\ proc'[g].pc = "getQueue"
          /\ UNCHANGED <<jobs, outbox, topic>>
      BY <1>3 DEF Fetch, TypeOK, WorkerTypeOK, storeVars
    <2> QED
      BY <1>0, <2>1, HandledKept DEF EmailInv, NoEmailHandled, At
  <1>4. ASSUME NEW g \in Goroutines, GoroutineStep(g)
        PROVE  EmailInv'
    BY <1>4, NoEmailStep, EmailGoroutineStep DEF EmailInv
  <1>5. CASE Rebalance
    BY <1>0, <1>5, HandledKept DEF Rebalance, EmailInv, NoEmailHandled, storeVars
  <1>6. ASSUME NEW w \in Workers, Crash(w)
        PROVE  EmailInv'
    <2>1. \A h \in Goroutines : proc'[h] = proc[h] \/ proc'[h].pc = "idle"
      BY <1>6 DEF Crash, Idle
    <2> QED
      BY <1>0, <1>6, <2>1, HandledKept DEF Crash, EmailInv, NoEmailHandled, At, storeVars
  <1> QED
    BY <1>1, <1>2, <1>3, <1>4, <1>5, <1>6 DEF Next, WorkerNext

\* No email is completed without its outbox row, whatever fails, dies or is
\* delivered again.
THEOREM EmailsReachOutbox == Spec => []CompletedEmailHasOutbox
  <1>1. Init => EmailInv
    BY EmptySeq DEF Init, StoreInit, QueueInit, WorkerInit, EmailInv, CompletedEmailHasOutbox,
                    WorkAgrees, NoEmailHandled, At, Idle
  <1>2. EmailInv => CompletedEmailHasOutbox
    BY DEF EmailInv
  <1> QED
    BY <1>1, <1>2, BaseInv, EmailStep, PTL DEF Spec

----------------------------------------------------------------------------
(***************************************************************************)
(* Archived jobs.  A goroutine that is about to archive works on the last  *)
(* attempt, since the one before was within max_retry (RetryChain) and the *)
(* next one would not be.                                                  *)
(***************************************************************************)
LastAttempt(g) == Req(g).attempt = Req(g).maxRetry

ArchiveInv ==
    /\ ArchivedAfterEveryAttempt
    /\ \A g \in Goroutines : At(g, "archive") => LastAttempt(g)

\* The attempt of any message is within its budget.
LEMMA WithinBudget ==
    ASSUME TypeOK, RetryChain, NEW g \in Goroutines, Busy(g)
    PROVE  Req(g).attempt <= Req(g).maxRetry
  <1>1. proc[g].msg \in DOMAIN topic
    BY LenProperties DEF TypeOK, QueueTypeOK, WorkerTypeOK
  <1>2. Req(g).attempt \in Nat /\ Req(g).maxRetry \in Nat
    BY ReqType
  <1>3. Req(g).attempt > 0 => Req(g).attempt <= Req(g).maxRetry
    BY <1>1, Zenon DEF RetryChain, Req
  <1> QED
    BY <1>2, <1>3

\* A step that archives at most job j, after its last attempt, and otherwise
\* leaves archived rows alone or overwrites them.
LEMMA ArchivedKept ==
    ASSUME TypeOK, ArchivedAfterEveryAttempt, KeepsLog,
           topic' \in Seq(JobRequest), Len(topic') >= Len(topic), NEW j \in Jobs,
           \A k \in Jobs \ {j} : jobs'[k] = jobs[k],
           \/ jobs'[j] = jobs[j]
           \/ jobs'[j].status # "archived"
           \/ \E i \in DOMAIN topic :
                 /\ topic[i].job = j /\ topic[i].attempt = topic[i].maxRetry
                 /\ jobs'[j].attempt = topic[i].attempt + 1
    PROVE  ArchivedAfterEveryAttempt'
  <1>1. \A i \in DOMAIN topic : i \in DOMAIN topic' /\ topic'[i] = topic[i]
    <2>1. /\ DOMAIN topic = 1 .. Len(topic) /\ DOMAIN topic' = 1 .. Len(topic')
          /\ Len(topic) \in Nat /\ Len(topic') \in Nat
      BY LenProperties DEF TypeOK, QueueTypeOK
    <2> QED
      BY <2>1 DEF KeepsLog
  <1> SUFFICES ASSUME NEW k \in Jobs, jobs'[k] # NoRow, jobs'[k].status = "archived"
               PROVE  \E i \in DOMAIN topic' :
                         /\ topic'[i].job = k
                         /\ topic'[i].attempt = topic'[i].maxRetry
                         /\ jobs'[k].attempt = topic'[i].attempt + 1
    BY DEF ArchivedAfterEveryAttempt
  <1>2. CASE jobs'[k] = jobs[k]
    <2>1. PICK i \in DOMAIN topic :
              /\ topic[i].job = k /\ topic[i].attempt = topic[i].maxRetry
              /\ jobs[k].attempt = topic[i].attempt + 1
      BY <1>2 DEF ArchivedAfterEveryAttempt
    <2> QED
      BY <1>1, <1>2, <2>1
  <1>3. CASE jobs'[k] # jobs[k]
    <2>1. k = j
      BY <1>3
    <2>2. PICK i \in DOMAIN topic :
              /\ topic[i].job = j /\ topic[i].attempt = topic[i].maxRetry
              /\ jobs'[j].attempt = topic[i].attempt + 1
      BY <1>3, <2>1
    <2> QED
      BY <1>1, <2>1, <2>2
  <1> QED
    BY <1>2, <1>3

LEMMA ArchiveGoroutineStep ==
    ASSUME TypeOK, RetryInv, ArchiveInv, NEW g \in Goroutines, GoroutineStep(g)
    PROVE  ArchivedAfterEveryAttempt'
  <1> DEFINE r == Req(g)
  <1>1. /\ Busy(g) /\ KeepsLog
        /\ topic' \in Seq(JobRequest) /\ Len(topic') >= Len(topic)
        /\ r.job \in Jobs /\ r.attempt \in Nat /\ NextAttempt(r) \in Nat
        /\ proc[g].msg \in DOMAIN topic
    BY StepShape, ReqType, LenProperties DEF NextAttempt, TypeOK, QueueTypeOK, WorkerTypeOK
  <1>2. ASSUME NEW status \in Statuses, NEW attempt \in Nat, status # "archived",
               jobs' = Updated(r.job, status, attempt) \/ jobs' = jobs
        PROVE  ArchivedAfterEveryAttempt'
    <2>1. /\ \A k \in Jobs \ {r.job} : jobs'[k] = jobs[k]
          /\ jobs'[r.job] = jobs[r.job] \/ jobs'[r.job].status # "archived"
      BY <1>1, <1>2, UpdatedRows
    <2> QED
      BY <1>1, <2>1, ArchivedKept DEF ArchiveInv
  <1>3. CASE Archive(g)
    <2>1. /\ \A k \in Jobs \ {r.job} : jobs'[k] = jobs[k]
          /\ jobs'[r.job] = jobs[r.job] \/ jobs'[r.job].attempt = NextAttempt(r)
      BY <1>1, <1>3, UpdatedRows DEF Archive, UpdateStatus, Statuses
    <2>2. r.attempt = r.maxRetry
      BY <1>3 DEF Archive, ArchiveInv, LastAttempt
    <2>3. topic[proc[g].msg] = r
      BY DEF Req
    <2> QED
      BY <1>1, <2>1, <2>2, <2>3, ArchivedKept DEF ArchiveInv, NextAttempt
  <1>4. CASE Start(g) \/ Complete(g) \/ CompleteEmail(g) \/ Reject(g) \/ Fail(g)
    BY <1>1, <1>2, <1>4 DEF Start, Complete, CompleteEmail, Reject, Fail, UpdateStatus,
                            CompleteJobWithOutbox, Statuses
  <1>5. CASE ~Archive(g) /\ ~(Start(g) \/ Complete(g) \/ CompleteEmail(g) \/ Reject(g) \/ Fail(g))
    <2>1. jobs' = jobs
      BY <1>5 DEF GoroutineStep, GetQueue, Acquire, Load, Handle, Retry, Release, Commit, storeVars
    <2> QED
      BY <1>1, <1>2, <2>1 DEF Statuses
  <1> QED
    BY <1>3, <1>4, <1>5

\* A goroutine that was not moved.
LEMMA LastAttemptKept ==
    ASSUME TypeOK, ArchiveInv, KeepsLog, NEW h \in Goroutines, proc'[h] = proc[h]
    PROVE  At(h, "archive")' => LastAttempt(h)'
  <1> SUFFICES ASSUME At(h, "archive")' PROVE LastAttempt(h)'
    OBVIOUS
  <1>1. At(h, "archive") /\ Busy(h)
    BY DEF At, Busy
  <1>2. Req(h)' = Req(h)
    BY <1>1, ReqKept
  <1> QED
    BY <1>1, <1>2 DEF ArchiveInv, LastAttempt

\* Only Fail leads to "archive", and only from the last attempt.
LEMMA LastAttemptStep ==
    ASSUME TypeOK, RetryInv, ArchiveInv, NEW g \in Goroutines, GoroutineStep(g)
    PROVE  \A h \in Goroutines : At(h, "archive")' => LastAttempt(h)'
  <1>1. /\ Busy(g) /\ KeepsLog
        /\ \A h \in Goroutines \ {g} : proc'[h] = proc[h]
        /\ proc'[g].pc # "idle" => proc'[g].msg = proc[g].msg
    BY StepShape
  <1>2. SUFFICES ASSUME At(g, "archive")' PROVE LastAttempt(g)'
    BY <1>1, LastAttemptKept
  <1>3. Req(g)' = Req(g)
    BY <1>1, <1>2, ReqKept DEF At
  <1>4. CASE Fail(g)
    <2>1. ~HasRetryLeft(Req(g))
      BY <1>2, <1>4 DEF Fail, Goto, At, TypeOK, WorkerTypeOK
    <2>2. /\ Req(g).attempt \in Nat /\ Req(g).maxRetry \in Nat
          /\ Req(g).attempt <= Req(g).maxRetry
      BY <1>1, ReqType, WithinBudget DEF RetryInv
    <2> QED
      BY <1>3, <2>1, <2>2 DEF HasRetryLeft, NextAttempt, LastAttempt
  <1>5. CASE ~Fail(g)
    BY <1>2, <1>5 DEF GoroutineStep, GetQueue, Acquire, Load, Start, Handle, Complete,
                      CompleteEmail, Reject, Retry, Archive, Release, Commit, Goto, Idle, Branch,
                      At, TypeOK, WorkerTypeOK
  <1> QED
    BY <1>4, <1>5

LEMMA ArchiveStep == Base /\ RetryInv /\ ArchiveInv /\ [Next]_vars => ArchiveInv'
  <1> SUFFICES ASSUME Base, RetryInv, ArchiveInv, [Next]_vars PROVE ArchiveInv'
    OBVIOUS
  <1> USE DEF Base
  <1>0. ASSUME UNCHANGED <<jobs, topic>>
        PROVE  ArchivedAfterEveryAttempt' /\ KeepsLog
    BY <1>0 DEF ArchiveInv, ArchivedAfterEveryAttempt, KeepsLog
  <1>1. CASE UNCHANGED vars
    BY <1>0, <1>1, LastAttemptKept DEF vars, ArchiveInv
  <1>2. ASSUME NEW j \in Jobs, NEW w \in Offered, NEW n \in Budgets, Arrive(j, w, n)
        PROVE  ArchiveInv'
    <2>1. Request(j, w, 0, n) \in JobRequest
      BY ClientAssumption DEF Request, JobRequest
    <2>2. KeepsLog /\ topic' \in Seq(JobRequest) /\ Len(topic') >= Len(topic)
      BY <1>2, <2>1, AppendGrows DEF Arrive, TypeOK, QueueTypeOK, Grown, KeepsLog
    <2>3. /\ \A k \in Jobs \ {j} : jobs'[k] = jobs[k]
          /\ jobs'[j].status # "archived"
      BY <1>2 DEF Arrive, Inserted, TypeOK, StoreTypeOK
    <2>4. ArchivedAfterEveryAttempt'
      BY <2>2, <2>3, ArchivedKept DEF ArchiveInv
    <2> QED
      BY <1>2, <2>2, <2>4, LastAttemptKept DEF Arrive, workerVars, ArchiveInv
  <1>3. ASSUME NEW g \in Goroutines, Fetch(g)
        PROVE  ArchiveInv'
    <2>1. /\ \A h \in Goroutines \ {g} : proc'[h] = proc[h]
          /\ proc'[g].pc = "getQueue"
          /\ UNCHANGED <<jobs, topic>>
      BY <1>3 DEF Fetch, TypeOK, WorkerTypeOK, storeVars
    <2> QED
      BY <1>0, <2>1, LastAttemptKept DEF ArchiveInv, At
  <1>4. ASSUME NEW g \in Goroutines, GoroutineStep(g)
        PROVE  ArchiveInv'
    BY <1>4, ArchiveGoroutineStep, LastAttemptStep DEF ArchiveInv
  <1>5. CASE Rebalance
    BY <1>0, <1>5, LastAttemptKept DEF Rebalance, ArchiveInv, storeVars
  <1>6. ASSUME NEW w \in Workers, Crash(w)
        PROVE  ArchiveInv'
    <2>1. \A h \in Goroutines : proc'[h] = proc[h] \/ proc'[h].pc = "idle"
      BY <1>6 DEF Crash, Idle
    <2> QED
      BY <1>0, <1>6, <2>1, LastAttemptKept DEF Crash, ArchiveInv, At, storeVars
  <1> QED
    BY <1>1, <1>2, <1>3, <1>4, <1>5, <1>6 DEF Next, WorkerNext

\* Every archived job had all of its 1 + max_retry attempts in the topic.
THEOREM ArchivedInTheEnd == Spec => []ArchivedAfterEveryAttempt
  <1>1. Init => RetryInv /\ ArchiveInv
    BY EmptySeq DEF Init, StoreInit, QueueInit, WorkerInit, RetryInv, RetryChain, ArchiveInv,
                    ArchivedAfterEveryAttempt, At, Idle
  <1>2. ArchiveInv => ArchivedAfterEveryAttempt
    BY DEF ArchiveInv
  <1> QED
    BY <1>1, <1>2, BaseInv, RetryStep, ArchiveStep, PTL DEF Spec
=============================================================================
