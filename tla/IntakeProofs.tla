---------------------------- MODULE IntakeProofs ----------------------------
(***************************************************************************)
(* Theorems about everything that makes jobs, for any number of users,     *)
(* requests, messages, rounds and failures.                                *)
(***************************************************************************)
EXTENDS Intake, BackendProofs, FiniteSetTheorems

----------------------------------------------------------------------------
(***************************************************************************)
(* What the programs post, and what a step of the backend touches.         *)
(***************************************************************************)

\* Every post has a payload, a number of retries and a time.
LEMMA PostsType ==
    ASSUME NEW r \in Requests, NEW p \in PostsOf(r), now \in Nat
    PROVE  p.payload \in Payloads /\ p.maxRetry \in Nat /\ p.runAt \in Nat
  <1> DEFINE Good(q) == q.payload \in Payloads /\ q.maxRetry \in Nat /\ q.runAt \in Nat
  <1>0. /\ Sound \in Payloads /\ ToOutside \in Payloads /\ Blank \in Payloads
        /\ NotAStruct \in Payloads /\ FailingAt(1) \in Payloads /\ r.op \in UserOps
        /\ Delay \in Nat
    BY FrontAssumption, UpstreamAssumption
  <1>1. ASSUME NEW t, NEW y \in Payloads, NEW n \in Nat, NEW at \in Nat
        PROVE  Good(Post(t, y, n, at))
    BY DEF Post
  <1>2. ASSUME NEW t, NEW y \in Payloads, NEW q \in Plain(t, y)
        PROVE  Good(q)
    <2>1. q = Post(t, y, 0, 0)
      BY DEF Plain
    <2> QED
      BY <1>1, <2>1
  <1> HIDE DEF Good
  <1>3. CASE r.op = "register" \/ r.op = "password-reset"
    <2>1. p \in Plain("email", Sound)
      BY <1>3 DEF PostsOf, Posts, Register, PasswordReset
    <2> QED
      BY <1>0, <1>2, <2>1 DEF Good
  <1>4. CASE r.op = "invoice" \/ r.op = "report" \/ r.op = "invoice-ready"
    <2>1. \/ p \in Plain("invoice", ToOutside)
          \/ p \in Plain("report", ToOutside)
          \/ p \in Plain("email", Sound)
      BY <1>4 DEF PostsOf, Posts, BillInvoice, BillReport, InvoiceReady
    <2> QED
      BY <1>0, <1>2, <2>1 DEF Good
  <1>5. CASE r.op = "submit"
    <2>1. p = EmptyBody \/ p \in Plain(r.item, DefaultPayload(r.item))
      BY <1>5 DEF PostsOf, Posts, DemoSubmit
    <2>2. DefaultPayload(r.item) \in Payloads
      BY <1>0 DEF DefaultPayload
    <2>3. Good(EmptyBody)
      BY <1>0, <1>1 DEF EmptyBody
    <2> QED
      BY <1>2, <2>1, <2>2, <2>3 DEF Good
  <1>6. CASE r.op = "scenario"
    <2>1. p \in Scenario(r.item, now)
      BY <1>6 DEF PostsOf, Posts
    <2>2. \/ p \in Plain("email", Sound) \/ p = Post("invoice", FailingAt(1), 2, 0)
          \/ p = Post("report", ToOutside, 0, now + Delay)
          \/ p = Post("image", Blank, 2, 0) \/ p \in Plain("sleep", Sound)
      BY <2>1 DEF Scenario
    <2>3. now + Delay \in Nat
      BY <1>0
    <2> QED
      BY <1>0, <1>1, <1>2, <2>2, <2>3 DEF Good
  <1>7. CASE r.op = "enqueue"
    <2>1. p \in Plain(r.item, NotAStruct)
      BY <1>7 DEF PostsOf, Posts, Command
    <2> QED
      BY <1>0, <1>2, <2>1 DEF Good
  <1>8. CASE r.op = "api"
    <2>1. p \in Plain(r.item, Sound)
      BY <1>8 DEF PostsOf
    <2> QED
      BY <1>0, <1>2, <2>1 DEF Good
  <1> QED
    BY <1>0, <1>3, <1>4, <1>5, <1>6, <1>7, <1>8 DEF UserOps

----------------------------------------------------------------------------
(***************************************************************************)
(* The types.  A user who is idle has not asked yet, so that no one asks   *)
(* more often than MaxTries.                                               *)
(***************************************************************************)
FrontInv == FrontTypeOK /\ \A u \in Users : user[u].pc = "idle" => user[u].tries = 0

TypeInv == BackInv /\ FrontInv /\ FakeTypeOK /\ IngestTypeOK

UserRecord == [pc : UserPCs, request : Requests, tries : 0 .. MaxTries, code : AnswerCodes]

\* A user who asks has asked once more.
LEMMA AsksType ==
    ASSUME FrontInv, NEW u \in Users, NEW r \in Requests, MayAsk(u, r),
           NEW pc \in UserPCs \ {"idle"}, NEW code \in AnswerCodes, Asks(u, r, pc, code)
    PROVE  FrontInv'
  <1>1. user[u] \in UserRecord /\ MaxTries \in Nat \ {0}
    BY FrontAssumption DEF FrontInv, FrontTypeOK, UserRecord
  <1>2. user[u].tries + 1 \in 0 .. MaxTries
    BY <1>1 DEF FrontInv, MayAsk, UserAt, UserRecord
  <1> DEFINE new == [pc |-> pc, request |-> r, tries |-> user[u].tries + 1, code |-> code]
  <1>3. new \in UserRecord /\ new.pc # "idle"
    BY <1>2 DEF UserRecord
  <1>4. user' = [user EXCEPT ![u] = new]
    BY DEF Asks
  <1> HIDE DEF new
  <1> QED
    BY <1>3, <1>4 DEF FrontInv, FrontTypeOK, UserRecord

\* So has one who gets an answer.
LEMMA ToldType ==
    ASSUME FrontInv, NEW u \in Users, NEW pc \in UserPCs \ {"idle"}, NEW code \in AnswerCodes,
           user' = [user EXCEPT ![u].pc = pc, ![u].code = code]
    PROVE  FrontInv'
  <1>1. user[u] \in UserRecord
    BY DEF FrontInv, FrontTypeOK, UserRecord
  <1> DEFINE new == [user[u] EXCEPT !.pc = pc, !.code = code]
  <1>2. new \in UserRecord /\ new.pc # "idle"
    BY <1>1 DEF UserRecord
  <1>3. user' = [user EXCEPT ![u] = new]
    OBVIOUS
  <1> HIDE DEF new
  <1> QED
    BY <1>2, <1>3 DEF FrontInv, FrontTypeOK, UserRecord

\* The codes of a submit, whatever the backend's error says.
LEMMA SubmitCodes ==
    ASSUME NEW o \in {"ok", "storeError", "brokerError"}
    PROVE  Codes("submit", o) = IF o = "ok" THEN {201} ELSE {500, 503}
  <1>1. CASE o = "ok"
    BY <1>1 DEF Codes
  <1>2. CASE o # "ok"
    <2>1. Phrases[o] = {{}, {"does not exist"}}
      <3>1. CASE o = "storeError"
        BY <3>1 DEF Phrases
      <3>2. CASE o = "brokerError"
        BY <3>2 DEF Phrases
      <3> QED
        BY <1>2, <3>1, <3>2
    <2>2. ErrorCode({}) = 500
      <3>1. /\ {} \cap {"not found", "job_id required"} = {}
            /\ {} \cap {"cannot cancel", "already running"} = {}
        OBVIOUS
      <3> QED
        BY <3>1 DEF ErrorCode
    <2>3. ErrorCode({"does not exist"}) = 503
      <3>1. /\ {"does not exist"} \cap {"not found", "job_id required"} = {}
            /\ {"does not exist"} \cap {"cannot cancel", "already running"} = {}
        OBVIOUS
      <3> QED
        BY <3>1 DEF ErrorCode
    <2>4. Codes("submit", o) = {ErrorCode(said) : said \in {{}, {"does not exist"}}}
      BY <1>2, <2>1 DEF Codes
    <2> DEFINE none == ErrorCode({})
    <2> DEFINE one == ErrorCode({"does not exist"})
    <2>5. Codes("submit", o) = {none, one}
      BY <2>4, Zenon
    <2>6. none = 500 /\ one = 503
      BY <2>2, <2>3, Zenon
    <2> HIDE DEF none, one
    <2> QED
      BY <1>2, <2>5, <2>6
  <1> QED
    BY <1>1, <1>2

\* What a user is told is one of the codes, and a success only after a success.
LEMMA ToldCodes ==
    ASSUME NEW op, NEW code \in AnswerCodes, NEW delivery \in {"whole", "lost", "cut"}
    PROVE  /\ Told(op, code, delivery) \in AnswerCodes
           /\ Told(op, code, delivery) < 400 => code < 400
  BY DEF Told, Successes, AnswerCodes

LEMMA FrontStepTypes ==
    ASSUME TypeInv, NEW u \in Users, FrontStep(u)
    PROVE  BackInv' /\ FrontInv'
  <1>0. u \in Callers /\ now \in Nat /\ 0 \in AnswerCodes /\ "open" \in UserPCs \ {"idle"}
    BY FrontAssumption, ClockAssumption
    DEF TypeInv, BackInv, BackTypes, ClockTypeOK, AnswerCodes, UserPCs
  <1>1. ASSUME Untouched, UNCHANGED faults \/ \E kind \in FaultKinds : Fault(kind)
        PROVE  BackInv'
    <2>1. paused' \in SUBSET Queues /\ UNCHANGED <<jobs, outbox, topic, now, apiVars>>
      BY <1>1 DEF Untouched, TypeInv, BackInv, BackTypes, StoreTypeOK, storeVars
    <2> QED
      BY <1>1, <2>1, BesideBackend DEF TypeInv
  <1>2. ASSUME NEW r \in Requests, RefusedByProgram(u, r)
        PROVE  BackInv' /\ FrontInv'
    <2>1. "told" \in UserPCs \ {"idle"} /\ 400 \in AnswerCodes
      BY DEF UserPCs, AnswerCodes
    <2> QED
      BY <1>1, <1>2, <2>1, AsksType DEF RefusedByProgram, TypeInv
  <1>3. ASSUME NEW r \in Requests, ApiOutOfReach(u, r)
        PROVE  BackInv' /\ FrontInv'
    <2>1. "told" \in UserPCs \ {"idle"} /\ 500 \in AnswerCodes
      BY DEF UserPCs, AnswerCodes
    <2>2. \E kind \in FaultKinds : Fault(kind)
      BY <1>3 DEF ApiOutOfReach, Fault
    <2> QED
      BY <1>1, <1>3, <2>1, <2>2, AsksType DEF ApiOutOfReach, TypeInv
  <1>4. ASSUME NEW r \in Requests, RefusedByApi(u, r)
        PROVE  BackInv' /\ FrontInv'
    <2>1. "answered" \in UserPCs \ {"idle"} /\ {400, 429} \subseteq AnswerCodes
      BY DEF UserPCs, AnswerCodes
    <2>2. MayAsk(u, r) /\ Untouched /\ UNCHANGED faults
      BY <1>4 DEF RefusedByApi
    <2>3. Asks(u, r, "answered", 400) \/ Asks(u, r, "answered", 429)
      BY <1>4, Zenon DEF RefusedByApi
    <2>4. 400 \in AnswerCodes /\ 429 \in AnswerCodes
      BY <2>1
    <2>5. BackInv'
      BY <1>1, <2>2
    <2>6. FrontInv'
      BY <2>1, <2>2, <2>3, <2>4, AsksType DEF TypeInv
    <2> QED
      BY <2>5, <2>6
  <1>5. ASSUME NEW r \in Requests, AcceptedByApi(u, r)
        PROVE  BackInv' /\ FrontInv'
    <2>1. PICK p \in PostsOf(r), q \in Queues :
             /\ p.type \in Types
             /\ Submit(u, [type |-> p.type, payload |-> p.payload, queue |-> q],
                       p.maxRetry, p.runAt, r.key)
      BY <1>5 DEF AcceptedByApi
    <2> DEFINE w == [type |-> p.type, payload |-> p.payload, queue |-> q]
    <2>2. p.payload \in Payloads /\ p.maxRetry \in Nat /\ p.runAt \in Nat
      BY <1>0, PostsType
    <2>3. w \in Work
      BY <2>1, <2>2 DEF Work
    <2>4. r.key \in Keys \cup {NoKey}
      BY FrontAssumption
    <2>5. Submit(u, w, p.maxRetry, p.runAt, r.key)
      BY <2>1
    <2> HIDE DEF w
    <2>6. BackInv'
      BY <1>0, <2>2, <2>3, <2>4, <2>5, SubmitTypes, SubmitKeys DEF TypeInv, BackInv
    <2> QED
      BY <1>0, <1>5, <2>6, AsksType DEF AcceptedByApi, TypeInv
  <1>6. CASE ApiWorks(u)
    <2>1. BackInv'
      BY <1>0, <1>6, BackendGoesOn DEF ApiWorks, TypeInv
    <2>2. CASE call'[u].pc # "idle"
      BY <1>6, <2>1, <2>2 DEF ApiWorks, TypeInv, FrontInv, FrontTypeOK
    <2>3. CASE call'[u].pc = "idle"
      <3>1. outcome'[u] \in {"ok", "storeError", "brokerError"}
        BY <1>0, <1>6, <2>3, OwnCall DEF ApiWorks, TypeInv, BackInv
      <3>2. PICK code \in Codes("submit", outcome'[u]) :
               user' = [user EXCEPT ![u].pc = "answered", ![u].code = code]
        BY <1>6, <2>3 DEF ApiWorks
      <3>3. code \in AnswerCodes /\ "answered" \in UserPCs \ {"idle"}
        BY <3>1, SubmitCodes DEF AnswerCodes, UserPCs
      <3> QED
        BY <2>1, <3>2, <3>3, ToldType DEF TypeInv
    <2> QED
      BY <2>2, <2>3
  <1>7. CASE AnswerArrives(u)
    <2>1. PICK delivery \in {"whole", "lost", "cut"} :
             /\ UNCHANGED faults \/ Fault("connection")
             /\ user' = [user EXCEPT ![u].pc = "told",
                             ![u].code = Told(user[u].request.op, user[u].code, delivery)]
      BY <1>7 DEF AnswerArrives
    <2>2. user[u].code \in AnswerCodes /\ "told" \in UserPCs \ {"idle"}
      BY DEF TypeInv, FrontInv, FrontTypeOK, UserPCs
    <2>3. Told(user[u].request.op, user[u].code, delivery) \in AnswerCodes
      BY <2>2, ToldCodes
    <2>4. UNCHANGED faults \/ \E kind \in FaultKinds : Fault(kind)
      BY <2>1 DEF Fault
    <2> QED
      BY <1>1, <1>7, <2>1, <2>2, <2>3, <2>4, ToldType DEF AnswerArrives, TypeInv
  <1> QED
    BY <1>2, <1>3, <1>4, <1>5, <1>6, <1>7 DEF FrontStep

\* A row without a key, written by somebody else, leaves the backend as it is.
LEMMA NewRow ==
    ASSUME BackInv, NEW j \in Jobs, Fresh(j), NEW w \in Work,
           jobs' \in {jobs, Inserted(j, w, "pending", 0, NoKey)},
           UNCHANGED faults \/ \E kind \in FaultKinds : Fault(kind),
           UNCHANGED <<paused, outbox, topic, now, apiVars>>
    PROVE  BackInv'
  <1>1. RowsType /\ "pending" \in Statuses /\ 0 \in Nat /\ NoKey \in Keys \cup {NoKey}
    BY DEF BackInv, BackTypes, StoreTypeOK, RowsType, Statuses
  <1>2. jobs' \in [Jobs -> JobRecord \cup {NoRow}]
    BY <1>1, InsertedType DEF RowsType
  <1>3. faults' \in 0 .. MaxFaults
    BY FaultsType DEF BackInv, BackTypes, StoreTypeOK
  <1>4. BackTypes'
    BY <1>2, <1>3 DEF BackInv, BackTypes, StoreTypeOK, QueueTypeOK, ClockTypeOK,
                      BackendTypeOK, CallJobs, apiVars
  <1>5. KeyInv'
    <2>1. submitted' = submitted /\ call' = call
      BY DEF apiVars
    <2>2. jobs[j] = NoRow /\ \A c \in Callers : call[c].job # j
      BY DEF Fresh
    <2>3. CASE jobs' = jobs
      BY <2>1, <2>3, QuietKeys DEF KeepsRows, BackInv
    <2>4. CASE jobs' = Inserted(j, w, "pending", 0, NoKey)
      BY <1>1, <2>1, <2>2, <2>4, InsertKeys DEF BackInv
    <2> QED
      BY <2>3, <2>4
  <1> QED
    BY <1>4, <1>5 DEF BackInv

\* So does a message.
LEMMA NewMessage ==
    ASSUME BackInv, NEW m \in JobRequest, EnqueueOk(m) \/ EnqueueError(m),
           UNCHANGED <<storeVars, now, apiVars>>
    PROVE  BackInv'
  <1>1. UNCHANGED faults \/ \E kind \in FaultKinds : Fault(kind)
    BY DEF EnqueueOk, EnqueueError, Fault
  <1>2. QueueTypeOK' /\ faults' \in 0 .. MaxFaults
    BY <1>1, SentType, FaultsType DEF BackInv, BackTypes, StoreTypeOK
  <1>3. BackTypes'
    BY <1>2 DEF BackInv, BackTypes, StoreTypeOK, ClockTypeOK, BackendTypeOK, CallJobs,
                apiVars, storeVars
  <1>4. KeepsRows /\ submitted' = submitted /\ call' = call
    BY DEF KeepsRows, apiVars, storeVars
  <1> QED
    BY <1>3, <1>4, QuietKeys DEF BackInv

LEMMA SchedulerTypes ==
    ASSUME TypeInv, SchedulerStep
    PROVE  BackInv' /\ FakeTypeOK'
  <1>0. /\ FakeTypes \in Seq(Types) /\ MaxRounds \in Nat /\ NoFake \notin Jobs
        /\ FakeTypes # << >>
    BY FakeAssumption
  <1>1. UNCHANGED <<now, apiVars>>
    BY DEF SchedulerStep
  <1>2. todo # << >> => Head(todo) \in Types /\ Tail(todo) \in Seq(Types)
    BY HeadTailProperties DEF TypeInv, FakeTypeOK
  <1>3. todo # << >> => FakeWork \in Work
    BY <1>2, FakeAssumption DEF FakeWork, Work
  <1>4. ASSUME UNCHANGED <<storeVars, topic>>,
               UNCHANGED faults \/ \E kind \in FaultKinds : Fault(kind)
        PROVE  BackInv'
    <2>1. paused' \in SUBSET Queues /\ UNCHANGED <<jobs, outbox, topic, now, apiVars>>
      BY <1>1, <1>4 DEF TypeInv, BackInv, BackTypes, StoreTypeOK, storeVars
    <2> QED
      BY <1>4, <2>1, BesideBackend DEF TypeInv
  <1>5. CASE RunRound
    <2>1. FakeTypeOK'
      BY <1>0, <1>5 DEF RunRound, TypeInv, FakeTypeOK
    <2> QED
      BY <1>4, <1>5, <2>1 DEF RunRound
  <1>6. CASE FakeEnqueue
    <2> DEFINE m == Request(fakeJob, FakeWork, 0, FakeRetries)
    <2>1. fakeJob \in Jobs /\ todo # << >>
      BY <1>6 DEF FakeEnqueue, TypeInv, FakeTypeOK
    <2>2. m \in JobRequest
      BY <1>3, <2>1 DEF Request, JobRequest, FakeRetries
    <2>3. FakeTypeOK'
      BY <1>2, <1>6, <2>1 DEF FakeEnqueue, NextType, TypeInv, FakeTypeOK
    <2>4. (EnqueueOk(m) \/ EnqueueError(m)) /\ UNCHANGED <<storeVars, now, apiVars>>
      BY <1>1, <1>6 DEF FakeEnqueue
    <2> HIDE DEF m
    <2> QED
      BY <2>2, <2>3, <2>4, NewMessage DEF TypeInv
  <1>7. CASE SchedulerCrash
    <2>1. FakeTypeOK'
      BY <1>7 DEF SchedulerCrash, TypeInv, FakeTypeOK
    <2>2. \E kind \in FaultKinds : Fault(kind)
      BY <1>7 DEF SchedulerCrash, Fault
    <2> QED
      BY <1>4, <1>7, <2>1, <2>2 DEF SchedulerCrash
  <1>8. ASSUME NEW j \in Jobs, Fresh(j), FakeCreate(j)
        PROVE  BackInv' /\ FakeTypeOK'
    <2>1. todo # << >> /\ UNCHANGED <<paused, outbox, topic, rounds>>
      BY <1>8 DEF FakeCreate
    <2>2. \/ jobs' = Inserted(j, FakeWork, "pending", 0, NoKey) /\ fakeJob' = j
              /\ UNCHANGED <<faults, todo>>
          \/ Fault("store") /\ jobs' \in {jobs, Inserted(j, FakeWork, "pending", 0, NoKey)}
              /\ NextType
      BY <1>8 DEF FakeCreate
    <2>3. jobs' \in {jobs, Inserted(j, FakeWork, "pending", 0, NoKey)}
      BY <2>2
    <2>4. UNCHANGED faults \/ \E kind \in FaultKinds : Fault(kind)
      BY <2>2 DEF Fault
    <2>5. BackInv'
      BY <1>1, <1>3, <1>8, <2>1, <2>3, <2>4, NewRow DEF TypeInv
    <2>6. FakeTypeOK'
      BY <1>2, <2>1, <2>2 DEF NextType, TypeInv, FakeTypeOK
    <2> QED
      BY <2>5, <2>6
  <1> QED
    BY <1>5, <1>6, <1>7, <1>8 DEF SchedulerStep

LEMMA IngestTypes ==
    ASSUME TypeInv, IngestStep
    PROVE  BackInv' /\ IngestTypeOK'
  <1>0. Len(Inbox) \in Nat /\ Ingester \in Callers
    BY IngestAssumption, IntakeAssumption, LenProperties
  <1>1. ASSUME IngestAlone, UNCHANGED faults \/ \E kind \in FaultKinds : Fault(kind)
        PROVE  BackInv'
    <2>1. paused' \in SUBSET Queues /\ UNCHANGED <<jobs, outbox, topic, now, apiVars>>
      BY <1>1 DEF IngestAlone, TypeInv, BackInv, BackTypes, StoreTypeOK, storeVars
    <2> QED
      BY <1>1, <2>1, BesideBackend DEF TypeInv
  <1>2. CASE IngestAlone /\ UNCHANGED faults /\ IngestDrop
    <2>1. IngestTypeOK'
      BY <1>0, <1>2 DEF IngestDrop, ReadNext, TypeInv, IngestTypeOK
    <2> QED
      BY <1>1, <1>2, <2>1
  <1>3. CASE IngestAlone /\ Fault("commit") /\ IngestSkip
    <2>1. IngestTypeOK'
      BY <1>0, <1>3 DEF IngestSkip, ReadNext, TypeInv, IngestTypeOK
    <2>2. \E kind \in FaultKinds : Fault(kind)
      BY <1>3 DEF Fault
    <2> QED
      BY <1>1, <1>3, <2>1, <2>2
  <1>4. CASE IngestAlone /\ Fault("rebalance") /\ IngestRebalance
    <2>1. IngestTypeOK'
      BY <1>4 DEF IngestRebalance, TypeInv, IngestTypeOK
    <2>2. \E kind \in FaultKinds : Fault(kind)
      BY <1>4 DEF Fault
    <2> QED
      BY <1>1, <1>4, <2>1, <2>2
  <1>5. CASE BeginSubmit
    <2>1. IngestTypeOK'
      BY <1>0, <1>5 DEF BeginSubmit, IngestSubmit, ReadNext, TypeInv, IngestTypeOK
    <2>2. PICK w \in Offered : Submit(Ingester, w, 0, 0, NoKey)
      BY <1>5 DEF BeginSubmit
    <2>3. w \in Work /\ 0 \in Nat /\ NoKey \in Keys \cup {NoKey}
      BY ClientAssumption
    <2>4. BackInv'
      BY <1>0, <2>2, <2>3, SubmitTypes, SubmitKeys DEF TypeInv, BackInv
    <2> QED
      BY <2>1, <2>4
  <1>6. CASE SubmitGoesOn
    <2>1. BackInv'
      BY <1>0, <1>6, BackendGoesOn DEF SubmitGoesOn, TypeInv
    <2>2. IngestTypeOK'
      BY <1>0, <1>6 DEF SubmitGoesOn, IngestReturn, TypeInv, IngestTypeOK, ingestVars
    <2> QED
      BY <2>1, <2>2
  <1> QED
    BY <1>2, <1>3, <1>4, <1>5, <1>6 DEF IngestStep

\* What becomes of a user whose request the end of the API process cuts off.
CutOff(x, pc, code) == [x EXCEPT !.pc = pc, !.code = code]

LEMMA CutOffType ==
    ASSUME NEW x \in UserRecord, NEW pc \in UserPCs, NEW code \in AnswerCodes
    PROVE  CutOff(x, pc, code) \in UserRecord /\ CutOff(x, pc, code).pc = pc
  BY DEF CutOff, UserRecord

LEMMA RestartTypes ==
    ASSUME TypeInv, ApiRestart
    PROVE  TypeInv'
  <1>1. BackInv'
    BY ApiCrashTypes, ApiCrashKeys DEF ApiRestart, TypeInv, BackInv
  <1>2. FrontInv'
    <2>1. ASSUME NEW u \in Users
          PROVE  /\ user'[u] \in UserRecord
                 /\ user'[u].pc = "idle" => user'[u] = user[u]
      <3>1. user[u] \in UserRecord
        BY DEF TypeInv, FrontInv, FrontTypeOK, UserRecord
      <3>2. user'[u] = IF user[u].pc = "open" THEN CutOff(user[u], "told", 500) ELSE user[u]
        BY DEF ApiRestart, UsersCutOff, CutOff
      <3>3. "told" \in UserPCs /\ 500 \in AnswerCodes
        BY DEF UserPCs, AnswerCodes
      <3>4. /\ CutOff(user[u], "told", 500) \in UserRecord
            /\ CutOff(user[u], "told", 500).pc = "told"
        BY <3>1, <3>3, CutOffType
      <3> QED
        BY <3>1, <3>2, <3>4
    <2>2. user' = [u \in Users |-> user'[u]]
      <3> DEFINE told(u) ==
            IF user[u].pc = "open" THEN [user[u] EXCEPT !.pc = "told", !.code = 500] ELSE user[u]
      <3>1. user' = [u \in Users |-> told(u)]
        BY DEF ApiRestart, UsersCutOff
      <3> HIDE DEF told
      <3> QED
        BY <3>1
    <2>3. user' \in [Users -> UserRecord]
      BY <2>1, <2>2
    <2>4. \A u \in Users : user'[u].pc = "idle" => user'[u] = user[u]
      BY <2>1
    <2> QED
      BY <2>3, <2>4 DEF TypeInv, FrontInv, FrontTypeOK, UserRecord
  <1>3. FakeTypeOK'
    BY DEF ApiRestart, TypeInv, FakeTypeOK, fakeVars
  <1>4. IngestTypeOK'
    <2>1. Len(Inbox) \in Nat
      BY IngestAssumption, LenProperties
    <2> QED
      BY <2>1 DEF ApiRestart, IngestRestart, TypeInv, IngestTypeOK
  <1> QED
    BY <1>1, <1>2, <1>3, <1>4 DEF TypeInv

LEMMA TypesInit == IntakeInit => TypeInv
  <1> SUFFICES ASSUME IntakeInit PROVE TypeInv
    OBVIOUS
  <1>1. BackInv
    BY BackInitTypes, BackInitKeys DEF IntakeInit, BackInv
  <1>2. FrontInv
    <2>1. (CHOOSE r \in Requests : TRUE) \in Requests /\ 0 \in 0 .. MaxTries
      BY FrontAssumption
    <2> QED
      BY <2>1 DEF IntakeInit, FrontInit, NoAsk, FrontInv, FrontTypeOK, UserPCs, AnswerCodes
  <1>3. FakeTypeOK
    BY FakeAssumption DEF IntakeInit, FakeInit, FakeTypeOK
  <1>4. IngestTypeOK
    BY IngestAssumption, LenProperties DEF IntakeInit, IngestInit, IngestTypeOK
  <1> QED
    BY <1>1, <1>2, <1>3, <1>4 DEF TypeInv

LEMMA TypesStep == TypeInv /\ [IntakeNext]_intakeVars => TypeInv'
  <1> SUFFICES ASSUME TypeInv, [IntakeNext]_intakeVars PROVE TypeInv'
    OBVIOUS
  <1>1. ASSUME UNCHANGED fakeVars PROVE FakeTypeOK'
    BY <1>1 DEF TypeInv, FakeTypeOK, fakeVars
  <1>2. ASSUME UNCHANGED ingestVars PROVE IngestTypeOK'
    BY <1>2 DEF TypeInv, IngestTypeOK, ingestVars
  <1>3. ASSUME UNCHANGED user PROVE FrontInv'
    BY <1>3 DEF TypeInv, FrontInv, FrontTypeOK
  <1>4. CASE UserStep
    BY <1>1, <1>2, <1>4, FrontStepTypes DEF UserStep, TypeInv
  <1>5. CASE IngestStep
    BY <1>1, <1>3, <1>5, IngestTypes DEF IngestStep, TypeInv
  <1>6. CASE SchedulerStep
    BY <1>2, <1>3, <1>6, SchedulerTypes DEF SchedulerStep, TypeInv
  <1>7. CASE ApiRestart
    BY <1>7, RestartTypes
  <1>8. CASE UNCHANGED intakeVars
    <2>1. /\ UNCHANGED <<storeVars, faults, topic, now, apiVars>>
          /\ UNCHANGED <<user, fakeVars, ingestVars>>
      BY <1>8 DEF intakeVars, frontVars
    <2>2. paused' \in SUBSET Queues
      BY <2>1 DEF TypeInv, BackInv, BackTypes, StoreTypeOK, storeVars
    <2>3. BackInv'
      BY <2>1, <2>2, BesideBackend DEF TypeInv, storeVars
    <2> QED
      BY <1>1, <1>2, <1>3, <2>1, <2>3 DEF TypeInv
  <1> QED
    BY <1>4, <1>5, <1>6, <1>7, <1>8 DEF IntakeNext

LEMMA TypesAlways == IntakeSpec => []TypeInv
  BY TypesInit, TypesStep, PTL DEF IntakeSpec

\* Whatever the programs, the ingest consumer and the scheduler do side by side,
\* all variables keep their types: the posts of every program are work for the
\* backend, and every answer has one of the codes.
THEOREM IntakeTypes == IntakeSpec => []IntakeTypeOK
  <1>1. TypeInv => IntakeTypeOK
    BY DEF TypeInv, BackInv, BackTypes, FrontInv, IntakeTypeOK
  <1> QED
    BY <1>1, TypesAlways, PTL

\* A key names one job for all programs and users together.
THEOREM KeysNameOneJobForAll == IntakeSpec => []SameKeySameJob
  <1>1. TypeInv => SameKeySameJob
    BY SameJob DEF TypeInv, BackInv
  <1> QED
    BY <1>1, TypesAlways, PTL

----------------------------------------------------------------------------
(***************************************************************************)
(* Requests only submit here, so that rows and messages stay what they are *)
(* once they are there.                                                    *)
(***************************************************************************)
SubmitsOnly == \A c \in Callers : call[c].pc \in {"idle", "lookup", "create", "enqueue"}

Grows ==
    /\ \A j \in Jobs : jobs[j] # NoRow => jobs'[j] = jobs[j] /\ maker'[j] = maker[j]
    /\ \A i \in DOMAIN topic : i \in DOMAIN topic' /\ topic'[i] = topic[i]

TopicGrows == \A i \in DOMAIN topic : i \in DOMAIN topic' /\ topic'[i] = topic[i]

\* Whatever Enqueue returns, the topic keeps what was in it; when it returns
\* nil, the message is in it.
LEMMA SentGrows ==
    ASSUME QueueTypeOK, NEW m \in JobRequest, EnqueueOk(m) \/ EnqueueError(m)
    PROVE  /\ TopicGrows
           /\ EnqueueOk(m) => \E i \in DOMAIN topic' : topic'[i] = m
  <1> DEFINE n == Len(topic)
  <1>0. n \in Nat /\ DOMAIN topic = 1 .. n
    BY LenProperties DEF QueueTypeOK
  <1>1. ASSUME topic' = Append(topic, m)
        PROVE  TopicGrows /\ \E i \in DOMAIN topic' : topic'[i] = m
    <2>1. /\ DOMAIN topic' = 1 .. n + 1
          /\ \A i \in 1 .. n : topic'[i] = topic[i]
          /\ topic'[n + 1] = m
      BY <1>1, AppendProperties DEF QueueTypeOK
    <2>2. n + 1 \in 1 .. n + 1 /\ 1 .. n \subseteq 1 .. n + 1
      BY <1>0
    <2> HIDE DEF n
    <2> QED
      BY <1>0, <2>1, <2>2 DEF TopicGrows
  <1>2. ASSUME topic' = topic \o <<m, m>>
        PROVE  TopicGrows /\ \E i \in DOMAIN topic' : topic'[i] = m
    <2>1. <<m, m>> \in Seq(JobRequest) /\ Len(<<m, m>>) = 2 /\ <<m, m>>[1] = m
      OBVIOUS
    <2>2. Len(topic') = n + 2 /\ topic' \in Seq(JobRequest)
      BY <1>2, <2>1, ConcatProperties DEF QueueTypeOK
    <2>3. DOMAIN topic' = 1 .. n + 2
      BY <2>2, LenProperties
    <2>4. \A i \in 1 .. n + 2 : topic'[i] = IF i <= n THEN topic[i] ELSE <<m, m>>[i - n]
      BY <1>2, <2>1, ConcatProperties DEF QueueTypeOK
    <2>5. topic'[n + 1] = m /\ n + 1 \in 1 .. n + 2
      <3>1. n + 1 \in 1 .. n + 2 /\ ~(n + 1 <= n) /\ (n + 1) - n = 1
        BY <1>0
      <3> QED
        BY <2>1, <2>4, <3>1
    <2>6. \A i \in 1 .. n : i \in 1 .. n + 2 /\ topic'[i] = topic[i]
      BY <1>0, <2>4
    <2> HIDE DEF n
    <2> QED
      BY <1>0, <2>3, <2>5, <2>6 DEF TopicGrows
  <1>3. CASE topic' = topic
    BY <1>3, <1>1, <1>2 DEF TopicGrows, EnqueueOk
  <1> QED
    BY <1>1, <1>2, <1>3 DEF EnqueueOk, EnqueueError

\* Create adds one row at most, the one its request is then about to enqueue.
LEMMA Created ==
    ASSUME BackTypes, NEW c \in Callers, Create(c)
    PROVE  \E j \in Jobs :
              /\ jobs[j] = NoRow
              /\ \A k \in Jobs : k # j => jobs'[k] = jobs[k]
              /\ \/ call'[c].pc = "idle" /\ outcome'[c] = "storeError"
                 \/ /\ call'[c] = [call[c] EXCEPT !.pc = "enqueue", !.job = j]
                    /\ jobs'[j] # NoRow /\ jobs'[j].status = FirstStatus(call[c].runAt)
  <1> DEFINE r == call[c]
             s == FirstStatus(r.runAt)
  <1>1. /\ r \in CallRecord /\ r.work \in Work /\ r.runAt \in Nat
        /\ r.key \in Keys \cup {NoKey} /\ s \in Statuses
    BY DEF BackTypes, BackendTypeOK, CallRecord, FirstStatus, Statuses
  <1>2. PICK j \in Jobs :
          /\ Fresh(j)
          /\ \/ /\ jobs' = Inserted(j, r.work, s, r.runAt, r.key)
                /\ call' = [call EXCEPT ![c].pc = "enqueue", ![c].job = j]
             \/ Return(c, "storeError")
          /\ jobs' \in {jobs, Inserted(j, r.work, s, r.runAt, r.key)}
    BY DEF Create
  <1> DEFINE row == [work |-> r.work, status |-> s, attempt |-> 0, runAt |-> r.runAt,
                     key |-> r.key]
  <1>3. row \in JobRecord /\ row.status = s
    BY <1>1 DEF JobRecord
  <1>4. row # NoRow
    BY <1>3, StoreAssumption
  <1>5. \A k \in Jobs :
           Inserted(j, r.work, s, r.runAt, r.key)[k] = IF k = j THEN row ELSE jobs[k]
    BY DEF Inserted, BackTypes, StoreTypeOK
  <1> HIDE DEF row
  <1>6. jobs[j] = NoRow /\ \A k \in Jobs : k # j => jobs'[k] = jobs[k]
    BY <1>2, <1>5 DEF Fresh
  <1>7. CASE Return(c, "storeError")
    <2>1. call'[c].pc = "idle" /\ outcome'[c] = "storeError"
      BY <1>7 DEF Return, NoCall, BackTypes, BackendTypeOK
    <2> QED
      BY <1>6, <2>1
  <1>8. CASE /\ jobs' = Inserted(j, r.work, s, r.runAt, r.key)
             /\ call' = [call EXCEPT ![c].pc = "enqueue", ![c].job = j]
    <2>1. call'[c] = [call[c] EXCEPT !.pc = "enqueue", !.job = j]
      BY <1>8 DEF BackTypes, BackendTypeOK
    <2>2. jobs'[j] # NoRow /\ jobs'[j].status = FirstStatus(call[c].runAt)
      BY <1>3, <1>4, <1>5, <1>8
    <2> QED
      BY <1>6, <2>1, <2>2
  <1> QED
    BY <1>2, <1>7, <1>8

\* Enqueue ends the request; when it succeeds the job was due later, or its
\* message is in the topic.
LEMMA Enqueued ==
    ASSUME BackTypes, NEW c \in Callers, Enqueue(c)
    PROVE  /\ UNCHANGED jobs /\ TopicGrows
           /\ call'[c].pc = "idle"
           /\ outcome'[c] = "ok" =>
                 \/ call[c].runAt > now
                 \/ \E i \in DOMAIN topic' : topic'[i].job = call[c].job
  <1> DEFINE r == call[c]
             m == Request(r.job, r.work, 0, r.maxRetry)
  <1>1. r \in CallRecord /\ r.job \in Jobs
    BY DEF BackTypes, BackendTypeOK, CallJobs, Enqueue, CallAt
  <1>2. m \in JobRequest /\ m.job = r.job
    BY <1>1 DEF CallRecord, Request, JobRequest
  <1>3. UNCHANGED jobs
    BY DEF Enqueue, storeVars
  <1>4. /\ call'[c].pc = "idle"
        /\ \/ r.runAt > now /\ UNCHANGED topic
           \/ EnqueueOk(m)
           \/ EnqueueError(m) /\ outcome'[c] = "brokerError"
    BY DEF Enqueue, Reply, Return, NoCall, BackTypes, BackendTypeOK
  <1>5. CASE UNCHANGED topic /\ r.runAt > now
    BY <1>3, <1>4, <1>5 DEF TopicGrows
  <1>6. CASE EnqueueOk(m)
    <2> HIDE DEF m
    <2>1. TopicGrows /\ \E i \in DOMAIN topic' : topic'[i] = m
      BY <1>2, <1>6, SentGrows DEF BackTypes
    <2> QED
      BY <1>2, <1>3, <1>4, <2>1
  <1>7. CASE EnqueueError(m) /\ outcome'[c] = "brokerError"
    <2> HIDE DEF m
    <2>1. TopicGrows
      BY <1>2, <1>7, SentGrows DEF BackTypes
    <2> QED
      BY <1>3, <1>4, <1>7, <2>1
  <1> QED
    BY <1>4, <1>5, <1>6, <1>7

\* Lookup writes nothing, and goes on to Create or ends the request.
LEMMA LookedUp ==
    ASSUME BackTypes, NEW c \in Callers, Lookup(c)
    PROVE  /\ UNCHANGED <<jobs, topic>>
           /\ call[c].pc = "lookup"
           /\ call'[c].pc = "idle" \/ call'[c] = [call[c] EXCEPT !.pc = "create"]
  BY DEF Lookup, CallAt, CallGoto, Reply, Return, NoCall, storeVars, BackTypes, BackendTypeOK

\* The steps of a request that submits, and what they leave behind.
LEMMA SubmittingStep ==
    ASSUME BackTypes, SubmitsOnly, NEW c \in Callers, CallStep(c)
    PROVE  /\ Lookup(c) \/ Create(c) \/ Enqueue(c)
           /\ \A j \in Jobs : jobs[j] # NoRow => jobs'[j] = jobs[j]
           /\ TopicGrows
           /\ SubmitsOnly'
  <1>1. Lookup(c) \/ Create(c) \/ Enqueue(c)
    BY DEF CallStep, SubmitsOnly, CancelWrite, Requeue, Record, CallAt
  <1>2. call[c] \in CallRecord /\ \A d \in Callers : d # c => call'[d] = call[d]
    BY OwnCall DEF BackTypes, BackendTypeOK
  <1>3. CASE Lookup(c)
    <2>1. call'[c].pc \in {"idle", "create"}
      BY <1>2, <1>3, LookedUp DEF CallRecord
    <2> QED
      BY <1>1, <1>2, <1>3, <2>1, LookedUp DEF SubmitsOnly, TopicGrows
  <1>4. CASE Create(c)
    <2>1. call'[c].pc \in {"idle", "enqueue"}
      BY <1>2, <1>4, Created DEF CallRecord
    <2>2. \A j \in Jobs : jobs[j] # NoRow => jobs'[j] = jobs[j]
      BY <1>4, Created
    <2>3. UNCHANGED topic
      BY <1>4 DEF Create
    <2> QED
      BY <1>1, <1>2, <2>1, <2>2, <2>3 DEF SubmitsOnly, TopicGrows
  <1>5. CASE Enqueue(c)
    BY <1>1, <1>2, <1>5, Enqueued DEF SubmitsOnly
  <1> QED
    BY <1>1, <1>3, <1>4, <1>5

\* A step that makes no row, takes no message and begins no other request.
LEMMA QuietGrows ==
    ASSUME UNCHANGED <<jobs, topic, maker>>, SubmitsOnly,
           \A c \in Callers : call'[c] = call[c] \/ call'[c].pc \in {"idle", "lookup", "create"}
    PROVE  Grows /\ SubmitsOnly'
  BY DEF Grows, SubmitsOnly

\* Every step keeps the rows, whom they were made for, and the messages.
LEMMA StepGrows ==
    ASSUME TypeInv, SubmitsOnly, [IntakeNext]_intakeVars
    PROVE  Grows /\ SubmitsOnly'
  <1>0. jobs \in [Jobs -> JobRecord \cup {NoRow}] /\ BackTypes /\ call \in [Callers -> CallRecord]
    BY DEF TypeInv, BackInv, BackTypes, StoreTypeOK, BackendTypeOK
  <1>1. ASSUME NEW who, MadeFor(who)
        PROVE  \A j \in Jobs : jobs[j] # NoRow => maker'[j] = maker[j]
    BY <1>1 DEF MadeFor
  <1>2. ASSUME NEW c \in Callers, NEW who, CallStep(c), MadeFor(who)
        PROVE  Grows /\ SubmitsOnly'
    BY <1>0, <1>1, <1>2, SubmittingStep DEF Grows, TopicGrows
  <1>3. ASSUME NEW c \in Callers, NEW w, NEW n, NEW t, NEW k, Submit(c, w, n, t, k),
               UNCHANGED maker
        PROVE  Grows /\ SubmitsOnly'
    <2>1. /\ call'[c].pc \in {"lookup", "create"}
          /\ \A d \in Callers : d # c => call'[d] = call[d]
      BY <1>0, <1>3 DEF Submit
    <2> QED
      BY <1>3, <2>1, QuietGrows DEF Submit, storeVars
  <1>4. ASSUME UNCHANGED <<storeVars, topic, maker, apiVars>>
        PROVE  Grows /\ SubmitsOnly'
    BY <1>4, QuietGrows DEF storeVars, apiVars
  <1>5. CASE UserStep
    <2>1. PICK u \in Users : FrontStep(u)
      BY <1>5 DEF UserStep
    <2>2. u \in Callers
      BY FrontAssumption
    <2>3. CASE Untouched
      BY <2>3, <1>4 DEF Untouched
    <2>4. CASE ApiWorks(u)
      BY <2>2, <2>4, <1>2 DEF ApiWorks
    <2>5. ASSUME NEW r \in Requests, AcceptedByApi(u, r)
          PROVE  Grows /\ SubmitsOnly'
      <3>1. PICK w, n, t, k : Submit(u, w, n, t, k)
        BY <2>5 DEF AcceptedByApi
      <3> QED
        BY <2>2, <2>5, <3>1, <1>3 DEF AcceptedByApi
    <2> QED
      BY <2>1, <2>3, <2>4, <2>5
      DEF FrontStep, RefusedByProgram, ApiOutOfReach, RefusedByApi, AnswerArrives
  <1>6. CASE IngestStep
    <2>0. Ingester \in Callers
      BY IntakeAssumption
    <2>1. CASE IngestAlone
      BY <2>1, <1>4 DEF IngestAlone
    <2>2. CASE BeginSubmit
      BY <2>0, <2>2, <1>3 DEF BeginSubmit
    <2>3. CASE SubmitGoesOn
      BY <2>0, <2>3, <1>2 DEF SubmitGoesOn
    <2> QED
      BY <1>6, <2>1, <2>2, <2>3 DEF IngestStep
  <1>7. CASE SchedulerStep
    <2>1. UNCHANGED call /\ MadeFor(Scheduler)
      BY <1>7 DEF SchedulerStep, apiVars
    <2>2. SubmitsOnly'
      BY <2>1 DEF SubmitsOnly
    <2>3. CASE UNCHANGED <<storeVars, topic>>
      BY <2>1, <2>2, <2>3, <1>1 DEF Grows, storeVars
    <2>4. CASE FakeEnqueue
      <3> DEFINE m == Request(fakeJob, FakeWork, 0, FakeRetries)
      <3>1. m \in JobRequest
        <4>1. /\ todo # << >> /\ todo \in Seq(Types) /\ fakeJob \in Jobs
              /\ FakePayload \in Payloads /\ FakeQueue \in Queues
          BY <2>4, FakeAssumption DEF FakeEnqueue, TypeInv, FakeTypeOK
        <4>2. Head(todo) \in Types
          BY <4>1, HeadTailProperties
        <4> QED
          BY <4>1, <4>2 DEF Request, JobRequest, FakeWork, Work, FakeRetries
      <3>2. EnqueueOk(m) \/ EnqueueError(m)
        BY <2>4 DEF FakeEnqueue
      <3> HIDE DEF m
      <3>3. TopicGrows
        BY <1>0, <3>1, <3>2, SentGrows DEF BackTypes
      <3>4. UNCHANGED jobs
        BY <2>4 DEF FakeEnqueue, storeVars
      <3> QED
        BY <1>1, <2>1, <2>2, <3>3, <3>4 DEF Grows, TopicGrows
    <2>5. ASSUME NEW j \in Jobs, Fresh(j), FakeCreate(j)
          PROVE  Grows /\ SubmitsOnly'
      <3>1. /\ jobs[j] = NoRow /\ UNCHANGED topic
            /\ jobs' \in {jobs, Inserted(j, FakeWork, "pending", 0, NoKey)}
        BY <2>5 DEF Fresh, FakeCreate
      <3>2. \A k \in Jobs : jobs[k] # NoRow => jobs'[k] = jobs[k]
        BY <1>0, <3>1 DEF Inserted
      <3> QED
        BY <1>1, <2>1, <2>2, <3>1, <3>2 DEF Grows
    <2> QED
      BY <1>7, <2>3, <2>4, <2>5 DEF SchedulerStep, RunRound, SchedulerCrash
  <1>8. CASE ApiRestart
    <2>1. \A c \in Callers : call'[c].pc = "idle"
      BY <1>8 DEF ApiRestart, ApiCrash, NoCall
    <2> QED
      BY <1>8, <2>1, QuietGrows DEF ApiRestart, ApiCrash, storeVars
  <1>9. CASE UNCHANGED intakeVars
    BY <1>4, <1>9 DEF intakeVars, frontVars
  <1> QED
    BY <1>5, <1>6, <1>7, <1>8, <1>9 DEF IntakeNext

\* What is durable stays so, and whose it is.
LEMMA DurableStays ==
    ASSUME TypeInv, Grows, NEW who, \E j \in MadeBy(who) : Durable(j)
    PROVE  (\E j \in MadeBy(who) : Durable(j))'
  <1>1. PICK j \in Jobs : maker[j] = who /\ Durable(j)
    BY DEF MadeBy
  <1>2. jobs'[j] = jobs[j] /\ maker'[j] = maker[j]
    BY <1>1 DEF Grows, Durable
  <1>3. Sent(j) => Sent(j)'
    BY DEF Grows, Sent
  <1> QED
    BY <1>1, <1>2, <1>3 DEF MadeBy, Durable

----------------------------------------------------------------------------
(***************************************************************************)
(* The ingest consumer.  Messages past the committed offset have no job;   *)
(* the one in hand is committed, and has none until its request is about   *)
(* to enqueue it.                                                          *)
(***************************************************************************)
Committed ==
    /\ hand <= readCommit /\ readCommit <= read
    /\ \A n \in DOMAIN Inbox : n > readCommit => MadeBy(Message(n)) = {}

InHandOnce ==
    /\ hand = 0 => call[Ingester].pc = "idle"
    /\ hand # 0 => call[Ingester].pc \in {"create", "enqueue"}
    /\ hand # 0 /\ call[Ingester].pc = "create" => MadeBy(Message(hand)) = {}

OnceInv == IngestOnce /\ Committed /\ InHandOnce

\* A step of others makes no job of a message.
LEMMA OthersMake ==
    ASSUME OnceInv, NEW who, who[1] # "message", MadeFor(who) \/ UNCHANGED maker,
           call'[Ingester] = call[Ingester], UNCHANGED ingestVars
    PROVE  OnceInv'
  <1>1. \A n : MadeBy(Message(n))' \subseteq MadeBy(Message(n))
    BY DEF MadeFor, MadeBy, Message
  <1>2. UNCHANGED <<read, readCommit, hand>>
    BY DEF ingestVars
  <1>3. IngestOnce'
    BY <1>1 DEF OnceInv, IngestOnce
  <1>4. Committed'
    BY <1>1, <1>2 DEF OnceInv, Committed
  <1>5. InHandOnce'
    BY <1>1, <1>2 DEF OnceInv, InHandOnce
  <1> QED
    BY <1>3, <1>4, <1>5 DEF OnceInv

\* The consumer's own submit makes one job of the message in hand at most.
LEMMA OwnMake ==
    ASSUME TypeInv, SubmitsOnly, OnceInv, SubmitGoesOn
    PROVE  OnceInv'
  <1>0. Ingester \in Callers /\ BackTypes /\ call[Ingester] \in CallRecord
    BY IntakeAssumption DEF TypeInv, BackInv, BackTypes, BackendTypeOK
  <1>1. /\ CallStep(Ingester) /\ MadeFor(Message(hand))
        /\ IF call'[Ingester].pc = "idle" THEN IngestReturn ELSE UNCHANGED ingestVars
    BY DEF SubmitGoesOn
  <1>2. Create(Ingester) \/ Enqueue(Ingester)
    BY <1>0, <1>1, SubmittingStep, LookedUp DEF OnceInv, InHandOnce
  <1>3. hand # 0
    BY <1>2 DEF OnceInv, InHandOnce, Create, Enqueue, CallAt
  <1>4. PICK m : m = hand
    OBVIOUS
  <1>5. UNCHANGED <<read, readCommit>> /\ hand' \in {m, 0}
    BY <1>1, <1>4 DEF IngestReturn, ingestVars
  <1>6. \A n : n # m => MadeBy(Message(n))' \subseteq MadeBy(Message(n))
    BY <1>1, <1>4 DEF MadeFor, MadeBy, Message
  <1>7. \A j, k \in MadeBy(Message(m))' : j = k
    <2>1. CASE Create(Ingester)
      <3>1. PICK i \in Jobs : \A k \in Jobs : k # i => jobs'[k] = jobs[k]
        BY <1>0, <2>1, Created
      <3>2. MadeBy(Message(m)) = {}
        BY <1>3, <1>4, <2>1 DEF OnceInv, InHandOnce, Create, CallAt
      <3>3. ASSUME NEW j \in Jobs, maker'[j] = Message(m)
            PROVE  j = i
        <4>1. maker[j] # Message(m)
          BY <3>2 DEF MadeBy
        <4>2. jobs[j] = NoRow /\ jobs'[j] # NoRow
          BY <1>1, <3>3, <4>1 DEF MadeFor
        <4> QED
          BY <3>1, <4>2
      <3> QED
        BY <3>3 DEF MadeBy
    <2>2. CASE Enqueue(Ingester)
      <3>1. UNCHANGED jobs
        BY <1>0, <2>2, Enqueued
      <3>2. MadeBy(Message(m))' \subseteq MadeBy(Message(m))
        BY <1>1, <3>1 DEF MadeFor, MadeBy
      <3>3. \A j, k \in MadeBy(Message(m)) : j = k
        <4>1. hand \in DOMAIN Inbox
          BY <1>3, IngestAssumption, LenProperties DEF TypeInv, IngestTypeOK
        <4> QED
          BY <1>4, <4>1 DEF OnceInv, IngestOnce
      <3> QED
        BY <3>2, <3>3
    <2> QED
      BY <1>2, <2>1, <2>2
  <1>8. IngestOnce'
    <2> SUFFICES ASSUME NEW n \in DOMAIN Inbox, NEW j \in MadeBy(Message(n))',
                        NEW k \in MadeBy(Message(n))'
                 PROVE  j = k
      BY DEF IngestOnce
    <2>1. CASE n = m
      BY <1>7, <2>1
    <2>2. CASE n # m
      BY <1>6, <2>2 DEF OnceInv, IngestOnce
    <2> QED
      BY <2>1, <2>2
  <1>9. Committed'
    <2>1. hand \in Nat /\ readCommit \in Nat /\ Len(Inbox) \in Nat
      BY IngestAssumption, LenProperties DEF TypeInv, IngestTypeOK
    <2>2. hand' <= readCommit' /\ readCommit' <= read'
      BY <1>4, <1>5, <2>1 DEF OnceInv, Committed
    <2>3. ASSUME NEW n \in DOMAIN Inbox, n > readCommit'
          PROVE  MadeBy(Message(n))' = {}
      <3>1. n \in Nat
        BY IngestAssumption, LenProperties
      <3>2. n # m /\ n > readCommit
        BY <1>4, <1>5, <2>1, <2>3, <3>1 DEF OnceInv, Committed
      <3> QED
        BY <1>6, <3>2 DEF OnceInv, Committed
    <2> QED
      BY <2>2, <2>3 DEF Committed
  <1>10. InHandOnce'
    <2>1. CASE call'[Ingester].pc = "idle"
      BY <1>1, <2>1 DEF IngestReturn, InHandOnce
    <2>2. CASE call'[Ingester].pc # "idle"
      <3>1. call'[Ingester].pc = "enqueue"
        BY <1>0, <1>2, <2>2, Created, Enqueued DEF CallRecord
      <3>2. hand' # 0
        BY <1>1, <1>3, <2>2 DEF ingestVars
      <3> QED
        BY <3>1, <3>2 DEF InHandOnce
    <2> QED
      BY <2>1, <2>2
  <1> QED
    BY <1>8, <1>9, <1>10 DEF OnceInv

\* Neither do a read, a commit, a rebalance, the begin of a submit, or a restart.
LEMMA ReaderMakes ==
    ASSUME TypeInv, OnceInv, UNCHANGED maker,
           \/ IngestAlone /\ (IngestDrop \/ IngestSkip \/ IngestRebalance)
           \/ BeginSubmit
           \/ ApiRestart
    PROVE  OnceInv'
  <1>0. /\ read \in Nat /\ readCommit \in Nat /\ hand \in Nat
        /\ \A n \in DOMAIN Inbox : n \in Nat
        /\ Ingester \in Callers
        /\ call \in [Callers -> CallRecord]
    BY IngestAssumption, IntakeAssumption, LenProperties
    DEF TypeInv, IngestTypeOK, BackInv, BackTypes, BackendTypeOK
  <1>1. \A n : MadeBy(Message(n))' = MadeBy(Message(n))
    BY DEF MadeBy
  <1>2. IngestOnce'
    BY <1>1 DEF OnceInv, IngestOnce
  <1>3. CASE IngestAlone /\ (IngestDrop \/ IngestSkip \/ IngestRebalance)
    <2>1. /\ hand' = hand /\ UNCHANGED call
          /\ readCommit' \in {readCommit, read + 1} /\ readCommit' <= read'
      BY <1>0, <1>3 DEF IngestDrop, IngestSkip, IngestRebalance, ReadNext, IngestAlone, apiVars,
                        OnceInv, Committed
    <2>2. Committed'
      BY <1>0, <1>1, <2>1 DEF OnceInv, Committed
    <2>3. InHandOnce'
      BY <1>1, <2>1 DEF OnceInv, InHandOnce
    <2> QED
      BY <1>2, <2>2, <2>3 DEF OnceInv
  <1>4. CASE BeginSubmit
    <2>1. /\ read + 1 \in DOMAIN Inbox
          /\ read' = read + 1 /\ readCommit' = read + 1 /\ hand' = read + 1
      BY <1>0, <1>4, IngestAssumption, LenProperties DEF BeginSubmit, IngestSubmit, ReadNext
    <2>2. call'[Ingester].pc = "create"
      BY <1>0, <1>4 DEF BeginSubmit, Submit
    <2>3. MadeBy(Message(read + 1)) = {}
      BY <1>0, <2>1 DEF OnceInv, Committed
    <2>4. Committed'
      BY <1>0, <1>1, <2>1 DEF OnceInv, Committed
    <2>5. InHandOnce'
      <3>1. PICK m : m = read + 1
        OBVIOUS
      <3>2. MadeBy(Message(m))' = {} /\ hand' = m
        BY <1>1, <2>1, <2>3, <3>1
      <3>3. MadeBy(Message(hand))' = {}
        BY <3>2
      <3>4. hand' # 0
        BY <1>0, <2>1
      <3> QED
        BY <2>2, <3>3, <3>4 DEF InHandOnce
    <2> QED
      BY <1>2, <2>4, <2>5 DEF OnceInv
  <1>5. CASE ApiRestart
    <2>1. read' = readCommit /\ hand' = 0 /\ readCommit' = readCommit
      BY <1>5 DEF ApiRestart, IngestRestart
    <2>2. call'[Ingester].pc = "idle"
      BY <1>0, <1>5 DEF ApiRestart, ApiCrash, NoCall
    <2>3. Committed'
      BY <1>0, <1>1, <2>1 DEF OnceInv, Committed
    <2>4. InHandOnce'
      BY <2>1, <2>2 DEF InHandOnce
    <2> QED
      BY <1>2, <2>3, <2>4 DEF OnceInv
  <1> QED
    BY <1>3, <1>4, <1>5

LEMMA OnceStep ==
    ASSUME TypeInv, SubmitsOnly, OnceInv, [IntakeNext]_intakeVars
    PROVE  OnceInv'
  <1>1. CASE UserStep
    <2>1. PICK u \in Users : FrontStep(u) /\ UNCHANGED ingestVars
      BY <1>1 DEF UserStep
    <2>2. u \in Callers /\ Ingester \in Callers /\ Ingester # u /\ BackTypes
      BY FrontAssumption, IntakeAssumption DEF TypeInv, BackInv
    <2>3. User(u)[1] # "message"
      BY DEF User
    <2>4. MadeFor(User(u)) \/ UNCHANGED maker
      <3>1. CASE \E r \in Requests :
                    RefusedByProgram(u, r) \/ ApiOutOfReach(u, r) \/ RefusedByApi(u, r)
        <4>1. Untouched
          BY <3>1, Zenon DEF RefusedByProgram, ApiOutOfReach, RefusedByApi
        <4> QED
          BY <4>1 DEF Untouched
      <3>2. CASE \E r \in Requests : AcceptedByApi(u, r)
        BY <3>2, Zenon DEF AcceptedByApi
      <3>3. CASE ApiWorks(u)
        BY <3>3 DEF ApiWorks
      <3>4. CASE AnswerArrives(u)
        BY <3>4 DEF AnswerArrives, Untouched
      <3> QED
        BY <2>1, <3>1, <3>2, <3>3, <3>4, Zenon DEF FrontStep
    <2>5. call'[Ingester] = call[Ingester]
      <3>1. CASE Untouched
        BY <3>1 DEF Untouched, apiVars
      <3>2. CASE ApiWorks(u)
        BY <2>2, <3>2, OwnCall DEF ApiWorks
      <3>3. CASE \E r \in Requests : AcceptedByApi(u, r)
        <4>1. PICK new : call' = [call EXCEPT ![u] = new]
          BY <3>3 DEF AcceptedByApi, Submit
        <4> QED
          BY <2>2, <4>1 DEF BackTypes, BackendTypeOK
      <3> QED
        BY <2>1, <3>1, <3>2, <3>3
        DEF FrontStep, RefusedByProgram, ApiOutOfReach, RefusedByApi, AnswerArrives
    <2> QED
      BY <2>1, <2>3, <2>4, <2>5, OthersMake
  <1>2. CASE IngestStep
    <2>1. CASE SubmitGoesOn
      BY <2>1, OwnMake
    <2>2. CASE ~SubmitGoesOn
      BY <1>2, <2>2, ReaderMakes DEF IngestStep, BeginSubmit, IngestAlone
    <2> QED
      BY <2>1, <2>2
  <1>3. CASE SchedulerStep
    <2>1. Scheduler[1] # "message" /\ MadeFor(Scheduler)
      BY <1>3 DEF Scheduler, SchedulerStep
    <2> QED
      BY <1>3, <2>1, OthersMake DEF SchedulerStep, apiVars
  <1>4. CASE ApiRestart
    BY <1>4, ReaderMakes DEF ApiRestart
  <1>5. CASE UNCHANGED intakeVars
    <2>1. UNCHANGED maker /\ UNCHANGED call /\ UNCHANGED ingestVars /\ Scheduler[1] # "message"
      BY <1>5 DEF intakeVars, frontVars, apiVars, Scheduler
    <2> QED
      BY <2>1, OthersMake
  <1> QED
    BY <1>1, <1>2, <1>3, <1>4, <1>5 DEF IntakeNext

LEMMA OnceInit == IntakeInit => SubmitsOnly /\ OnceInv
  <1> SUFFICES ASSUME IntakeInit PROVE SubmitsOnly /\ OnceInv
    OBVIOUS
  <1>1. \A c \in Callers : call[c].pc = "idle"
    BY DEF IntakeInit, BackendInit, NoCall
  <1>2. \A n : Message(n) # Nobody
    BY DEF Message, Nobody
  <1>3. \A n : MadeBy(Message(n)) = {}
    BY <1>2 DEF IntakeInit, FrontInit, MadeBy
  <1>4. read = 0 /\ readCommit = 0 /\ hand = 0 /\ Ingester \in Callers
    BY IntakeAssumption DEF IntakeInit, IngestInit
  <1> QED
    BY <1>1, <1>3, <1>4 DEF SubmitsOnly, OnceInv, IngestOnce, Committed, InHandOnce

LEMMA OnceAlways == IntakeSpec => [](TypeInv /\ SubmitsOnly /\ OnceInv)
  <1>1. TypeInv /\ SubmitsOnly /\ OnceInv /\ [IntakeNext]_intakeVars
           => (TypeInv /\ SubmitsOnly /\ OnceInv)'
    BY TypesStep, StepGrows, OnceStep
  <1> QED
    BY <1>1, TypesInit, OnceInit, PTL DEF IntakeSpec

\* A message of the ingest topic makes one job at most, however often the reader
\* is rebalanced, restarted or loses a commit, because a message is committed
\* before it is submitted.
THEOREM IngestedOnce == IntakeSpec => []IngestOnce
  <1>1. OnceInv => IngestOnce
    BY DEF OnceInv
  <1> QED
    BY <1>1, OnceAlways, PTL

----------------------------------------------------------------------------
(***************************************************************************)
(* Who is told that a request went well has a job that will be run: the    *)
(* row is there before the message goes out, a job that is not sent is the *)
(* promoter's, and no code on the way back turns an error into a success.  *)
(***************************************************************************)
\* How a user without a key is doing: the request is the user's own, what it is
\* about to enqueue is the user's row, and an answer of success has a job.
OpenKey(u) ==
    IF user[u].pc = "open"
    THEN call[u].pc \in {"lookup", "create", "enqueue"} /\ call[u].key = user[u].request.key
    ELSE call[u].pc = "idle"

Owns(u) ==
    call[u].pc = "enqueue" =>
        /\ jobs[call[u].job] # NoRow
        /\ jobs[call[u].job].status = FirstStatus(call[u].runAt)
        /\ maker[call[u].job] = User(u)

NoLookup(u) == call[u].pc = "lookup" => call[u].key # NoKey

HasJob(u) ==
    user[u].pc \in {"answered", "told"} /\ user[u].code < 400 /\ user[u].request.key = NoKey
        => \E j \in MadeBy(User(u)) : Durable(j)

QueuedInv == \A u \in Users : OpenKey(u) /\ Owns(u) /\ NoLookup(u) /\ HasJob(u)

\* Steps that are not the user's own.
LEMMA OthersQueue ==
    ASSUME TypeInv, Grows, NEW u \in Users, OpenKey(u), Owns(u), NoLookup(u), HasJob(u),
           user'[u] = user[u], call'[u] = call[u]
    PROVE  (OpenKey(u) /\ Owns(u) /\ NoLookup(u) /\ HasJob(u))'
  <1>1. u \in Callers
    BY FrontAssumption
  <1>2. call[u].pc = "enqueue" => call[u].job \in Jobs
    BY <1>1 DEF TypeInv, BackInv, BackTypes, CallJobs
  <1>3. Owns(u)'
    BY <1>2 DEF Owns, Grows
  <1>4. HasJob(u)'
    <2>1. PICK who : who = User(u)
      OBVIOUS
    <2>2. (\E j \in MadeBy(who) : Durable(j)) => (\E j \in MadeBy(who) : Durable(j))'
      BY DurableStays
    <2>3. (\E j \in MadeBy(User(u)) : Durable(j)) => (\E j \in MadeBy(User(u)) : Durable(j))'
      BY <2>1, <2>2
    <2> QED
      BY <2>3 DEF HasJob
  <1> QED
    BY <1>3, <1>4 DEF OpenKey, NoLookup

\* A user who asks, and gets an answer of the program or of handleSubmit that
\* is an error.
LEMMA RefusalQueues ==
    ASSUME TypeInv, NEW u \in Users, OpenKey(u), NEW r \in Requests, MayAsk(u, r),
           NEW pc \in {"told", "answered"}, NEW code \in {400, 429, 500},
           Asks(u, r, pc, code), UNCHANGED call
    PROVE  (OpenKey(u) /\ Owns(u) /\ NoLookup(u) /\ HasJob(u))'
  <1>1. call'[u].pc = "idle"
    BY DEF OpenKey, MayAsk, UserAt
  <1>2. user'[u].pc = pc /\ user'[u].code = code
    BY DEF Asks, TypeInv, FrontInv, FrontTypeOK
  <1>3. ~(code < 400)
    OBVIOUS
  <1>4. ~(user'[u].code < 400)
    BY <1>2, <1>3
  <1> QED
    BY <1>1, <1>2, <1>4 DEF OpenKey, Owns, NoLookup, HasJob

LEMMA SubmitQueues ==
    ASSUME TypeInv, NEW u \in Users, OpenKey(u), NEW r \in Requests, AcceptedByApi(u, r)
    PROVE  (OpenKey(u) /\ Owns(u) /\ NoLookup(u) /\ HasJob(u))'
  <1>1. u \in Callers /\ call \in [Callers -> CallRecord]
    BY FrontAssumption DEF TypeInv, BackInv, BackTypes, BackendTypeOK
  <1>2. /\ call'[u].pc = IF r.key = NoKey THEN "create" ELSE "lookup"
        /\ call'[u].key = r.key
    BY <1>1 DEF AcceptedByApi, Submit
  <1>3. user'[u].pc = "open" /\ user'[u].request = r
    BY DEF AcceptedByApi, Asks, TypeInv, FrontInv, FrontTypeOK
  <1> QED
    BY <1>2, <1>3 DEF OpenKey, Owns, NoLookup, HasJob

LEMMA WorkQueues ==
    ASSUME TypeInv, SubmitsOnly, Grows, NEW u \in Users, OpenKey(u), Owns(u), NoLookup(u),
           ApiWorks(u)
    PROVE  (OpenKey(u) /\ Owns(u) /\ NoLookup(u) /\ HasJob(u))'
  <1>0. u \in Callers /\ BackTypes /\ call[u] \in CallRecord /\ user[u] \in UserRecord
    BY FrontAssumption
    DEF TypeInv, BackInv, BackTypes, BackendTypeOK, FrontInv, FrontTypeOK, UserRecord
  <1>1. /\ user[u].pc = "open" /\ CallStep(u) /\ MadeFor(User(u))
        /\ call[u].key = user[u].request.key
    BY DEF ApiWorks, UserAt, OpenKey
  <1>2. CASE call'[u].pc # "idle"
    <2>1. user' = user
      BY <1>2 DEF ApiWorks
    <2>2. CASE Lookup(u)
      <3>1. call'[u].pc = "create" /\ call'[u].key = call[u].key
        BY <1>0, <1>2, <2>2, LookedUp DEF CallRecord
      <3> QED
        BY <1>1, <2>1, <3>1 DEF OpenKey, Owns, NoLookup, HasJob
    <2>3. CASE Create(u)
      <3>1. PICK j \in Jobs :
              /\ jobs[j] = NoRow
              /\ call'[u] = [call[u] EXCEPT !.pc = "enqueue", !.job = j]
              /\ jobs'[j] # NoRow /\ jobs'[j].status = FirstStatus(call[u].runAt)
        BY <1>0, <1>2, <2>3, Created
      <3>2. /\ call'[u].pc = "enqueue" /\ call'[u].job = j
            /\ call'[u].key = call[u].key /\ call'[u].runAt = call[u].runAt
        BY <1>0, <3>1 DEF CallRecord
      <3>3. maker'[j] = User(u)
        BY <1>1, <3>1 DEF MadeFor
      <3>4. Owns(u)'
        BY <3>1, <3>2, <3>3 DEF Owns, User
      <3> QED
        BY <1>1, <2>1, <3>2, <3>4 DEF OpenKey, NoLookup, HasJob
    <2>4. CASE Enqueue(u)
      BY <1>0, <1>2, <2>4, Enqueued
    <2> QED
      BY <1>0, <1>1, <2>2, <2>3, <2>4, SubmittingStep
  <1>3. CASE call'[u].pc = "idle"
    <2>1. outcome'[u] \in {"ok", "storeError", "brokerError"}
      BY <1>0, <1>1, <1>3, OwnCall
    <2>2. PICK code \in Codes("submit", outcome'[u]) :
             user' = [user EXCEPT ![u].pc = "answered", ![u].code = code]
      BY <1>3 DEF ApiWorks
    <2>3. /\ user'[u].pc = "answered" /\ user'[u].code = code
          /\ user'[u].request = user[u].request
      BY <1>0, <2>2 DEF TypeInv, FrontInv, FrontTypeOK, UserRecord
    <2>4. CASE outcome'[u] # "ok"
      <3>1. code \in {500, 503}
        BY <2>1, <2>2, <2>4, SubmitCodes
      <3>2. ~(user'[u].code < 400)
        BY <2>3, <3>1
      <3> QED
        BY <1>3, <2>3, <3>2 DEF OpenKey, Owns, NoLookup, HasJob
    <2>5. CASE outcome'[u] = "ok" /\ call[u].key = NoKey
      <3>1. Enqueue(u)
        <4>1. ~Lookup(u)
          BY <1>0, <2>5, LookedUp DEF NoLookup
        <4>2. ~Create(u)
          BY <1>0, <1>3, <2>5, Created DEF CallRecord
        <4> QED
          BY <1>0, <1>1, <4>1, <4>2, SubmittingStep
      <3>2. PICK j \in Jobs : j = call[u].job
        BY <1>0, <3>1 DEF Enqueue, CallAt, BackTypes, CallJobs
      <3>3. /\ jobs[j] # NoRow /\ jobs[j].status = FirstStatus(call[u].runAt)
            /\ maker[j] = User(u)
        BY <3>1, <3>2 DEF Owns, Enqueue, CallAt
      <3>4. call[u].runAt > now \/ \E i \in DOMAIN topic' : topic'[i].job = j
        BY <1>0, <2>5, <3>1, <3>2, Enqueued
      <3>5. call[u].runAt > now => FirstStatus(call[u].runAt) = "scheduled"
        BY <1>0, ClockAssumption DEF FirstStatus, CallRecord, BackTypes, ClockTypeOK
      <3>6. jobs'[j] = jobs[j] /\ maker'[j] = User(u)
        BY <3>3 DEF Grows
      <3>7. Durable(j)'
        BY <3>3, <3>4, <3>5, <3>6 DEF Durable, Sent
      <3>8. HasJob(u)'
        BY <3>6, <3>7 DEF HasJob, MadeBy, User
      <3> QED
        BY <1>3, <2>3, <3>8 DEF OpenKey, Owns, NoLookup
    <2>6. CASE call[u].key # NoKey
      BY <1>1, <1>3, <2>3, <2>6 DEF OpenKey, Owns, NoLookup, HasJob
    <2> QED
      BY <2>4, <2>5, <2>6
  <1> QED
    BY <1>2, <1>3

LEMMA AnswerQueues ==
    ASSUME TypeInv, Grows, NEW u \in Users, OpenKey(u), Owns(u), NoLookup(u), HasJob(u),
           AnswerArrives(u)
    PROVE  (OpenKey(u) /\ Owns(u) /\ NoLookup(u) /\ HasJob(u))'
  <1>1. user[u].pc = "answered" /\ call' = call
    BY DEF AnswerArrives, UserAt, Untouched, apiVars
  <1>2. PICK delivery \in {"whole", "lost", "cut"} :
           user' = [user EXCEPT ![u].pc = "told",
                        ![u].code = Told(user[u].request.op, user[u].code, delivery)]
    BY DEF AnswerArrives
  <1>3. user[u] \in UserRecord
    BY DEF TypeInv, FrontInv, FrontTypeOK, UserRecord
  <1>4. /\ user'[u].pc = "told" /\ user'[u].request = user[u].request
        /\ user'[u].code = Told(user[u].request.op, user[u].code, delivery)
    BY <1>2, <1>3 DEF TypeInv, FrontInv, FrontTypeOK, UserRecord
  <1>5. user'[u].code < 400 => user[u].code < 400
    BY <1>3, <1>4, ToldCodes DEF UserRecord
  <1>6. HasJob(u)'
    <2>1. PICK who : who = User(u)
      OBVIOUS
    <2>2. (\E j \in MadeBy(who) : Durable(j)) => (\E j \in MadeBy(who) : Durable(j))'
      BY DurableStays
    <2>3. (\E j \in MadeBy(User(u)) : Durable(j)) => (\E j \in MadeBy(User(u)) : Durable(j))'
      BY <2>1, <2>2
    <2> QED
      BY <1>1, <1>4, <1>5, <2>3 DEF HasJob
  <1>7. call'[u].pc = "idle"
    BY <1>1 DEF OpenKey
  <1> QED
    BY <1>4, <1>6, <1>7 DEF OpenKey, Owns, NoLookup

\* A step of one user is none of another's.
LEMMA UsersApart ==
    ASSUME TypeInv, NEW u \in Users, NEW v \in Users, u # v, FrontStep(v)
    PROVE  user'[u] = user[u] /\ call'[u] = call[u]
  <1>0. u \in Callers /\ v \in Callers /\ BackTypes /\ call \in [Callers -> CallRecord]
    BY FrontAssumption DEF TypeInv, BackInv, BackTypes, BackendTypeOK
  <1>1. (\E new : user' = [user EXCEPT ![v] = new]) => user'[u] = user[u]
    BY DEF TypeInv, FrontInv, FrontTypeOK
  <1>2. CASE Untouched /\ ~ApiWorks(v)
    <2>1. CASE AnswerArrives(v)
      BY <1>2, <2>1 DEF AnswerArrives, Untouched, apiVars, TypeInv, FrontInv, FrontTypeOK
    <2>2. CASE ~AnswerArrives(v)
      <3>0. PICK q \in Requests : \/ RefusedByProgram(v, q) \/ ApiOutOfReach(v, q)
                                 \/ RefusedByApi(v, q) \/ AcceptedByApi(v, q)
        BY <1>2, <2>2, Zenon DEF FrontStep
      <3>1. ASSUME NEW r, NEW pc, NEW code, Asks(v, r, pc, code)
            PROVE  user'[u] = user[u]
        BY <1>1, <3>1 DEF Asks
      <3>2. user'[u] = user[u]
        <4>1. CASE RefusedByProgram(v, q)
          <5>1. Asks(v, q, "told", 400)
            BY <4>1 DEF RefusedByProgram
          <5> QED
            BY <3>1, <5>1
        <4>2. CASE ApiOutOfReach(v, q)
          <5>1. Asks(v, q, "told", 500)
            BY <4>2 DEF ApiOutOfReach
          <5> QED
            BY <3>1, <5>1
        <4>3. CASE RefusedByApi(v, q)
          <5>1. Asks(v, q, "answered", 400) \/ Asks(v, q, "answered", 429)
            BY <4>3, Zenon DEF RefusedByApi
          <5> QED
            BY <3>1, <5>1
        <4>4. CASE AcceptedByApi(v, q)
          <5>1. Asks(v, q, "open", 0)
            BY <4>4 DEF AcceptedByApi
          <5> QED
            BY <3>1, <5>1
        <4> QED
          BY <3>0, <4>1, <4>2, <4>3, <4>4
      <3> QED
        BY <1>2, <3>2 DEF Untouched, apiVars
    <2> QED
      BY <2>1, <2>2
  <1>3. CASE ApiWorks(v)
    <2>1. user' = user \/ \E new : user' = [user EXCEPT ![v] = new]
      BY <1>3 DEF ApiWorks
    <2>2. call'[u] = call[u]
      BY <1>0, <1>3, OwnCall DEF ApiWorks
    <2> QED
      BY <1>1, <2>1, <2>2
  <1>4. CASE \E r \in Requests : AcceptedByApi(v, r)
    <2>1. PICK new : call' = [call EXCEPT ![v] = new]
      BY <1>4 DEF AcceptedByApi, Submit
    <2>2. \E told : user' = [user EXCEPT ![v] = told]
      BY <1>4 DEF AcceptedByApi, Asks
    <2> QED
      BY <1>0, <1>1, <2>1, <2>2
  <1> QED
    BY <1>2, <1>3, <1>4
    DEF FrontStep, RefusedByProgram, ApiOutOfReach, RefusedByApi, AnswerArrives

LEMMA QueuedStep ==
    ASSUME TypeInv, SubmitsOnly, QueuedInv, [IntakeNext]_intakeVars
    PROVE  QueuedInv'
  <1>0. Grows
    BY StepGrows
  <1> SUFFICES ASSUME NEW u \in Users
               PROVE  (OpenKey(u) /\ Owns(u) /\ NoLookup(u) /\ HasJob(u))'
    BY DEF QueuedInv
  <1>1. OpenKey(u) /\ Owns(u) /\ NoLookup(u) /\ HasJob(u)
    BY DEF QueuedInv
  <1>2. u \in Callers /\ u # Ingester /\ call \in [Callers -> CallRecord] /\ BackTypes
    BY FrontAssumption, IntakeAssumption DEF TypeInv, BackInv, BackTypes, BackendTypeOK
  <1>3. ASSUME user'[u] = user[u], call'[u] = call[u]
        PROVE  (OpenKey(u) /\ Owns(u) /\ NoLookup(u) /\ HasJob(u))'
    BY <1>0, <1>1, <1>3, OthersQueue
  <1>4. CASE UserStep
    <2>1. PICK v \in Users : FrontStep(v)
      BY <1>4 DEF UserStep
    <2>2. CASE v # u
      BY <1>3, <2>1, <2>2, UsersApart
    <2>3. ASSUME FrontStep(u)
          PROVE  (OpenKey(u) /\ Owns(u) /\ NoLookup(u) /\ HasJob(u))'
      <3>1. CASE \E r \in Requests :
                    RefusedByProgram(u, r) \/ ApiOutOfReach(u, r) \/ RefusedByApi(u, r)
        <4>1. PICK r \in Requests :
                 RefusedByProgram(u, r) \/ ApiOutOfReach(u, r) \/ RefusedByApi(u, r)
          BY <3>1
        <4>2. MayAsk(u, r) /\ UNCHANGED call
          <5>1. MayAsk(u, r) /\ Untouched
            BY <4>1, Zenon DEF RefusedByProgram, ApiOutOfReach, RefusedByApi
          <5> QED
            BY <5>1 DEF Untouched, apiVars
        <4>3. PICK pc \in {"told", "answered"}, code \in {400, 429, 500} : Asks(u, r, pc, code)
          <5>1. RefusedByProgram(u, r) => Asks(u, r, "told", 400)
            BY DEF RefusedByProgram
          <5>2. ApiOutOfReach(u, r) => Asks(u, r, "told", 500)
            BY DEF ApiOutOfReach
          <5>3. RefusedByApi(u, r) => Asks(u, r, "answered", 400) \/ Asks(u, r, "answered", 429)
            BY Zenon DEF RefusedByApi
          <5> QED
            BY <4>1, <5>1, <5>2, <5>3
        <4> QED
          BY <1>1, <4>2, <4>3, RefusalQueues
      <3>2. CASE \E r \in Requests : AcceptedByApi(u, r)
        BY <1>1, <3>2, SubmitQueues
      <3>3. CASE ApiWorks(u)
        BY <1>0, <1>1, <3>3, WorkQueues
      <3>4. CASE AnswerArrives(u)
        BY <1>0, <1>1, <3>4, AnswerQueues
      <3> QED
        BY <2>3, <3>1, <3>2, <3>3, <3>4 DEF FrontStep
    <2> QED
      BY <2>1, <2>2, <2>3
  <1>5. CASE IngestStep
    <2>0. Ingester \in Callers /\ user'[u] = user[u]
      BY <1>5, IntakeAssumption DEF IngestStep
    <2>1. CASE IngestAlone
      BY <1>3, <2>0, <2>1 DEF IngestAlone, apiVars
    <2>2. CASE BeginSubmit
      <3>1. PICK new : call' = [call EXCEPT ![Ingester] = new]
        BY <2>2 DEF BeginSubmit, Submit
      <3> QED
        BY <1>2, <1>3, <2>0, <3>1
    <2>3. CASE SubmitGoesOn
      BY <1>2, <1>3, <2>0, <2>3, OwnCall DEF SubmitGoesOn
    <2> QED
      BY <1>5, <2>1, <2>2, <2>3 DEF IngestStep
  <1>6. CASE SchedulerStep
    BY <1>3, <1>6 DEF SchedulerStep, apiVars
  <1>7. CASE ApiRestart
    <2>1. call'[u].pc = "idle"
      BY <1>2, <1>7 DEF ApiRestart, ApiCrash, NoCall
    <2>2. user'[u] = IF user[u].pc = "open" THEN [user[u] EXCEPT !.pc = "told", !.code = 500]
                     ELSE user[u]
      BY <1>7 DEF ApiRestart, UsersCutOff
    <2>3. user[u] \in UserRecord
      BY DEF TypeInv, FrontInv, FrontTypeOK, UserRecord
    <2>4. CASE user[u].pc = "open"
      <3>1. user'[u].pc = "told" /\ user'[u].code = 500
        BY <2>2, <2>3, <2>4 DEF UserRecord
      <3> QED
        BY <2>1, <3>1 DEF OpenKey, Owns, NoLookup, HasJob
    <2>5. CASE user[u].pc # "open"
      <3>1. PICK who : who = User(u)
        OBVIOUS
      <3>2. (\E j \in MadeBy(who) : Durable(j)) => (\E j \in MadeBy(who) : Durable(j))'
        BY <1>0, DurableStays
      <3>3. (\E j \in MadeBy(User(u)) : Durable(j)) => (\E j \in MadeBy(User(u)) : Durable(j))'
        BY <3>1, <3>2
      <3>4. HasJob(u)'
        BY <1>1, <2>2, <2>5, <3>3 DEF HasJob
      <3> QED
        BY <2>1, <2>2, <2>5, <3>4 DEF OpenKey, Owns, NoLookup
    <2> QED
      BY <2>4, <2>5
  <1>8. CASE UNCHANGED intakeVars
    BY <1>3, <1>8 DEF intakeVars, frontVars, apiVars
  <1> QED
    BY <1>4, <1>5, <1>6, <1>7, <1>8 DEF IntakeNext

LEMMA QueuedInit == IntakeInit => QueuedInv
  <1> SUFFICES ASSUME IntakeInit, NEW u \in Users
               PROVE  OpenKey(u) /\ Owns(u) /\ NoLookup(u) /\ HasJob(u)
    BY DEF QueuedInv
  <1>1. call[u].pc = "idle" /\ user[u].pc = "idle"
    BY FrontAssumption DEF IntakeInit, BackendInit, FrontInit, NoCall, NoAsk
  <1> QED
    BY <1>1 DEF OpenKey, Owns, NoLookup, HasJob

\* A user without a key who is told of a success has a job that is in the topic
\* or the promoter's, for any number of programs and failures: the row is
\* written before its message, and an error is never passed on as a success.
THEOREM ToldIsQueued == IntakeSpec => []QueuedMeansQueued
  <1>1. QueuedInv => QueuedMeansQueued
    BY DEF QueuedInv, HasJob, QueuedMeansQueued
  <1>2. QueuedInv /\ (TypeInv /\ SubmitsOnly) /\ [IntakeNext]_intakeVars => QueuedInv'
    BY QueuedStep
  <1>3. TypeInv /\ SubmitsOnly /\ OnceInv => TypeInv /\ SubmitsOnly
    OBVIOUS
  <1> QED
    BY <1>1, <1>2, <1>3, QueuedInit, OnceAlways, PTL DEF IntakeSpec

----------------------------------------------------------------------------
(***************************************************************************)
(* What failures cost: a second row for a user, a row that nothing will    *)
(* run, and a message without a job each need a failure of their own.      *)
(***************************************************************************)
LEMMA NamesApart ==
    ASSUME NEW u, NEW v, NEW n
    PROVE  /\ u # v => User(u) # User(v)
           /\ User(u) # Scheduler /\ User(u) # Message(n) /\ Message(n) # Scheduler
           /\ User(u) # Nobody /\ Scheduler # Nobody
  <1>1. User(u)[2] = u /\ User(v)[2] = v
    BY DEF User
  <1>2. User(u)[1] = "user" /\ Message(n)[1] = "message" /\ Scheduler[1] = "scheduler"
    BY DEF User, Message, Scheduler
  <1>3. Len(User(u)) = 2 /\ Len(Scheduler) = 1 /\ Len(Nobody) = 0
    BY DEF User, Scheduler, Nobody
  <1> QED
    BY <1>1, <1>2, <1>3

\* A set that grew by one element at most.
LEMMA OneMore ==
    ASSUME NEW S, IsFiniteSet(S), NEW x, NEW T, T \subseteq S \cup {x}
    PROVE  IsFiniteSet(T) /\ Cardinality(S) \in Nat /\ Cardinality(T) \in Nat
           /\ Cardinality(T) <= Cardinality(S) + 1
           /\ (T \subseteq S => Cardinality(T) <= Cardinality(S))
  <1>1. /\ IsFiniteSet(S \cup {x}) /\ Cardinality(S) \in Nat
        /\ Cardinality(S \cup {x}) <= Cardinality(S) + 1 /\ Cardinality(S \cup {x}) \in Nat
    BY FS_AddElement, FS_CardinalityType
  <1>2. /\ IsFiniteSet(T) /\ Cardinality(T) <= Cardinality(S \cup {x})
        /\ Cardinality(T) \in Nat
    BY <1>1, FS_Subset, FS_CardinalityType
  <1>3. T \subseteq S => Cardinality(T) <= Cardinality(S)
    BY FS_Subset
  <1> QED
    BY <1>1, <1>2, <1>3

\* Whom the rows are made for that a step adds.
LEMMA MadeByStep ==
    ASSUME NEW who, NEW v, MadeFor(v) \/ UNCHANGED maker
    PROVE  /\ v # who \/ jobs' = jobs \/ UNCHANGED maker => MadeBy(who)' \subseteq MadeBy(who)
           /\ \A j \in Jobs :
                 (\A k \in Jobs : k # j => jobs'[k] = jobs[k])
                    => MadeBy(who)' \subseteq MadeBy(who) \cup {j}
  BY DEF MadeFor, MadeBy

\* A request that ends without a success pays with a failure for the row it made.
LEMMA CreateCosts ==
    ASSUME BackTypes, NEW c \in Callers, Create(c)
    PROVE  /\ call[c].pc = "create" /\ faults' \in {faults, faults + 1} /\ topic' = topic
           /\ \E j \in Jobs :
                 /\ jobs[j] = NoRow
                 /\ \A k \in Jobs : k # j => jobs'[k] = jobs[k]
                 /\ \/ /\ call'[c].pc = "enqueue" /\ call'[c].job = j /\ jobs'[j] # NoRow
                       /\ call'[c].runAt = call[c].runAt
                       /\ jobs'[j].status = FirstStatus(call[c].runAt)
                    \/ call'[c].pc = "idle" /\ outcome'[c] = "storeError" /\ faults' = faults + 1
                    \/ /\ call'[c].pc = "idle" /\ outcome'[c] = "storeError" /\ jobs' = jobs
                       /\ call[c].key # NoKey
  <1>0. call[c] \in CallRecord /\ call[c].pc = "create" /\ topic' = topic
    BY DEF BackTypes, BackendTypeOK, Create, CallAt
  <1>1. PICK j \in Jobs :
           LET r == call[c]
               new == Inserted(j, r.work, FirstStatus(r.runAt), r.runAt, r.key)
           IN
           /\ jobs[j] = NoRow
           /\ \/ /\ jobs' = new /\ faults' = faults
                 /\ call' = [call EXCEPT ![c].pc = "enqueue", ![c].job = j]
              \/ /\ r.key # NoKey /\ jobs' = jobs /\ faults' = faults
                 /\ Return(c, "storeError")
              \/ /\ Fault("store") /\ jobs' \in {jobs, new} /\ Return(c, "storeError")
    BY Zenon DEF Create, Fresh
  <1>2. \A k \in Jobs : k # j => jobs'[k] = jobs[k]
    BY <1>1 DEF Inserted, BackTypes, StoreTypeOK
  <1>3. Return(c, "storeError") => call'[c].pc = "idle" /\ outcome'[c] = "storeError"
    BY DEF Return, NoCall, BackTypes, BackendTypeOK
  <1>4. CASE call' = [call EXCEPT ![c].pc = "enqueue", ![c].job = j]
    <2>1. /\ call'[c].pc = "enqueue" /\ call'[c].job = j
          /\ call'[c].runAt = call[c].runAt
      BY <1>0, <1>4 DEF BackTypes, BackendTypeOK, CallRecord
    <2>2. /\ jobs' = Inserted(j, call[c].work, FirstStatus(call[c].runAt), call[c].runAt,
                              call[c].key)
          /\ faults' = faults
      <3>1. ~Return(c, "storeError")
        BY <1>3, <2>1
      <3> QED
        BY <1>1, <3>1
    <2>3. /\ call[c].work \in Work /\ FirstStatus(call[c].runAt) \in Statuses
          /\ call[c].runAt \in Nat /\ call[c].key \in Keys \cup {NoKey}
      BY <1>0 DEF CallRecord, FirstStatus, Statuses
    <2>4. jobs'[j] # NoRow /\ jobs'[j].status = FirstStatus(call[c].runAt)
      <3>1. jobs'[j] = [work |-> call[c].work, status |-> FirstStatus(call[c].runAt),
                        attempt |-> 0, runAt |-> call[c].runAt, key |-> call[c].key]
        BY <2>2 DEF Inserted, BackTypes, StoreTypeOK
      <3>2. jobs'[j] \in JobRecord
        BY <2>3, <3>1 DEF JobRecord
      <3> QED
        BY <3>1, <3>2, StoreAssumption
    <2> QED
      BY <1>0, <1>1, <1>2, <2>1, <2>2, <2>4
  <1>5. CASE Return(c, "storeError")
    <2>1. call'[c].pc = "idle" /\ outcome'[c] = "storeError"
      BY <1>3, <1>5
    <2>2. call' # [call EXCEPT ![c].pc = "enqueue", ![c].job = j]
      BY <1>0, <2>1 DEF BackTypes, BackendTypeOK, CallRecord
    <2>3. \/ faults' = faults + 1
          \/ jobs' = jobs /\ call[c].key # NoKey /\ faults' = faults
      BY Zenon, <1>1, <2>2 DEF Fault
    <2> QED
      BY <1>0, <1>1, <1>2, <2>1, <2>3
  <1>6. call' = [call EXCEPT ![c].pc = "enqueue", ![c].job = j] \/ Return(c, "storeError")
    BY Zenon, <1>1
  <1> QED
    BY <1>4, <1>5, <1>6

LEMMA EnqueueCosts ==
    ASSUME BackTypes, NEW c \in Callers, Enqueue(c)
    PROVE  /\ call[c].pc = "enqueue" /\ call'[c].pc = "idle" /\ jobs' = jobs
           /\ faults' \in {faults, faults + 1}
           /\ outcome'[c] = "ok" \/ faults' = faults + 1
  <1>1. ASSUME NEW o, Return(c, o)
        PROVE  call'[c].pc = "idle" /\ outcome'[c] = o
    BY <1>1 DEF Return, NoCall, BackTypes, BackendTypeOK
  <1>2. PICK m : m = Request(call[c].job, call[c].work, 0, call[c].maxRetry)
    OBVIOUS
  <1>3. \/ Reply(c, call[c].job) /\ UNCHANGED faults
        \/ EnqueueOk(m) /\ Reply(c, call[c].job)
        \/ EnqueueError(m) /\ Return(c, "brokerError")
    BY <1>2 DEF Enqueue
  <1>4. /\ EnqueueOk(m) => faults' \in {faults, faults + 1}
        /\ EnqueueError(m) => faults' = faults + 1
    BY DEF EnqueueOk, EnqueueError, Fault
  <1>5. call[c].pc = "enqueue" /\ jobs' = jobs
    BY DEF Enqueue, CallAt, storeVars
  <1> QED
    BY <1>1, <1>3, <1>4, <1>5 DEF Reply

LEMMA LookupCosts ==
    ASSUME BackTypes, NEW c \in Callers, Lookup(c)
    PROVE  faults' \in {faults, faults + 1}
  BY DEF Lookup, Fault

----------------------------------------------------------------------------
\* What counts for a user beside the failures: the row that is about to be
\* enqueued, or the one of the answer on its way.
Unpaid(u) ==
    \/ call[u].pc = "enqueue"
    \/ user[u].pc \in {"answered", "told"} /\ user[u].code < 400

Owed(u) == IF Unpaid(u) THEN 1 ELSE 0

Priced(u) ==
    /\ IsFiniteSet(MadeBy(User(u)))
    /\ Cardinality(MadeBy(User(u))) <= faults + Owed(u)

PricedInv == \A u \in Users : Priced(u)

\* A set that is no larger than the failures, and one more where that is owed,
\* stays so when what is added is paid for.
LEMMA Paid ==
    ASSUME NEW S, NEW T, IsFiniteSet(S), NEW f \in Nat, NEW g \in Nat,
           NEW p \in {0, 1}, NEW q \in {0, 1}, Cardinality(S) <= f + p,
           \/ T \subseteq S /\ f + p <= g + q
           \/ (\E x : T \subseteq S \cup {x}) /\ f + p + 1 <= g + q
    PROVE  IsFiniteSet(T) /\ Cardinality(T) <= g + q
  <1>1. PICK x : T \subseteq S \cup {x}
    OBVIOUS
  <1>2. /\ IsFiniteSet(T) /\ Cardinality(S) \in Nat /\ Cardinality(T) \in Nat
        /\ Cardinality(T) <= Cardinality(S) + 1
        /\ (T \subseteq S => Cardinality(T) <= Cardinality(S))
    BY <1>1, OneMore
  <1>3. CASE T \subseteq S /\ f + p <= g + q
    BY <1>2, <1>3
  <1>4. CASE f + p + 1 <= g + q
    BY <1>2, <1>4
  <1> QED
    BY <1>3, <1>4

LEMMA PaidUser ==
    ASSUME TypeInv, NEW u, Priced(u), faults' \in Nat,
           \/ /\ MadeBy(User(u))' \subseteq MadeBy(User(u))
              /\ faults + Owed(u) <= faults' + Owed(u)'
           \/ /\ \E j : MadeBy(User(u))' \subseteq MadeBy(User(u)) \cup {j}
              /\ faults + Owed(u) + 1 <= faults' + Owed(u)'
    PROVE  Priced(u)'
  <1>1. faults \in Nat
    BY DEF TypeInv, BackInv, BackTypes, StoreTypeOK
  <1>2. PICK S, T, p, q : S = MadeBy(User(u)) /\ T = MadeBy(User(u))' /\ p = Owed(u) /\ q = Owed(u)'
    OBVIOUS
  <1>3. p \in {0, 1} /\ q \in {0, 1}
    BY <1>2 DEF Owed
  <1>4. IsFiniteSet(S) /\ Cardinality(S) <= faults + p
    BY <1>2 DEF Priced
  <1>5. \/ T \subseteq S /\ faults + p <= faults' + q
        \/ (\E x : T \subseteq S \cup {x}) /\ faults + p + 1 <= faults' + q
    BY <1>2
  <1>6. IsFiniteSet(T) /\ Cardinality(T) <= faults' + q
    BY <1>1, <1>3, <1>4, <1>5, Paid
  <1> QED
    BY <1>2, <1>6 DEF Priced

\* A step costs one failure at most.
LEMMA FaultsStep ==
    ASSUME TypeInv, SubmitsOnly, [IntakeNext]_intakeVars
    PROVE  faults \in Nat /\ faults' \in {faults, faults + 1}
  <1>0. faults \in Nat /\ BackTypes
    BY DEF TypeInv, BackInv, BackTypes, StoreTypeOK
  <1> SUFFICES faults' \in {faults, faults + 1}
    BY <1>0
  <1>1. ASSUME NEW kind, Fault(kind)
        PROVE  faults' = faults + 1
    BY <1>1 DEF Fault
  <1>2. ASSUME NEW c \in Callers, CallStep(c)
        PROVE  faults' \in {faults, faults + 1}
    <2>1. Lookup(c) \/ Create(c) \/ Enqueue(c)
      BY <1>0, <1>2, SubmittingStep
    <2> QED
      BY <1>0, <2>1, LookupCosts, CreateCosts, EnqueueCosts
  <1>3. CASE UserStep
    <2>1. PICK u \in Users : FrontStep(u)
      BY <1>3 DEF UserStep
    <2>2. u \in Callers
      BY FrontAssumption
    <2>3. CASE \E r \in Requests : \/ RefusedByProgram(u, r) \/ RefusedByApi(u, r)
                                   \/ AcceptedByApi(u, r)
      BY <2>3 DEF RefusedByProgram, RefusedByApi, AcceptedByApi, Submit
    <2>4. CASE \E r \in Requests : ApiOutOfReach(u, r)
      BY <1>1, <2>4 DEF ApiOutOfReach
    <2>5. CASE ApiWorks(u)
      BY <1>2, <2>2, <2>5 DEF ApiWorks
    <2>6. CASE AnswerArrives(u)
      BY <1>1, <2>6 DEF AnswerArrives
    <2> QED
      BY <2>1, <2>3, <2>4, <2>5, <2>6 DEF FrontStep
  <1>4. CASE IngestStep
    <2>1. CASE BeginSubmit
      BY <2>1 DEF BeginSubmit, Submit
    <2>2. CASE SubmitGoesOn
      BY <1>2, <2>2, IntakeAssumption DEF SubmitGoesOn
    <2> QED
      BY <1>1, <1>4, <2>1, <2>2 DEF IngestStep
  <1>5. CASE SchedulerStep
    <2>1. CASE RunRound \/ SchedulerCrash
      BY <1>1, <2>1 DEF RunRound, SchedulerCrash
    <2>2. CASE FakeEnqueue
      <3>1. PICK m : EnqueueOk(m) \/ EnqueueError(m)
        BY <2>2 DEF FakeEnqueue
      <3> QED
        BY <1>1, <3>1 DEF EnqueueOk, EnqueueError
    <2>3. CASE \E j \in Jobs : FakeCreate(j)
      BY <1>1, <2>3 DEF FakeCreate
    <2> QED
      BY <1>5, <2>1, <2>2, <2>3 DEF SchedulerStep
  <1>6. CASE ApiRestart
    BY <1>1, <1>6 DEF ApiRestart, ApiCrash
  <1>7. CASE UNCHANGED intakeVars
    BY <1>7 DEF intakeVars
  <1> QED
    BY <1>0, <1>3, <1>4, <1>5, <1>6, <1>7 DEF IntakeNext

\* What a user asks for adds no row; the row is made while the API works on it.
LEMMA AskedPriced ==
    ASSUME TypeInv, NEW u \in Users, OpenKey(u), Priced(u), faults' \in {faults, faults + 1},
           NEW r \in Requests,
           \/ RefusedByProgram(u, r) \/ ApiOutOfReach(u, r)
           \/ RefusedByApi(u, r) \/ AcceptedByApi(u, r)
    PROVE  Priced(u)'
  <1>0. faults \in Nat
    BY DEF TypeInv, BackInv, BackTypes, StoreTypeOK
  <1>1. MayAsk(u, r) /\ UNCHANGED maker
    BY Zenon DEF RefusedByProgram, ApiOutOfReach, RefusedByApi, AcceptedByApi, Untouched
  <1>2. ~Unpaid(u)
    <2>1. CASE user[u].pc = "idle"
      BY <2>1 DEF OpenKey, Unpaid
    <2>2. CASE user[u].pc = "told" /\ user[u].code >= 400
      <3>1. user[u].code \in AnswerCodes
        BY DEF TypeInv, FrontInv, FrontTypeOK
      <3>2. ~(user[u].code < 400)
        BY <2>2, <3>1 DEF AnswerCodes
      <3> QED
        BY <2>2, <3>2 DEF OpenKey, Unpaid
    <2> QED
      BY <1>1, <2>1, <2>2 DEF MayAsk, UserAt
  <1>3. MadeBy(User(u))' \subseteq MadeBy(User(u))
    BY <1>1 DEF MadeBy, User
  <1>4. faults + Owed(u) <= faults' + Owed(u)'
    <2>1. PICK q : q = Owed(u)'
      OBVIOUS
    <2>2. q \in {0, 1}
      BY <2>1 DEF Owed
    <2>3. Owed(u) = 0
      BY <1>2 DEF Owed
    <2> QED
      BY <1>0, <2>1, <2>2, <2>3
  <1> QED
    BY <1>0, <1>3, <1>4, PaidUser

\* The API makes one row, which the answer or a failure pays for.
LEMMA WorkPriced ==
    ASSUME TypeInv, SubmitsOnly, NEW u \in Users, OpenKey(u), Priced(u),
           faults' \in {faults, faults + 1}, ApiWorks(u)
    PROVE  Priced(u)'
  <1>0. /\ faults \in Nat /\ u \in Callers /\ BackTypes
        /\ call[u] \in CallRecord /\ user[u] \in UserRecord
    BY FrontAssumption
    DEF TypeInv, BackInv, BackTypes, BackendTypeOK, StoreTypeOK, FrontInv, FrontTypeOK, UserRecord
  <1>1. /\ user[u].pc = "open" /\ CallStep(u)
        /\ Lookup(u) \/ Create(u) \/ Enqueue(u)
    BY <1>0, SubmittingStep DEF ApiWorks, UserAt
  <1>2. PICK who : who = User(u)
    OBVIOUS
  <1>3. MadeFor(who)
    BY <1>2 DEF ApiWorks
  <1>4. PICK p, q : p = Owed(u) /\ q = Owed(u)'
    OBVIOUS
  <1>5. p \in {0, 1} /\ q \in {0, 1}
    BY <1>4 DEF Owed
  <1>6. Unpaid(u) => call[u].pc = "enqueue"
    BY <1>1 DEF Unpaid
  <1>7. Unpaid(u)' => q = 1
    BY <1>4 DEF Owed
  <1>8. ~Unpaid(u) => p = 0
    BY <1>4 DEF Owed
  <1>9. ASSUME call'[u].pc = "idle", outcome'[u] = "ok" PROVE q = 1
    <2>1. PICK code \in Codes("submit", "ok") :
             user' = [user EXCEPT ![u].pc = "answered", ![u].code = code]
      BY <1>9 DEF ApiWorks
    <2>2. code = 201
      BY <2>1, SubmitCodes
    <2>3. user'[u].pc = "answered" /\ user'[u].code = 201
      BY <1>0, <2>1, <2>2 DEF TypeInv, FrontInv, FrontTypeOK, UserRecord
    <2> QED
      BY <1>7, <2>3 DEF Unpaid
  <1>10. \/ MadeBy(who)' \subseteq MadeBy(who) /\ faults + p <= faults' + q
         \/ (\E j : MadeBy(who)' \subseteq MadeBy(who) \cup {j}) /\ faults + p + 1 <= faults' + q
    <2>1. CASE Lookup(u)
      <3>1. jobs' = jobs /\ call[u].pc = "lookup"
        BY <1>0, <2>1, LookedUp
      <3>2. MadeBy(who)' \subseteq MadeBy(who)
        BY <1>3, <3>1, MadeByStep
      <3> QED
        BY <1>0, <1>5, <1>6, <1>8, <3>1, <3>2
    <2>2. CASE Enqueue(u)
      <3>1. /\ jobs' = jobs /\ call'[u].pc = "idle"
            /\ outcome'[u] = "ok" \/ faults' = faults + 1
        BY <1>0, <2>2, EnqueueCosts
      <3>2. MadeBy(who)' \subseteq MadeBy(who)
        BY <1>3, <3>1, MadeByStep
      <3> QED
        BY <1>0, <1>5, <1>9, <3>1, <3>2
    <2>3. CASE Create(u)
      <3>1. p = 0
        BY <1>0, <1>6, <1>8, <2>3, CreateCosts
      <3>2. PICK j \in Jobs :
              /\ \A k \in Jobs : k # j => jobs'[k] = jobs[k]
              /\ \/ call'[u].pc = "enqueue"
                 \/ faults' = faults + 1
                 \/ jobs' = jobs
        BY <1>0, <2>3, CreateCosts
      <3>3. /\ MadeBy(who)' \subseteq MadeBy(who) \cup {j}
            /\ jobs' = jobs => MadeBy(who)' \subseteq MadeBy(who)
        BY <1>3, <3>2, MadeByStep
      <3>4. call'[u].pc = "enqueue" => q = 1
        BY <1>7 DEF Unpaid
      <3> QED
        BY <1>0, <1>5, <3>1, <3>2, <3>3, <3>4
    <2> QED
      BY <1>1, <2>1, <2>2, <2>3
  <1> QED
    BY <1>0, <1>2, <1>4, <1>10, PaidUser

\* No program makes an error of a success that reaches it whole.
LEMMA WholeAnswer ==
    ASSUME NEW op, NEW code \in AnswerCodes, code < 400
    PROVE  Told(op, code, "whole") < 400
  BY DEF Told, Successes, AnswerCodes

\* An answer that does not come whole is a failure.
LEMMA AnswerPriced ==
    ASSUME TypeInv, NEW u \in Users, OpenKey(u), Priced(u), AnswerArrives(u)
    PROVE  Priced(u)'
  <1>0. faults \in Nat /\ user[u] \in UserRecord
    BY DEF TypeInv, BackInv, BackTypes, StoreTypeOK, FrontInv, FrontTypeOK, UserRecord
  <1>1. PICK delivery \in {"whole", "lost", "cut"} :
          /\ IF delivery = "whole" THEN UNCHANGED faults ELSE Fault("connection")
          /\ user' = [user EXCEPT ![u].pc = "told",
                          ![u].code = Told(user[u].request.op, user[u].code, delivery)]
    BY DEF AnswerArrives
  <1>2. /\ user'[u].pc = "told"
        /\ user'[u].code = Told(user[u].request.op, user[u].code, delivery)
    BY <1>0, <1>1 DEF TypeInv, FrontInv, FrontTypeOK, UserRecord
  <1>3. PICK p, q : p = Owed(u) /\ q = Owed(u)'
    OBVIOUS
  <1>4. p \in {0, 1} /\ q \in {0, 1}
    BY <1>3 DEF Owed
  <1>5. CASE delivery = "whole"
    <2>1. user[u].pc = "answered" /\ call[u].pc = "idle" /\ faults' = faults
      BY <1>1, <1>5 DEF AnswerArrives, UserAt, OpenKey
    <2>2. user[u].code < 400 => user'[u].code < 400
      BY <1>0, <1>2, <1>5, WholeAnswer DEF UserRecord
    <2>3. Unpaid(u) => Unpaid(u)'
      BY <1>2, <2>1, <2>2 DEF Unpaid
    <2>4. p <= q
      BY <1>3, <2>3 DEF Owed
    <2> QED
      BY <1>0, <1>3, <1>4, <2>1, <2>4, PaidUser DEF AnswerArrives, Untouched, MadeBy, User
  <1>6. CASE delivery # "whole"
    <2>1. faults' = faults + 1
      BY <1>1, <1>6 DEF Fault
    <2> QED
      BY <1>0, <1>3, <1>4, <2>1, PaidUser DEF AnswerArrives, Untouched, MadeBy, User
  <1> QED
    BY <1>5, <1>6

\* Steps that are not the user's own.
LEMMA OthersPriced ==
    ASSUME TypeInv, NEW u \in Users, Priced(u), faults' \in {faults, faults + 1},
           user'[u] = user[u], call'[u] = call[u],
           NEW v, v # User(u), MadeFor(v) \/ UNCHANGED maker
    PROVE  Priced(u)'
  <1>0. faults \in Nat
    BY DEF TypeInv, BackInv, BackTypes, StoreTypeOK
  <1>1. PICK who : who = User(u)
    OBVIOUS
  <1>2. MadeBy(who)' \subseteq MadeBy(who)
    BY <1>1, MadeByStep
  <1>3. PICK p : p = Owed(u) /\ p \in {0, 1}
    BY DEF Owed
  <1>4. Owed(u)' = p
    BY <1>3 DEF Owed, Unpaid
  <1> QED
    BY <1>0, <1>1, <1>2, <1>3, <1>4, PaidUser

LEMMA PricedStep ==
    ASSUME TypeInv, SubmitsOnly, QueuedInv, PricedInv, [IntakeNext]_intakeVars
    PROVE  PricedInv'
  <1>0. faults \in Nat /\ faults' \in {faults, faults + 1}
    BY FaultsStep
  <1> SUFFICES ASSUME NEW u \in Users
               PROVE  Priced(u)'
    BY DEF PricedInv
  <1>1. OpenKey(u) /\ Priced(u)
    BY DEF QueuedInv, PricedInv
  <1>2. u \in Callers /\ u # Ingester /\ call \in [Callers -> CallRecord] /\ BackTypes
    BY FrontAssumption, IntakeAssumption DEF TypeInv, BackInv, BackTypes, BackendTypeOK
  <1>3. ASSUME user'[u] = user[u], call'[u] = call[u],
               NEW v, v # User(u), MadeFor(v) \/ UNCHANGED maker
        PROVE  Priced(u)'
    BY <1>0, <1>1, <1>3, OthersPriced
  <1>4. Scheduler # User(u) /\ \A n : Message(n) # User(u)
    BY NamesApart
  <1>5. CASE UserStep
    <2>1. PICK v \in Users : FrontStep(v)
      BY <1>5 DEF UserStep
    <2>2. CASE v # u
      <3>1. User(v) # User(u)
        BY <2>2, NamesApart
      <3>2. user'[u] = user[u] /\ call'[u] = call[u]
        BY <2>1, <2>2, UsersApart
      <3>3. MadeFor(User(v)) \/ UNCHANGED maker
        BY <2>1, Zenon
        DEF FrontStep, RefusedByProgram, ApiOutOfReach, RefusedByApi, AcceptedByApi, ApiWorks,
            AnswerArrives, Untouched
      <3>4. PICK w : w = User(v)
        OBVIOUS
      <3>5. w # User(u) /\ (MadeFor(w) \/ UNCHANGED maker)
        BY <3>1, <3>3, <3>4
      <3> QED
        BY <1>3, <3>2, <3>5
    <2>3. ASSUME FrontStep(u)
          PROVE  Priced(u)'
      BY <1>0, <1>1, <2>3, AskedPriced, WorkPriced, AnswerPriced DEF FrontStep
    <2> QED
      BY <2>1, <2>2, <2>3
  <1>6. CASE IngestStep
    <2>0. Ingester \in Callers /\ user'[u] = user[u]
      BY <1>6, IntakeAssumption DEF IngestStep
    <2>1. CASE IngestAlone
      BY <1>3, <1>4, <2>0, <2>1 DEF IngestAlone, apiVars
    <2>2. CASE BeginSubmit
      <3>1. PICK new : call' = [call EXCEPT ![Ingester] = new]
        BY <2>2 DEF BeginSubmit, Submit
      <3> QED
        BY <1>2, <1>3, <1>4, <2>0, <2>2, <3>1 DEF BeginSubmit
    <2>3. CASE SubmitGoesOn
      <3>1. call'[u] = call[u]
        BY <1>2, <2>0, <2>3, OwnCall DEF SubmitGoesOn
      <3>2. PICK w : w = Message(hand)
        OBVIOUS
      <3>3. MadeFor(w) /\ w # User(u)
        BY <1>4, <2>3, <3>2 DEF SubmitGoesOn
      <3> QED
        BY <1>3, <2>0, <3>1, <3>3
    <2> QED
      BY <1>6, <2>1, <2>2, <2>3 DEF IngestStep
  <1>7. CASE SchedulerStep
    BY <1>3, <1>4, <1>7 DEF SchedulerStep, apiVars
  <1>8. CASE ApiRestart
    <2>1. faults' = faults + 1 /\ UNCHANGED maker
      BY <1>8 DEF ApiRestart, ApiCrash, Fault
    <2>2. MadeBy(User(u))' \subseteq MadeBy(User(u))
      BY <2>1 DEF MadeBy, User
    <2>3. PICK p, q : p = Owed(u) /\ q = Owed(u)'
      OBVIOUS
    <2>4. p \in {0, 1} /\ q \in {0, 1}
      BY <2>3 DEF Owed
    <2> QED
      BY <1>0, <1>1, <2>1, <2>2, <2>3, <2>4, PaidUser
  <1>9. CASE UNCHANGED intakeVars
    BY <1>3, <1>4, <1>9 DEF intakeVars, frontVars, apiVars
  <1> QED
    BY <1>5, <1>6, <1>7, <1>8, <1>9 DEF IntakeNext

LEMMA PricedInit == IntakeInit => PricedInv
  <1> SUFFICES ASSUME IntakeInit, NEW u \in Users
               PROVE  Priced(u)
    BY DEF PricedInv
  <1>1. MadeBy(User(u)) = {}
    BY NamesApart DEF IntakeInit, FrontInit, MadeBy
  <1>2. faults = 0 /\ Owed(u) \in {0, 1}
    BY DEF IntakeInit, StoreInit, Owed
  <1> QED
    BY <1>1, <1>2, FS_EmptySet DEF Priced

LEMMA PricedAlways == IntakeSpec => [](TypeInv /\ SubmitsOnly /\ QueuedInv /\ PricedInv)
  <1>1. /\ TypeInv /\ SubmitsOnly /\ QueuedInv /\ PricedInv /\ [IntakeNext]_intakeVars
           => (TypeInv /\ SubmitsOnly /\ QueuedInv /\ PricedInv)'
    BY TypesStep, StepGrows, QueuedStep, PricedStep
  <1> QED
    BY <1>1, TypesInit, OnceInit, QueuedInit, PricedInit, PTL DEF IntakeSpec

\* What a user asks for once is made once, and once more for every failure at
\* most, whatever program stands between the user and the API: a user is told of
\* an error, and asks again, only after a failure or when no row was made.
THEOREM OneJobUpToFailures == IntakeSpec => []OneJobPerIntent
  <1>1. TypeInv /\ PricedInv => OneJobPerIntent
    <2> SUFFICES ASSUME TypeInv, PricedInv, NEW u \in Users
                 PROVE  Cardinality(MadeBy(User(u))) <= 1 + faults
      BY DEF OneJobPerIntent
    <2>1. faults \in Nat /\ Owed(u) \in {0, 1}
      BY DEF TypeInv, BackInv, BackTypes, StoreTypeOK, Owed
    <2>2. Cardinality(MadeBy(User(u))) \in Nat
      BY FS_CardinalityType DEF PricedInv, Priced
    <2> QED
      BY <2>1, <2>2 DEF PricedInv, Priced
  <1> QED
    BY <1>1, PricedAlways, PTL

----------------------------------------------------------------------------
\* The jobs between their row and their message: the scheduler's, and the one of
\* the message that the ingest consumer submits; no other caller has any.
FakeHand == fakeJob # NoFake => jobs[fakeJob] # NoRow /\ maker[fakeJob] = Scheduler

RestIdle == \A c \in Callers : c \notin Users /\ c # Ingester => call[c].pc = "idle"

IngestHand ==
    /\ call[Ingester].pc = "create" => call[Ingester].key = NoKey
    /\ call[Ingester].pc = "enqueue" =>
          /\ jobs[call[Ingester].job] # NoRow
          /\ jobs[call[Ingester].job].status = FirstStatus(call[Ingester].runAt)
          /\ maker[call[Ingester].job] = Message(hand)

HandInv == FakeHand /\ RestIdle /\ IngestHand

\* A step of a user is no step of another request.
LEMMA OthersCall ==
    ASSUME TypeInv, NEW u \in Users, FrontStep(u), NEW c \in Callers, c # u
    PROVE  call'[c] = call[c]
  <1>1. u \in Callers /\ BackTypes /\ call \in [Callers -> CallRecord]
    BY FrontAssumption DEF TypeInv, BackInv, BackTypes, BackendTypeOK
  <1>2. CASE Untouched
    BY <1>2 DEF Untouched, apiVars
  <1>3. CASE ApiWorks(u)
    BY <1>1, <1>3, OwnCall DEF ApiWorks
  <1>4. CASE \E r \in Requests : AcceptedByApi(u, r)
    <2>1. PICK new : call' = [call EXCEPT ![u] = new]
      BY <1>4 DEF AcceptedByApi, Submit
    <2> QED
      BY <1>1, <2>1
  <1> QED
    BY <1>2, <1>3, <1>4
    DEF FrontStep, RefusedByProgram, ApiOutOfReach, RefusedByApi, AnswerArrives

LEMMA FakeHandStep ==
    ASSUME TypeInv, SubmitsOnly, FakeHand, [IntakeNext]_intakeVars
    PROVE  FakeHand'
  <1>0. Grows /\ fakeJob \in Jobs \cup {NoFake}
    BY StepGrows DEF TypeInv, FakeTypeOK
  <1>1. CASE fakeJob' = fakeJob \/ fakeJob' = NoFake
    BY <1>0, <1>1 DEF FakeHand, Grows
  <1>2. CASE ~(fakeJob' = fakeJob \/ fakeJob' = NoFake)
    <2>1. SchedulerStep
      BY <1>2 DEF IntakeNext, UserStep, IngestStep, ApiRestart, intakeVars, fakeVars
    <2>2. PICK j \in Jobs : FakeCreate(j)
      BY <1>2, <2>1, Zenon DEF SchedulerStep, RunRound, FakeEnqueue, NextType, SchedulerCrash
    <2>3. /\ jobs' = Inserted(j, FakeWork, "pending", 0, NoKey) /\ fakeJob' = j
          /\ jobs[j] = NoRow /\ MadeFor(Scheduler)
      <3>1. jobs' = Inserted(j, FakeWork, "pending", 0, NoKey) /\ fakeJob' = j
        BY <1>2, <2>2 DEF FakeCreate, NextType
      <3>2. PICK k \in Jobs : Fresh(k) /\ FakeCreate(k)
        BY <1>2, <2>1, Zenon DEF SchedulerStep, RunRound, FakeEnqueue, NextType, SchedulerCrash
      <3>3. k = j
        BY <1>2, <3>1, <3>2 DEF FakeCreate, NextType
      <3> QED
        BY <2>1, <3>1, <3>2, <3>3 DEF Fresh, SchedulerStep
    <2>4. FakeWork \in Work
      <3>1. todo # << >> /\ todo \in Seq(Types)
        BY <2>2 DEF FakeCreate, TypeInv, FakeTypeOK
      <3>2. Head(todo) \in Types
        BY <3>1, HeadTailProperties
      <3> QED
        BY <3>2, FakeAssumption DEF FakeWork, Work
    <2>5. jobs'[j] # NoRow
      <3>1. jobs'[j] = [work |-> FakeWork, status |-> "pending", attempt |-> 0,
                        runAt |-> 0, key |-> NoKey]
        BY <2>3 DEF Inserted, TypeInv, BackInv, BackTypes, StoreTypeOK
      <3>2. jobs'[j] \in JobRecord
        BY <2>4, <3>1 DEF JobRecord, Statuses
      <3> QED
        BY <3>2, StoreAssumption
    <2> QED
      BY <2>3, <2>5 DEF FakeHand, MadeFor
  <1> QED
    BY <1>1, <1>2

LEMMA RestIdleStep ==
    ASSUME TypeInv, RestIdle, [IntakeNext]_intakeVars
    PROVE  RestIdle'
  <1> SUFFICES ASSUME NEW c \in Callers, c \notin Users, c # Ingester
               PROVE  call'[c].pc = "idle"
    BY DEF RestIdle
  <1>1. Ingester \in Callers /\ call \in [Callers -> CallRecord] /\ BackTypes
    BY IntakeAssumption DEF TypeInv, BackInv, BackTypes, BackendTypeOK
  <1>2. call[c].pc = "idle"
    BY DEF RestIdle
  <1>3. CASE UserStep
    BY <1>2, <1>3, OthersCall DEF UserStep
  <1>4. CASE IngestStep
    <2>1. CASE IngestAlone
      BY <1>2, <2>1 DEF IngestAlone, apiVars
    <2>2. CASE BeginSubmit
      BY <1>1, <1>2, <2>2 DEF BeginSubmit, Submit
    <2>3. CASE SubmitGoesOn
      BY <1>1, <1>2, <2>3, OwnCall DEF SubmitGoesOn
    <2> QED
      BY <1>4, <2>1, <2>2, <2>3 DEF IngestStep
  <1>5. CASE SchedulerStep \/ UNCHANGED intakeVars
    BY <1>2, <1>5 DEF SchedulerStep, intakeVars, apiVars
  <1>6. CASE ApiRestart
    BY <1>6 DEF ApiRestart, ApiCrash, NoCall
  <1> QED
    BY <1>3, <1>4, <1>5, <1>6 DEF IntakeNext

LEMMA IngestHandStep ==
    ASSUME TypeInv, SubmitsOnly, OnceInv, IngestHand, [IntakeNext]_intakeVars
    PROVE  IngestHand'
  <1>0. /\ Ingester \in Callers /\ Ingester \notin Users /\ Grows
        /\ call \in [Callers -> CallRecord] /\ BackTypes
    BY IntakeAssumption, StepGrows DEF TypeInv, BackInv, BackTypes, BackendTypeOK
  <1>1. ASSUME call'[Ingester] = call[Ingester], hand' = hand
        PROVE  IngestHand'
    <2>1. call[Ingester].pc = "enqueue" => call[Ingester].job \in Jobs
      BY <1>0 DEF BackTypes, CallJobs
    <2> QED
      BY <1>0, <1>1, <2>1 DEF IngestHand, Grows, Message
  <1>2. CASE UserStep
    BY <1>0, <1>1, <1>2, OthersCall DEF UserStep, ingestVars
  <1>3. CASE IngestStep
    <2>1. CASE IngestAlone /\ ~SubmitGoesOn /\ ~BeginSubmit
      <3>1. call' = call /\ hand' = hand
        BY <1>3, <2>1
        DEF IngestStep, IngestAlone, apiVars, IngestDrop, IngestSkip, IngestRebalance
      <3> QED
        BY <1>1, <3>1
    <2>2. CASE BeginSubmit
      BY <1>0, <2>2 DEF BeginSubmit, Submit, IngestHand
    <2>3. CASE SubmitGoesOn
      <3>1. /\ Create(Ingester) \/ Enqueue(Ingester)
            /\ MadeFor(Message(hand))
            /\ call'[Ingester].pc = "idle" \/ UNCHANGED ingestVars
        BY <1>0, <2>3, SubmittingStep, LookedUp DEF OnceInv, InHandOnce, SubmitGoesOn
      <3>2. CASE call'[Ingester].pc = "idle"
        BY <3>2 DEF IngestHand
      <3>3. CASE call'[Ingester].pc # "idle"
        <4>1. Create(Ingester)
          BY <1>0, <3>1, <3>3, Enqueued
        <4>2. PICK j \in Jobs :
                /\ jobs[j] = NoRow
                /\ call'[Ingester] = [call[Ingester] EXCEPT !.pc = "enqueue", !.job = j]
                /\ jobs'[j] # NoRow /\ jobs'[j].status = FirstStatus(call[Ingester].runAt)
          BY <1>0, <3>3, <4>1, Created
        <4>3. /\ call'[Ingester].pc = "enqueue" /\ call'[Ingester].job = j
              /\ call'[Ingester].runAt = call[Ingester].runAt
          BY <1>0, <4>2 DEF CallRecord
        <4>4. maker'[j] = Message(hand) /\ hand' = hand
          BY <3>1, <3>3, <4>2 DEF MadeFor, ingestVars
        <4>5. PICK m : m = hand
          OBVIOUS
        <4>6. maker'[j] = Message(m) /\ hand' = m
          BY <4>4, <4>5
        <4> QED
          BY <4>2, <4>3, <4>6 DEF IngestHand
      <3> QED
        BY <3>2, <3>3
    <2> QED
      BY <1>3, <2>1, <2>2, <2>3 DEF IngestStep
  <1>4. CASE SchedulerStep \/ UNCHANGED intakeVars
    BY <1>1, <1>4 DEF SchedulerStep, intakeVars, apiVars, ingestVars
  <1>5. CASE ApiRestart
    <2>1. call'[Ingester].pc = "idle"
      BY <1>0, <1>5 DEF ApiRestart, ApiCrash, NoCall
    <2> QED
      BY <2>1 DEF IngestHand
  <1> QED
    BY <1>2, <1>3, <1>4, <1>5 DEF IntakeNext

LEMMA HandInit == IntakeInit => HandInv
  <1> SUFFICES ASSUME IntakeInit PROVE HandInv
    OBVIOUS
  <1>1. fakeJob = NoFake /\ \A c \in Callers : call[c].pc = "idle"
    BY DEF IntakeInit, FakeInit, BackendInit, NoCall
  <1> QED
    BY <1>1, IntakeAssumption DEF HandInv, FakeHand, RestIdle, IngestHand

----------------------------------------------------------------------------
\* A job whose request succeeds is sent, or the promoter's.
LEMMA OkDurable ==
    ASSUME BackTypes, Grows, NEW c \in Callers, Enqueue(c), outcome'[c] = "ok",
           jobs[call[c].job] # NoRow, jobs[call[c].job].status = FirstStatus(call[c].runAt)
    PROVE  \A j \in Jobs : j = call[c].job => Durable(j)'
  <1> SUFFICES ASSUME NEW j \in Jobs, j = call[c].job
               PROVE  Durable(j)'
    OBVIOUS
  <1>0. call[c] \in CallRecord
    BY DEF BackTypes, BackendTypeOK
  <1>1. j = call[c].job
    OBVIOUS
  <1>2. call[c].runAt > now \/ \E i \in DOMAIN topic' : topic'[i].job = j
    BY <1>1, Enqueued
  <1>3. call[c].runAt > now => FirstStatus(call[c].runAt) = "scheduled"
    BY <1>0, ClockAssumption DEF FirstStatus, CallRecord, BackTypes, ClockTypeOK
  <1>4. jobs'[j] = jobs[j]
    BY <1>1 DEF Grows
  <1>5. jobs'[j] # NoRow /\ (jobs'[j].status = "scheduled" \/ \E i \in DOMAIN topic' : topic'[i].job = j)
    BY <1>1, <1>2, <1>3, <1>4
  <1> QED
    BY <1>5 DEF Durable, Sent

\* What a step may do to the rows of one origin: a row that is new, or whose
\* request ends, is durable or in hand, or the one that a failure costs.
Spares(who, x) ==
    \A j \in Jobs :
        \/ jobs[j] = NoRow /\ jobs'[j] # NoRow /\ maker'[j] = who
        \/ InHand(j) /\ maker[j] = who
        => Durable(j)' \/ InHand(j)' \/ (j = x /\ faults' = faults + 1)

Bounded(who) == IsFiniteSet(Orphans(who)) /\ Cardinality(Orphans(who)) <= faults

LEMMA PaidByFault ==
    ASSUME NEW S, IsFiniteSet(S), NEW f \in Nat, Cardinality(S) <= f, NEW g \in {f, f + 1},
           NEW x, NEW T, T \subseteq S \cup {x}, g = f => T \subseteq S
    PROVE  IsFiniteSet(T) /\ Cardinality(T) <= g
  <1>1. /\ IsFiniteSet(T) /\ Cardinality(S) \in Nat /\ Cardinality(T) \in Nat
        /\ Cardinality(T) <= Cardinality(S) + 1
        /\ (T \subseteq S => Cardinality(T) <= Cardinality(S))
    BY OneMore
  <1> QED
    BY <1>1

LEMMA SparesBounds ==
    ASSUME Grows, NEW v, MadeFor(v) \/ UNCHANGED maker, faults \in Nat,
           faults' \in {faults, faults + 1},
           NEW who, Bounded(who), \E x : Spares(who, x)
    PROVE  Bounded(who)'
  <1>1. PICK x : Spares(who, x)
    OBVIOUS
  <1>2. ASSUME NEW j \in Jobs, (j \in Orphans(who))', j \notin Orphans(who)
        PROVE  j = x /\ faults' = faults + 1
    <2>1. maker'[j] = who /\ ~Durable(j)' /\ ~InHand(j)'
      BY <1>2 DEF Orphans, MadeBy
    <2>2. maker'[j] = maker[j] \/ (jobs[j] = NoRow /\ jobs'[j] # NoRow)
      BY DEF MadeFor
    <2>3. CASE jobs[j] = NoRow /\ jobs'[j] # NoRow
      BY <1>1, <2>1, <2>3 DEF Spares
    <2>4. CASE maker[j] = who
      <3>1. Durable(j) => Durable(j)'
        BY DEF Durable, Grows, Sent
      <3>2. InHand(j)
        BY <1>2, <2>1, <2>4, <3>1 DEF Orphans, MadeBy
      <3> QED
        BY <1>1, <2>1, <2>4, <3>2 DEF Spares
    <2> QED
      BY <2>1, <2>2, <2>3, <2>4
  <1>3. PICK S, T : S = Orphans(who) /\ T = Orphans(who)'
    OBVIOUS
  <1>4. \A j \in T : j \in Jobs
    BY <1>3 DEF Orphans, MadeBy
  <1>5. T \subseteq S \cup {x} /\ (faults' = faults => T \subseteq S)
    <2>1. ASSUME NEW j \in T, j \notin S
          PROVE  j = x /\ faults' = faults + 1
      BY <1>2, <1>3, <1>4, <2>1
    <2> QED
      BY <2>1
  <1>6. IsFiniteSet(S) /\ Cardinality(S) <= faults
    BY <1>3 DEF Bounded
  <1>7. IsFiniteSet(T) /\ Cardinality(T) <= faults'
    BY <1>5, <1>6, PaidByFault
  <1> QED
    BY <1>3, <1>7 DEF Bounded

\* Who has what in hand.
LEMMA WhoseHand ==
    ASSUME TypeInv, QueuedInv, HandInv, NEW j \in Jobs, InHand(j)
    PROVE  /\ \A u \in Users : maker[j] = User(u) => call[u].pc = "enqueue" /\ call[u].job = j
           /\ maker[j] = Scheduler => fakeJob = j
  <1>1. CASE fakeJob = j
    <2>1. maker[j] = Scheduler
      BY <1>1, FakeAssumption DEF HandInv, FakeHand
    <2> QED
      BY <1>1, <2>1, NamesApart
  <1>2. ASSUME NEW c \in Callers, call[c].job = j, call[c].pc = "enqueue"
        PROVE  /\ \A u \in Users : maker[j] = User(u) => call[u].pc = "enqueue" /\ call[u].job = j
               /\ maker[j] # Scheduler
    <2>1. CASE c \in Users
      <3>1. maker[j] = User(c)
        BY <1>2, <2>1 DEF QueuedInv, Owns
      <3>2. \A u \in Users : User(u) = User(c) => u = c
        BY NamesApart
      <3>3. User(c) # Scheduler
        BY NamesApart
      <3> QED
        BY <1>2, <3>1, <3>2, <3>3
    <2>2. CASE c = Ingester
      <3>1. maker[j] = Message(hand)
        BY <1>2, <2>2 DEF HandInv, IngestHand
      <3>2. PICK m : m = hand
        OBVIOUS
      <3>3. Message(m) # Scheduler /\ \A u : User(u) # Message(m)
        BY NamesApart
      <3> QED
        BY <3>1, <3>2, <3>3
    <2>3. CASE c \notin Users /\ c # Ingester
      BY <1>2, <2>3 DEF HandInv, RestIdle
    <2> QED
      BY <2>1, <2>2, <2>3
  <1> QED
    BY <1>1, <1>2 DEF InHand

\* A step that is not the user's leaves the user's job in hand.
LEMMA OthersSpare ==
    ASSUME TypeInv, QueuedInv, HandInv, NEW u \in Users, call'[u] = call[u],
           UNCHANGED jobs \/ \E v : v # User(u) /\ MadeFor(v),
           NEW x
    PROVE  Spares(User(u), x)
  <1> SUFFICES ASSUME NEW j \in Jobs,
                      \/ jobs[j] = NoRow /\ jobs'[j] # NoRow /\ maker'[j] = User(u)
                      \/ InHand(j) /\ maker[j] = User(u)
               PROVE  InHand(j)'
    BY DEF Spares
  <1>1. ~(jobs[j] = NoRow /\ jobs'[j] # NoRow /\ maker'[j] = User(u))
    BY DEF MadeFor
  <1>2. call[u].pc = "enqueue" /\ call[u].job = j
    BY <1>1, WhoseHand
  <1>3. u \in Callers /\ call'[u].pc = "enqueue" /\ call'[u].job = j
    BY <1>2, FrontAssumption
  <1> QED
    BY <1>3 DEF InHand

\* The user's own request: its row is in hand, or a failure; what was in hand
\* is durable, or a failure.
LEMMA OwnSpare ==
    ASSUME TypeInv, SubmitsOnly, QueuedInv, HandInv, Grows, NEW u \in Users, ApiWorks(u)
    PROVE  \E x : Spares(User(u), x)
  <1>0. u \in Callers /\ BackTypes /\ Owns(u)
    BY FrontAssumption DEF TypeInv, BackInv, QueuedInv
  <1>1. Lookup(u) \/ Create(u) \/ Enqueue(u)
    BY <1>0, SubmittingStep DEF ApiWorks
  <1>2. PICK who : who = User(u)
    OBVIOUS
  <1>3. \A j \in Jobs : InHand(j) /\ maker[j] = who => call[u].pc = "enqueue" /\ call[u].job = j
    BY <1>2, WhoseHand
  <1>4. CASE Lookup(u)
    <2>1. jobs' = jobs /\ call[u].pc = "lookup"
      BY <1>0, <1>4, LookedUp
    <2>2. Spares(who, u)
      BY <1>3, <2>1 DEF Spares
    <2> QED
      BY <1>2, <2>2
  <1>5. CASE Create(u)
    <2>1. call[u].pc = "create"
      BY <1>0, <1>5, CreateCosts
    <2>2. PICK i \in Jobs :
            /\ \A k \in Jobs : k # i => jobs'[k] = jobs[k]
            /\ \/ call'[u].pc = "enqueue" /\ call'[u].job = i
               \/ faults' = faults + 1
               \/ jobs' = jobs
      BY <1>0, <1>5, CreateCosts
    <2>3. call'[u].pc = "enqueue" /\ call'[u].job = i => InHand(i)'
      BY <1>0 DEF InHand
    <2>4. Spares(who, i)
      <3> SUFFICES ASSUME NEW j \in Jobs,
                          \/ jobs[j] = NoRow /\ jobs'[j] # NoRow
                          \/ InHand(j) /\ maker[j] = who
                   PROVE  InHand(j)' \/ (j = i /\ faults' = faults + 1)
        BY DEF Spares
      <3>1. jobs[j] = NoRow /\ jobs'[j] # NoRow
        BY <1>3, <2>1
      <3>2. j = i
        BY <2>2, <3>1
      <3> QED
        BY <2>2, <2>3, <3>1, <3>2
    <2> QED
      BY <1>2, <2>4
  <1>6. CASE Enqueue(u)
    <2>1. /\ jobs' = jobs /\ call[u].pc = "enqueue"
          /\ outcome'[u] = "ok" \/ faults' = faults + 1
      BY <1>0, <1>6, EnqueueCosts
    <2>2. outcome'[u] = "ok" => \A j \in Jobs : j = call[u].job => Durable(j)'
      BY <1>0, <1>6, <2>1, OkDurable DEF Owns
    <2>3. PICK x : x = call[u].job
      OBVIOUS
    <2>4. Spares(who, x)
      BY <1>3, <2>1, <2>2, <2>3 DEF Spares
    <2> QED
      BY <1>2, <2>4
  <1> QED
    BY <1>1, <1>4, <1>5, <1>6

LEMMA UserSpares ==
    ASSUME TypeInv, SubmitsOnly, QueuedInv, HandInv, [IntakeNext]_intakeVars, NEW u \in Users
    PROVE  \E x : Spares(User(u), x)
  <1>0. /\ u \in Callers /\ u # Ingester /\ call \in [Callers -> CallRecord] /\ BackTypes
        /\ Grows /\ OpenKey(u)
    BY FrontAssumption, IntakeAssumption, StepGrows
    DEF TypeInv, BackInv, BackTypes, BackendTypeOK, QueuedInv
  <1>1. ASSUME call'[u] = call[u], UNCHANGED jobs \/ \E v : v # User(u) /\ MadeFor(v)
        PROVE  \E x : Spares(User(u), x)
    <2>1. \A x : Spares(User(u), x)
      BY <1>1, OthersSpare
    <2> QED
      BY <2>1
  <1>2. Scheduler # User(u) /\ \A n : Message(n) # User(u)
    BY NamesApart
  <1>3. CASE UserStep
    <2>1. PICK v \in Users : FrontStep(v)
      BY <1>3 DEF UserStep
    <2>2. CASE ~ApiWorks(v) /\ ~\E r \in Requests : AcceptedByApi(v, r)
      <3>1. UNCHANGED jobs /\ call' = call
        <4>1. Untouched
          BY Zenon, <2>1, <2>2
          DEF FrontStep, RefusedByProgram, ApiOutOfReach, RefusedByApi, AnswerArrives
        <4> QED
          BY <4>1 DEF Untouched, storeVars, apiVars
      <3> QED
        BY <1>1, <3>1
    <2>3. ASSUME NEW r \in Requests, AcceptedByApi(v, r)
          PROVE  \E x : Spares(User(u), x)
      <3>1. UNCHANGED jobs
        BY <2>3 DEF AcceptedByApi, Submit, storeVars
      <3>2. CASE v # u
        BY <1>0, <1>1, <2>1, <3>1, <3>2, UsersApart
      <3>3. CASE v = u
        <4>1. call[u].pc = "idle"
          BY <2>3, <3>3 DEF AcceptedByApi, Submit, CallAt
        <4>2. \A j \in Jobs : InHand(j) => maker[j] # User(u)
          BY <4>1, WhoseHand
        <4>3. Spares(User(u), u)
          BY <3>1, <4>2 DEF Spares
        <4> QED
          BY <4>3
      <3> QED
        BY <3>2, <3>3
    <2>4. CASE ApiWorks(v)
      <3>1. CASE v # u
        <4>1. User(v) # User(u) /\ MadeFor(User(v))
          BY <2>4, <3>1, NamesApart DEF ApiWorks
        <4>2. \E w : w # User(u) /\ MadeFor(w)
          BY <4>1
        <4> QED
          BY <1>0, <1>1, <2>1, <3>1, <4>2, UsersApart
      <3>2. CASE v = u
        BY <1>0, <2>4, <3>2, OwnSpare
      <3> QED
        BY <3>1, <3>2
    <2> QED
      BY <2>2, <2>3, <2>4
  <1>4. CASE IngestStep
    <2>0. Ingester \in Callers
      BY IntakeAssumption
    <2>1. CASE IngestAlone
      BY <1>1, <2>1 DEF IngestAlone, apiVars, storeVars
    <2>2. CASE BeginSubmit
      <3>1. UNCHANGED jobs /\ \E new : call' = [call EXCEPT ![Ingester] = new]
        BY <2>2 DEF BeginSubmit, Submit, storeVars
      <3> QED
        BY <1>0, <1>1, <2>0, <3>1
    <2>3. CASE SubmitGoesOn
      <3>1. call'[u] = call[u]
        BY <1>0, <2>0, <2>3, OwnCall DEF SubmitGoesOn
      <3>2. \E w : w # User(u) /\ MadeFor(w)
        BY <1>2, <2>3 DEF SubmitGoesOn
      <3> QED
        BY <1>1, <3>1, <3>2
    <2> QED
      BY <1>4, <2>1, <2>2, <2>3 DEF IngestStep
  <1>5. CASE SchedulerStep
    BY <1>1, <1>2, <1>5 DEF SchedulerStep, apiVars
  <1>6. CASE ApiRestart
    <2>1. faults' = faults + 1 /\ UNCHANGED jobs
      BY <1>6 DEF ApiRestart, ApiCrash, Fault, storeVars
    <2>2. \A j \in Jobs : InHand(j) /\ maker[j] = User(u) => j = call[u].job
      BY WhoseHand
    <2>3. Spares(User(u), call[u].job)
      BY <2>1, <2>2 DEF Spares
    <2> QED
      BY <2>3
  <1>7. CASE UNCHANGED intakeVars
    BY <1>1, <1>7 DEF intakeVars, apiVars, storeVars
  <1> QED
    BY <1>3, <1>4, <1>5, <1>6, <1>7 DEF IntakeNext

\* The scheduler's own jobs.
LEMMA SchedulerSpares ==
    ASSUME TypeInv, SubmitsOnly, QueuedInv, HandInv, [IntakeNext]_intakeVars
    PROVE  \E x : Spares(Scheduler, x)
  <1>0. Grows /\ BackTypes /\ fakeJob \in Jobs \cup {NoFake} /\ NoFake \notin Jobs
    BY StepGrows, FakeAssumption DEF TypeInv, BackInv, FakeTypeOK
  <1>1. \A j \in Jobs : InHand(j) /\ maker[j] = Scheduler => fakeJob = j
    BY WhoseHand
  <1>2. ASSUME fakeJob' = fakeJob, UNCHANGED jobs \/ \E v : v # Scheduler /\ MadeFor(v)
        PROVE  \E x : Spares(Scheduler, x)
    <2> SUFFICES Spares(Scheduler, 0)
      OBVIOUS
    <2> SUFFICES ASSUME NEW j \in Jobs,
                        \/ jobs[j] = NoRow /\ jobs'[j] # NoRow /\ maker'[j] = Scheduler
                        \/ InHand(j) /\ maker[j] = Scheduler
                 PROVE  InHand(j)'
      BY DEF Spares
    <2>1. ~(jobs[j] = NoRow /\ jobs'[j] # NoRow /\ maker'[j] = Scheduler)
      BY <1>2 DEF MadeFor
    <2>2. fakeJob' = j
      BY <1>1, <1>2, <2>1
    <2> QED
      BY <2>2 DEF InHand
  <1>3. CASE UserStep
    <2>1. PICK v \in Users : FrontStep(v) /\ UNCHANGED fakeVars
      BY <1>3 DEF UserStep
    <2>2. User(v) # Scheduler
      BY NamesApart
    <2>3. UNCHANGED jobs \/ MadeFor(User(v))
      <3>1. CASE \E r \in Requests : AcceptedByApi(v, r)
        BY <3>1 DEF AcceptedByApi, Submit, storeVars
      <3>2. CASE ~\E r \in Requests : AcceptedByApi(v, r)
        <4>1. Untouched \/ ApiWorks(v)
          BY Zenon, <2>1, <3>2
          DEF FrontStep, RefusedByProgram, ApiOutOfReach, RefusedByApi, AnswerArrives
        <4> QED
          BY <4>1 DEF Untouched, storeVars, ApiWorks
      <3> QED
        BY <3>1, <3>2
    <2> QED
      BY <1>2, <2>1, <2>2, <2>3 DEF fakeVars
  <1>4. CASE IngestStep
    <2>1. CASE IngestAlone \/ BeginSubmit
      BY <1>2, <1>4, <2>1 DEF IngestStep, IngestAlone, BeginSubmit, Submit, storeVars, fakeVars
    <2>2. CASE SubmitGoesOn
      <3>1. Message(hand) # Scheduler
        BY NamesApart
      <3> QED
        BY <1>2, <1>4, <2>2, <3>1 DEF IngestStep, SubmitGoesOn, fakeVars
    <2> QED
      BY <1>4, <2>1, <2>2 DEF IngestStep
  <1>5. CASE SchedulerStep
    <2>1. CASE RunRound
      BY <1>2, <2>1 DEF RunRound, storeVars
    <2>2. CASE SchedulerCrash
      <3>1. faults' = faults + 1 /\ jobs' = jobs
        BY <2>2 DEF SchedulerCrash, Fault, storeVars
      <3>2. Spares(Scheduler, fakeJob)
        BY <1>1, <3>1 DEF Spares
      <3> QED
        BY <3>2
    <2>3. CASE FakeEnqueue
      <3>1. PICK m : /\ m = Request(fakeJob, FakeWork, 0, FakeRetries)
                     /\ EnqueueOk(m) \/ EnqueueError(m)
        BY <2>3 DEF FakeEnqueue
      <3>2. fakeJob \in Jobs /\ jobs' = jobs
        BY <1>0, <2>3 DEF FakeEnqueue, storeVars
      <3>3. CASE EnqueueError(m)
        <4>1. faults' = faults + 1
          BY <3>3 DEF EnqueueError, Fault
        <4>2. Spares(Scheduler, fakeJob)
          BY <1>1, <3>2, <4>1 DEF Spares
        <4> QED
          BY <4>2
      <3>4. CASE EnqueueOk(m)
        <4>1. m \in JobRequest /\ m.job = fakeJob
          <5>1. /\ todo # << >> /\ todo \in Seq(Types)
                /\ FakePayload \in Payloads /\ FakeQueue \in Queues
            BY <1>0, <3>2, FakeAssumption DEF TypeInv, FakeTypeOK
          <5>2. Head(todo) \in Types
            BY <5>1, HeadTailProperties
          <5> QED
            BY <3>1, <3>2, <5>1, <5>2 DEF Request, JobRequest, FakeWork, Work, FakeRetries
        <4>2. \E i \in DOMAIN topic' : topic'[i] = m
          BY <1>0, <3>4, <4>1, SentGrows DEF BackTypes
        <4>3. jobs[fakeJob] # NoRow
          BY <1>0, <3>2 DEF HandInv, FakeHand
        <4>4. \A j \in Jobs : j = fakeJob => Durable(j)'
          BY <3>2, <4>1, <4>2, <4>3 DEF Durable, Sent
        <4>5. Spares(Scheduler, fakeJob)
          BY <1>1, <3>2, <4>4 DEF Spares
        <4> QED
          BY <4>5
      <3> QED
        BY <3>1, <3>3, <3>4
    <2>4. ASSUME NEW i \in Jobs, FakeCreate(i)
          PROVE  \E x : Spares(Scheduler, x)
      <3>1. /\ fakeJob = NoFake
            /\ jobs' \in {jobs, Inserted(i, FakeWork, "pending", 0, NoKey)}
            /\ fakeJob' = i \/ faults' = faults + 1
        BY <2>4 DEF FakeCreate, Fault
      <3>2. \A k \in Jobs : k # i => jobs'[k] = jobs[k]
        BY <1>0, <3>1 DEF Inserted, BackTypes, StoreTypeOK
      <3>3. fakeJob' = i => InHand(i)'
        BY DEF InHand
      <3>4. Spares(Scheduler, i)
        <4> SUFFICES ASSUME NEW j \in Jobs,
                            \/ jobs[j] = NoRow /\ jobs'[j] # NoRow
                            \/ InHand(j) /\ maker[j] = Scheduler
                     PROVE  InHand(j)' \/ (j = i /\ faults' = faults + 1)
          BY DEF Spares
        <4>1. jobs[j] = NoRow /\ jobs'[j] # NoRow
          BY <1>0, <1>1, <3>1
        <4>2. j = i
          BY <3>2, <4>1
        <4> QED
          BY <3>1, <3>3, <4>2
      <3> QED
        BY <3>4
    <2> QED
      BY <1>5, <2>1, <2>2, <2>3, <2>4 DEF SchedulerStep
  <1>6. CASE ApiRestart
    BY <1>2, <1>6 DEF ApiRestart, ApiCrash, storeVars, fakeVars
  <1>7. CASE UNCHANGED intakeVars
    BY <1>2, <1>7 DEF intakeVars, fakeVars, storeVars
  <1> QED
    BY <1>3, <1>4, <1>5, <1>6, <1>7 DEF IntakeNext

Origins == {User(u) : u \in Users} \cup {Scheduler}

OrphanInv == \A who \in Origins : Bounded(who)

\* The step is one of somebody for whom it makes its rows.
LEMMA StepMakes ==
    ASSUME [IntakeNext]_intakeVars
    PROVE  \E v : MadeFor(v) \/ UNCHANGED maker
  <1>1. CASE UserStep
    <2>1. PICK u \in Users : FrontStep(u)
      BY <1>1 DEF UserStep
    <2>2. MadeFor(User(u)) \/ UNCHANGED maker
      BY <2>1, Zenon
      DEF FrontStep, RefusedByProgram, ApiOutOfReach, RefusedByApi, AcceptedByApi, ApiWorks,
          AnswerArrives, Untouched
    <2> QED
      BY <2>2
  <1>2. CASE IngestStep
    BY <1>2 DEF IngestStep, IngestAlone, BeginSubmit, SubmitGoesOn
  <1>3. CASE SchedulerStep
    BY <1>3 DEF SchedulerStep
  <1>4. CASE ApiRestart \/ UNCHANGED intakeVars
    BY <1>4 DEF ApiRestart, intakeVars, frontVars
  <1> QED
    BY <1>1, <1>2, <1>3, <1>4 DEF IntakeNext

LEMMA OrphanStep ==
    ASSUME TypeInv, SubmitsOnly, QueuedInv, HandInv, OrphanInv, [IntakeNext]_intakeVars
    PROVE  OrphanInv'
  <1>1. Grows /\ faults \in Nat /\ faults' \in {faults, faults + 1}
    BY StepGrows, FaultsStep
  <1>2. PICK v : MadeFor(v) \/ UNCHANGED maker
    BY StepMakes
  <1>3. ASSUME NEW who \in Origins
        PROVE  Bounded(who)'
    <2>1. Bounded(who) /\ \E x : Spares(who, x)
      BY <1>3, UserSpares, SchedulerSpares DEF OrphanInv, Origins
    <2> QED
      BY <1>1, <1>2, <2>1, SparesBounds
  <1> QED
    BY <1>3 DEF OrphanInv, Origins, User, Scheduler

LEMMA OrphanInit == IntakeInit => OrphanInv
  <1> SUFFICES ASSUME IntakeInit, NEW who \in Origins
               PROVE  Bounded(who)
    BY DEF OrphanInv
  <1>1. who # Nobody
    BY NamesApart DEF Origins
  <1>2. Orphans(who) = {}
    BY <1>1 DEF IntakeInit, FrontInit, Orphans, MadeBy
  <1>3. faults = 0
    BY DEF IntakeInit, StoreInit
  <1> QED
    BY <1>2, <1>3, FS_EmptySet DEF Bounded

IntakeInv == TypeInv /\ SubmitsOnly /\ OnceInv /\ QueuedInv /\ HandInv

LEMMA IntakeInvInit == IntakeInit => IntakeInv
  BY TypesInit, OnceInit, QueuedInit, HandInit DEF IntakeInv

LEMMA IntakeInvStep == IntakeInv /\ [IntakeNext]_intakeVars => IntakeInv'
  BY TypesStep, StepGrows, OnceStep, QueuedStep, FakeHandStep, RestIdleStep, IngestHandStep
  DEF IntakeInv, HandInv

\* A pending row that nothing will run is left only by a failure between its
\* insert and its message, one for each failure at most, among the rows of one
\* user and among those of the scheduler.
THEOREM OrphansCostFailures == IntakeSpec => []OrphansPerFault
  <1>1. OrphanInv => OrphansPerFault
    BY DEF OrphanInv, Bounded, Origins, OrphansPerFault
  <1>2. IntakeInv /\ OrphanInv /\ [IntakeNext]_intakeVars => (IntakeInv /\ OrphanInv)'
    BY IntakeInvStep, OrphanStep DEF IntakeInv
  <1> QED
    BY <1>1, <1>2, IntakeInvInit, OrphanInit, PTL DEF IntakeSpec

----------------------------------------------------------------------------
\* The messages of the ingest topic that the reader is past without a job.
LostInv == IsFiniteSet(Lost) /\ Cardinality(Lost) <= faults

\* A message that is lost by a step cost a failure, and no step loses two.
LEMMA LostByStep ==
    ASSUME IntakeInv, [IntakeNext]_intakeVars
    PROVE  \E x : /\ Lost' \subseteq Lost \cup {x}
                  /\ faults' = faults => Lost' \subseteq Lost
  <1>0. /\ Grows /\ faults \in Nat /\ faults' \in {faults, faults + 1} /\ BackTypes /\ TypeInv
        /\ Ingester \in Callers /\ Ingester \notin Users
        /\ read \in 0 .. Len(Inbox) /\ hand \in 0 .. Len(Inbox) /\ Len(Inbox) \in Nat
        /\ readCommit \in 0 .. Len(Inbox)
    BY StepGrows, FaultsStep, IntakeAssumption, IngestAssumption, LenProperties
    DEF IntakeInv, TypeInv, BackInv, IngestTypeOK
  <1>1. ASSUME NEW n \in Lost'
        PROVE  /\ n \in 1 .. read' /\ Inbox[n] = "job" /\ n # hand'
               /\ ~\E j \in MadeBy(Message(n)) : Durable(j)
    <2>1. /\ n \in 1 .. read' /\ Inbox[n] = "job" /\ n # hand'
          /\ ~(\E j \in MadeBy(Message(n)) : Durable(j))'
      BY <1>1 DEF Lost
    <2>2. PICK who : who = Message(n)
      OBVIOUS
    <2>3. (\E j \in MadeBy(who) : Durable(j)) => (\E j \in MadeBy(who) : Durable(j))'
      BY <1>0, DurableStays
    <2>4. ~(\E j \in MadeBy(who) : Durable(j))'
      BY <2>1, <2>2 DEF MadeBy, Message
    <2> QED
      BY <2>1, <2>2, <2>3, <2>4
  <1>2. ASSUME NEW n \in Lost', n <= read, n # hand
        PROVE  n \in Lost
    BY <1>0, <1>1, <1>2 DEF Lost
  <1>3. ASSUME read' <= read, hand' = hand
        PROVE  Lost' \subseteq Lost
    <2> SUFFICES ASSUME NEW n \in Lost' PROVE n \in Lost
      OBVIOUS
    <2>1. n \in 1 .. read' /\ n # hand'
      BY <1>1
    <2>2. read' \in Nat
      BY <1>0, TypesStep DEF IngestTypeOK, TypeInv
    <2> QED
      BY <1>0, <1>2, <1>3, <2>1, <2>2
  <1>4. ASSUME read' <= read, faults' = faults + 1
        PROVE  Lost' \subseteq Lost \cup {hand}
    <2> SUFFICES ASSUME NEW n \in Lost', n # hand PROVE n \in Lost
      OBVIOUS
    <2>1. n \in 1 .. read'
      BY <1>1
    <2>2. read' \in Nat
      BY <1>0, TypesStep DEF IngestTypeOK, TypeInv
    <2> QED
      BY <1>0, <1>2, <1>4, <2>1, <2>2
  <1>5. CASE UNCHANGED ingestVars
    BY <1>0, <1>3, <1>5 DEF ingestVars
  <1>6. CASE ApiRestart
    <2>1. faults' = faults + 1 /\ read' = readCommit
      BY <1>6 DEF ApiRestart, ApiCrash, Fault, IngestRestart
    <2>2. readCommit <= read
      BY DEF IntakeInv, OnceInv, Committed
    <2> QED
      BY <1>0, <1>4, <2>1, <2>2
  <1>7. CASE IngestRebalance
    <2>1. readCommit <= read
      BY DEF IntakeInv, OnceInv, Committed
    <2> QED
      BY <1>0, <1>3, <1>7, <2>1 DEF IngestRebalance
  <1>8. ASSUME read' = read + 1, hand' = hand, faults' = faults + 1 \/ Inbox[read + 1] # "job"
        PROVE  \E x : /\ Lost' \subseteq Lost \cup {x}
                      /\ faults' = faults => Lost' \subseteq Lost
    <2>1. ASSUME NEW n \in Lost', n \notin Lost
          PROVE  n = read + 1
      <3>1. n \in 1 .. read + 1 /\ n # hand
        BY <1>1, <1>8, <2>1
      <3>2. ~(n <= read)
        BY <1>2, <2>1, <3>1
      <3> QED
        BY <1>0, <3>1, <3>2
    <2>2. \A n \in Lost' : Inbox[n] = "job"
      BY <1>1
    <2>3. /\ Lost' \subseteq Lost \cup {read + 1}
          /\ faults' = faults => Lost' \subseteq Lost
      BY <1>0, <1>8, <2>1, <2>2
    <2> QED
      BY <2>3
  <1>9. CASE IngestDrop
    BY <1>8, <1>9 DEF IngestDrop, ReadNext
  <1>10. CASE IngestSkip /\ Fault("commit")
    BY <1>8, <1>10 DEF IngestSkip, ReadNext, Fault
  <1>11. CASE BeginSubmit
    <2>1. read' = read + 1 /\ hand' = read + 1 /\ hand = 0
      BY <1>11 DEF BeginSubmit, IngestSubmit, ReadNext
    <2>2. ASSUME NEW n \in Lost'
          PROVE  n \in Lost
      <3>1. n \in 1 .. read + 1 /\ n # read + 1
        BY <1>1, <2>1, <2>2
      <3> QED
        BY <1>0, <1>2, <2>1, <2>2, <3>1
    <2> QED
      BY <2>2
  <1>12. CASE SubmitGoesOn /\ ~UNCHANGED ingestVars
    <2>1. /\ call'[Ingester].pc = "idle" /\ read' = read /\ hand' = 0
          /\ Create(Ingester) \/ Enqueue(Ingester)
      BY <1>0, <1>12, SubmittingStep, LookedUp
      DEF SubmitGoesOn, IngestReturn, IntakeInv, OnceInv, InHandOnce
    <2>2. CASE faults' = faults + 1
      <3>1. Lost' \subseteq Lost \cup {hand} /\ faults' # faults
        BY <1>0, <1>4, <2>1, <2>2
      <3> QED
        BY <3>1
    <2>3. CASE faults' # faults + 1
      <3>1. Enqueue(Ingester) /\ outcome'[Ingester] = "ok" /\ call[Ingester].pc = "enqueue"
        <4>1. ~Create(Ingester)
          <5>1. call[Ingester].pc = "create" => call[Ingester].key = NoKey
            BY DEF IntakeInv, HandInv, IngestHand
          <5> QED
            BY <1>0, <2>1, <2>3, <5>1, CreateCosts
        <4> QED
          BY <1>0, <2>1, <2>3, <4>1, EnqueueCosts
      <3>2. PICK m : m = hand
        OBVIOUS
      <3>3. /\ jobs[call[Ingester].job] # NoRow
            /\ jobs[call[Ingester].job].status = FirstStatus(call[Ingester].runAt)
            /\ maker[call[Ingester].job] = Message(m)
        BY <3>1, <3>2 DEF IntakeInv, HandInv, IngestHand
      <3>4. PICK j \in Jobs : j = call[Ingester].job
        BY <1>0, <3>1 DEF BackTypes, CallJobs
      <3>5. Durable(j)' /\ maker'[j] = Message(m)
        BY <1>0, <3>1, <3>3, <3>4, OkDurable DEF Grows
      <3>6. m \notin Lost'
        BY <3>4, <3>5 DEF Lost, MadeBy, Message
      <3>7. ASSUME NEW n \in Lost'
            PROVE  n \in Lost
        <4>1. n \in 1 .. read /\ n # hand
          BY <1>1, <2>1, <3>2, <3>6, <3>7
        <4> QED
          BY <1>0, <1>2, <3>7, <4>1
      <3> QED
        BY <3>7
    <2> QED
      BY <2>2, <2>3
  <1> QED
    BY <1>5, <1>6, <1>7, <1>9, <1>10, <1>11, <1>12
    DEF IntakeNext, UserStep, IngestStep, SchedulerStep, intakeVars

\* A job request of the ingest topic is lost only by a failure, one for each
\* failure at most: the reader is past a message only when it was dropped,
\* submitted or skipped for an error, and what a submit returns without an
\* error for is sent.
THEOREM LossesCostFailures == IntakeSpec => []LossPerFault
  <1>1. IntakeInit => LostInv
    <2> SUFFICES ASSUME IntakeInit PROVE LostInv
      OBVIOUS
    <2>1. Lost = {} /\ faults = 0
      BY DEF IntakeInit, IngestInit, StoreInit, Lost
    <2> QED
      BY <2>1, FS_EmptySet DEF LostInv
  <1>2. IntakeInv /\ LostInv /\ [IntakeNext]_intakeVars => LostInv'
    <2> SUFFICES ASSUME IntakeInv, LostInv, [IntakeNext]_intakeVars PROVE LostInv'
      OBVIOUS
    <2>1. faults \in Nat /\ faults' \in {faults, faults + 1}
      BY FaultsStep DEF IntakeInv
    <2>2. PICK x : /\ Lost' \subseteq Lost \cup {x}
                   /\ faults' = faults => Lost' \subseteq Lost
      BY LostByStep
    <2>3. PICK S, T : S = Lost /\ T = Lost'
      OBVIOUS
    <2>4. IsFiniteSet(S) /\ Cardinality(S) <= faults
      BY <2>3 DEF LostInv
    <2>5. IsFiniteSet(T) /\ Cardinality(T) <= faults'
      BY <2>1, <2>2, <2>3, <2>4, PaidByFault
    <2> QED
      BY <2>3, <2>5 DEF LostInv
  <1>3. LostInv => LossPerFault
    BY DEF LostInv, LossPerFault
  <1> QED
    BY <1>1, <1>2, <1>3, IntakeInvInit, IntakeInvStep, PTL DEF IntakeSpec
=============================================================================
