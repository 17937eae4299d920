----------------------------- MODULE FrontEnds -----------------------------
(***************************************************************************)
(* The programs in front of the job API at work: a user asks one for       *)
(* something, it posts a job and passes on the answer, and a user who is   *)
(* told of an error asks again.  No program sends an idempotency key; the  *)
(* users of "api" talk to the API themselves, and send one.  The requests  *)
(* in progress in the API are those of Backend, one per user.              *)
(***************************************************************************)
EXTENDS Backend, RestAnswers, Upstream

CONSTANTS
    Users,      \* those of the Callers who are users of a program
    Requests,   \* what they may ask for
    MaxTries    \* how often a user asks for it, a bound of the model

\* What can be asked of the programs, and of the API itself.
UserOps == {"register", "password-reset", "invoice", "report", "invoice-ready",
            "submit", "scenario", "enqueue", "api"}

ASSUME FrontAssumption ==
    /\ Users \subseteq Callers
    /\ MaxTries \in Nat \ {0}
    /\ Requests # {}
    /\ \A r \in Requests : r.op \in UserOps /\ r.key \in Keys \cup {NoKey}
    /\ {Sound, ToOutside, Blank, NotAStruct, FailingAt(1)} \subseteq Payloads

VARIABLES
    user,    \* user -> how far its request is
    maker    \* history: id -> whom the row was made for

frontVars == <<user, maker>>

\* The code is the one the user was told last, or the API's until it arrives.
NoAsk == [pc |-> "idle", request |-> CHOOSE r \in Requests : TRUE, tries |-> 0, code |-> 0]

\* Those for whom rows are made, beside the users.
Nobody == << >>
Scheduler == <<"scheduler">>
User(u) == <<"user", u>>
Message(n) == <<"message", n>>

UserPCs == {"idle", "open", "answered", "told"}
AnswerCodes == {0, 200, 201, 400, 429, 500, 503}

FrontTypeOK ==
    user \in [Users -> [pc : UserPCs, request : Requests, tries : 0 .. MaxTries,
                        code : AnswerCodes]]

FrontInit ==
    /\ user = [u \in Users |-> NoAsk]
    /\ maker = [j \in Jobs |-> Nobody]

\* Whom the rows are made for that the step adds.
MadeFor(who) ==
    maker' = [j \in Jobs |-> IF jobs[j] = NoRow /\ jobs'[j] # NoRow THEN who ELSE maker[j]]

MadeBy(who) == {j \in Jobs : maker[j] = who}

----------------------------------------------------------------------------
UserAt(u, pc) == user[u].pc = pc

\* A user starts, or asks again for what ended in an error.
MayAsk(u, r) ==
    \/ UserAt(u, "idle")
    \/ /\ UserAt(u, "told") /\ user[u].code >= 400 /\ user[u].tries < MaxTries
       /\ r = user[u].request

Asks(u, r, pc, code) ==
    user' = [user EXCEPT ![u] = [pc |-> pc, request |-> r, tries |-> @.tries + 1,
                                 code |-> code]]

Untouched == UNCHANGED <<storeVars, topic, now, apiVars, maker>>

PostsOf(r) == IF r.op = "api" THEN Plain(r.item, Sound) ELSE Posts(r, now)

\* The program answers by itself.
RefusedByProgram(u, r) ==
    /\ MayAsk(u, r) /\ PostsOf(r) = {}
    /\ Asks(u, r, "told", 400)
    /\ Untouched /\ UNCHANGED faults

\* The request does not reach the API.
ApiOutOfReach(u, r) ==
    /\ MayAsk(u, r) /\ PostsOf(r) # {}
    /\ Fault("connection")
    /\ Asks(u, r, "told", 500)
    /\ Untouched

\* handleSubmit refuses a body without a type, and when the limiter says so.
RefusedByApi(u, r) ==
    /\ MayAsk(u, r)
    /\ \E p \in PostsOf(r) :
          \/ p.type = "" /\ Asks(u, r, "answered", 400)
          \/ p.type # "" /\ Asks(u, r, "answered", 429)
    /\ Untouched /\ UNCHANGED faults

\* The queue is "default" for all of them.
AcceptedByApi(u, r) ==
    /\ MayAsk(u, r)
    /\ \E p \in PostsOf(r), q \in Queues :
          /\ p.type \in Types
          /\ Submit(u, [type |-> p.type, payload |-> p.payload, queue |-> q],
                    p.maxRetry, p.runAt, r.key)
    /\ Asks(u, r, "open", 0)
    /\ UNCHANGED maker

\* Mutant: the limiter is asked when the job is made.
LimitsLate(u) ==
    /\ UserAt(u, "open")
    /\ CallStep(u)
    /\ MadeFor(User(u))
    /\ IF call'[u].pc # "idle" THEN UNCHANGED user
       ELSE \E code \in Codes("submit", outcome'[u]) \cup {429} :
               user' = [user EXCEPT ![u].pc = "answered", ![u].code = code]

\* The API works on the submit, and answers when the backend's call returns.
ApiWorks(u) ==
    /\ UserAt(u, "open")
    /\ CallStep(u)
    /\ MadeFor(User(u))
    /\ IF call'[u].pc # "idle" THEN UNCHANGED user
       ELSE \E code \in Codes("submit", outcome'[u]) :
               user' = [user EXCEPT ![u].pc = "answered", ![u].code = code]

\* The answer comes to the program whole, is lost, or is cut off in its body.
AnswerArrives(u) ==
    /\ UserAt(u, "answered")
    /\ \E delivery \in {"whole", "lost", "cut"} :
          /\ IF delivery = "whole" THEN UNCHANGED faults ELSE Fault("connection")
          /\ user' = [user EXCEPT ![u].pc = "told",
                          ![u].code = Told(user[u].request.op, user[u].code, delivery)]
    /\ Untouched

FrontStep(u) ==
    \/ \E r \in Requests :
          RefusedByProgram(u, r) \/ ApiOutOfReach(u, r) \/ RefusedByApi(u, r)
          \/ AcceptedByApi(u, r)
    \/ ApiWorks(u) \/ AnswerArrives(u)

\* What users see when the API process dies.
UsersCutOff ==
    user' = [u \in Users |->
        IF user[u].pc = "open" THEN [user[u] EXCEPT !.pc = "told", !.code = 500] ELSE user[u]]
=============================================================================
