------------------------------ MODULE Upstream ------------------------------
(***************************************************************************)
(* What the programs in front of the job API post to it: user-service and  *)
(* billing-service, the demo server and the enqueue command.  A request of *)
(* their users becomes a set of posts, which is empty when the program     *)
(* answers it itself; a post is what the API finds in the body.            *)
(***************************************************************************)
EXTENDS JobHandlers

CONSTANT Delay   \* how far ahead scenario C asks to be run, 60 seconds in the code

ASSUME UpstreamAssumption == Delay \in Nat \ {0}

Sound == [parses |-> TRUE, given |-> TRUE, failUntil |-> 0, outside |-> FALSE]
ToOutside == [Sound EXCEPT !.outside = TRUE]
FailingAt(n) == [Sound EXCEPT !.failUntil = n]
Blank == [Sound EXCEPT !.given = FALSE]
NotAStruct == [Sound EXCEPT !.parses = FALSE]

Post(type, payload, maxRetry, runAt) ==
    [type |-> type, payload |-> payload, maxRetry |-> maxRetry, runAt |-> runAt]

Plain(type, payload) == {Post(type, payload, 0, 0)}

\* A body that could not be encoded is posted empty: the API finds no type in it.
EmptyBody == Post("", Blank, 0, 0)

----------------------------------------------------------------------------
\* user-service wants an address.
Register(body) == IF body = "fine" THEN Plain("email", Sound) ELSE {}
PasswordReset(body) == IF body = "fine" THEN Plain("email", Sound) ELSE {}

\* billing-service makes up what a request does not say.
BillInvoice(body) == Plain("invoice", ToOutside)
BillReport(body) == Plain("report", ToOutside)
InvoiceReady(body) == Plain("email", Sound)

\* getDefaultPayload of the demo server.
DefaultPayload(type) ==
    IF type \in {"email", "invoice", "sleep"} THEN Sound
    ELSE IF type \in {"report", "image"} THEN ToOutside
    ELSE Blank

\* The default payload of "hello" is no JSON, and json.Marshal refuses it.
DemoSubmit(type, body) ==
    IF body # "fine" THEN {}
    ELSE IF type = "hello" THEN {EmptyBody} ELSE Plain(type, DefaultPayload(type))

\* handleScenario, at the given time.
Scenario(id, at) ==
    CASE id = "A" -> Plain("email", Sound)
      [] id = "B" -> {Post("invoice", FailingAt(1), 2, 0)}
      [] id = "C" -> {Post("report", ToOutside, 0, at + Delay)}
      [] id = "D" -> {Post("image", Blank, 2, 0)}
      [] id = "E" -> Plain("sleep", Sound)
      [] OTHER -> {}

\* The enqueue command sends its payload as a JSON string, into which no
\* handler's struct can be decoded.
Command(type) == Plain(type, NotAStruct)

\* A request of a user: the program, what is asked of it, and the body.
Posts(r, at) ==
    CASE r.op = "register" -> Register(r.body)
      [] r.op = "password-reset" -> PasswordReset(r.body)
      [] r.op = "invoice" -> BillInvoice(r.body)
      [] r.op = "report" -> BillReport(r.body)
      [] r.op = "invoice-ready" -> InvoiceReady(r.body)
      [] r.op = "submit" -> DemoSubmit(r.item, r.body)
      [] r.op = "scenario" -> Scenario(r.item, at)
      [] r.op = "enqueue" -> Command(r.item)

----------------------------------------------------------------------------
\* The status codes that the program takes for success.
Successes(op) ==
    IF op \in {"submit", "scenario", "enqueue"} THEN {201} ELSE {200, 201}

\* Mutant: any answer that comes is taken for success.
AnyAnswer(op, code, delivery) == IF delivery = "lost" THEN 500 ELSE 200

\* What the user is told: an answer that does not come is a 500, any other
\* code than success is passed on, and of a success whose body is cut off the
\* two services make one without an id, the others an error.
Told(op, code, delivery) ==
    CASE delivery = "lost" -> 500
      [] delivery # "lost" /\ code \notin Successes(op) -> code
      [] delivery = "cut" /\ code \in Successes(op) ->
            IF Successes(op) = {201} THEN 500 ELSE 200
      [] delivery = "whole" /\ code \in Successes(op) -> 200
=============================================================================
