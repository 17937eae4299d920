---------------------------- MODULE RestAnswers ----------------------------
(***************************************************************************)
(* How the REST layer turns what a call of the backend returned into the   *)
(* status code of the answer (writeJSON and writeBackendError of           *)
(* internal/api/rest.go).                                                  *)
(***************************************************************************)
EXTENDS Naturals

\* The phrases a backend error may contain.  Postgres says "does not exist" of
\* a missing table, Kafka of a missing topic.
Phrases ==
    [cannotCancel |-> {{"not found", "already running", "cannot cancel"}},
     notFound     |-> {{"not found"}},
     notArchived  |-> {{}},
     storeError   |-> {{}, {"does not exist"}},
     brokerError  |-> {{}, {"does not exist"}}]

\* Mutant: what is not recognised is the client's fault.
BlamesClient(said) ==
    IF said \cap {"not found", "job_id required"} # {} THEN 400
    ELSE IF said \cap {"cannot cancel", "already running"} # {} THEN 409
    ELSE IF "does not exist" \in said THEN 503
    ELSE 400

\* writeBackendError looks for the phrases in this order.
ErrorCode(said) ==
    IF said \cap {"not found", "job_id required"} # {} THEN 400
    ELSE IF said \cap {"cannot cancel", "already running"} # {} THEN 409
    ELSE IF "does not exist" \in said THEN 503
    ELSE 500

Codes(op, o) ==
    IF o = "ok" THEN {IF op = "submit" THEN 201 ELSE 200}
    ELSE {ErrorCode(said) : said \in Phrases[o]}
=============================================================================
