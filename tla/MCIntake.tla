------------------------------ MODULE MCIntake ------------------------------
(* Two users, the ingest consumer and a round of fake jobs. *)
EXTENDS Intake, TLC

CONSTANTS j1, j2, j3, u1, u2

\* What the messages of the ingest topic ask for.
Ingested == {[type |-> "report", payload |-> Sound, queue |-> "default"]}

AllPayloads == {Sound, ToOutside, Blank, NotAStruct, FailingAt(1)}

Asking(op, item, body, key) == [op |-> op, item |-> item, body |-> body, key |-> key]

Programs ==
    {Asking(op, "", "blank", NoKey) : op \in {"register", "invoice"}}
        \cup {Asking("submit", "hello", "fine", NoKey),
              Asking("scenario", "C", "", NoKey),
              Asking("api", "report", "fine", "k")}

Messages == <<"noType", "job", "job">>

OneRound == <<"email", "image">>

\* Everything but what no guard and no property reads: no worker is there to
\* whom the order of the topic would matter, or that a message is there twice.
InTopic == {topic[i] : i \in DOMAIN topic}
Unordered == <<storeVars, faults, InTopic, call, submitted, frontVars, fakeVars, ingestVars>>

Symmetry == Permutations({j1, j2, j3}) \cup Permutations({u1, u2})
=============================================================================
