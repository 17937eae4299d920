------------------------------ MODULE MCWorker ------------------------------
(* The workers on small instances. *)
EXTENDS Worker, TLC

CONSTANTS j1, j2, w1, w2, g1, g2, g3

Fine == [parses |-> TRUE, given |-> TRUE, failUntil |-> 0, outside |-> TRUE]
Empty == [Fine EXCEPT !.given = FALSE]
TwoPayloads == {Fine, Empty}

Job(type, payload) == [type |-> type, payload |-> payload, queue |-> "default"]

\* One job of each kind that process tells apart: an email with a valid and
\* with an invalid payload, a type with a handler, and one without.
AllKinds == {Job("email", Fine), Job("email", Empty),
             Job("report", Fine), Job("sms", Fine)}

\* The kind whose handler may fail.
OneKind == {Job("report", Fine)}

Symmetry == Permutations({j1, j2}) \cup Permutations({w1, w2})
                \cup Permutations({g1, g2}) \cup Permutations({g1, g2, g3})
=============================================================================
