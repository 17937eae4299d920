---------------------------- MODULE MCJobSystem ----------------------------
(* The whole system on small instances. *)
EXTENDS JobSystem, TLC

CONSTANTS j1, j2, c1, c2, g1, g2

Fine == [parses |-> TRUE, given |-> TRUE, failUntil |-> 0, outside |-> TRUE]
OnePayload == {Fine}

JobIn(type, queue) == [type |-> type, payload |-> Fine, queue |-> queue]

OneReport == {JobIn("report", "default")}

\* Everything but the histories that no guard reads and that a run's properties
\* may not need: what a property reads must stay.
Unrecorded == <<vars, now, call, asked, promoterVars>>

\* Everything but what the last calls returned.
WithoutOutcome ==
    <<vars, now, call, asked, submitted, cancelled, promoterVars>>

Symmetry == Permutations({j1, j2}) \cup Permutations({c1, c2})
                \cup Permutations({g1, g2})
=============================================================================
