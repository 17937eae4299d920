----------------------------- MODULE MCRestApi -----------------------------
(* Two clients of the REST API, one queue, two jobs. *)
EXTENDS RestApi, TLC

CONSTANTS j1, j2, c1, c2

Reports == {[type |-> "report", payload |-> "fine", queue |-> "a"]}

\* The queue gets one submit a minute, all queues together two.
Limits == [a |-> 1, global |-> 2]

\* One path for every outcome of the routing.
Served == {<<"jobs">>, <<"jobs", j1, "cancel">>, <<"jobs", j1, "retry">>,
           <<"jobs", "archived", j1>>, <<"admin", "queues", "a", "pause">>,
           <<"other">>}

\* Everything but the histories, which no guard reads; what the properties say
\* of them is said of steps.
Unrecorded == <<storeVars, faults, topic, now, call, limiterVars, http>>

Symmetry == Permutations({c1, c2})
=============================================================================
