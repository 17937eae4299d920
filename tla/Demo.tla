-------------------------------- MODULE Demo --------------------------------
(***************************************************************************)
(* The demo server (cmd/demo-server/main.go) with the whole system behind  *)
(* it: its users run the scenarios A to E and replay archived jobs, cancel *)
(* jobs and pause queues by hand, and expect what the dashboard promises.  *)
(***************************************************************************)
EXTENDS JobSystem, Upstream

CONSTANTS
    Scenarios,   \* the scenarios that are run
    DemoQueue,   \* the queue of all of them, "default" in the code
    MaxJobs      \* how many jobs there may be when one is run, a bound of the model

ASSUME DemoAssumption ==
    /\ DemoQueue \in Queues /\ EmailType = "email"
    /\ MaxJobs \in Nat
    /\ {"email", "invoice", "report", "image", "sleep"} \subseteq Registered
    /\ {Sound, ToOutside, Blank, FailingAt(1)} \subseteq Payloads

----------------------------------------------------------------------------
WorkOf(p) == [type |-> p.type, payload |-> p.payload, queue |-> DemoQueue]

\* handleScenario posts the job; an answer that is lost on the way changes
\* nothing in the system.  The clock of the model has to reach its run_at.
HandleScenario(c, id) ==
    /\ Cardinality({j \in Jobs : jobs[j] # NoRow}) <= MaxJobs
    /\ \E p \in Scenario(id, now) :
          p.runAt <= MaxTime /\ Submit(c, WorkOf(p), p.maxRetry, p.runAt, NoKey)
    /\ UNCHANGED <<workerVars, promoterVars>>

\* handleRetry: the job goes to the default queue if the user names none.
HandleReplay(c, j) ==
    /\ RetryArchived(c, j, DemoQueue) \/ RetryRefused(c, j)
    /\ UNCHANGED <<workerVars, promoterVars>>

DemoNext ==
    \/ \E c \in Callers, id \in Scenarios : HandleScenario(c, id)
    \/ \E c \in Callers, j \in Jobs : HandleReplay(c, j)
    \/ SysNext

DemoSpec == SysInit /\ [][DemoNext]_sysVars

\* Calls in progress go on, the promoter and the workers are scheduled, and
\* time passes.
DemoFairness ==
    /\ \A c \in Callers : WF_sysVars(CallStep(c) /\ UNCHANGED <<workerVars, promoterVars>>)
    /\ WF_sysVars((ListDue \/ Promote) /\ UNCHANGED <<workerVars, apiVars>>)
    /\ WF_sysVars((\E g \in Goroutines : Fetch(g)) /\ UNCHANGED <<now, apiVars, promoterVars>>)
    /\ \A g \in Goroutines :
          WF_sysVars(GoroutineStep(g) /\ UNCHANGED <<now, apiVars, promoterVars>>)
    /\ WF_sysVars(TimeStep)

FairDemo == DemoSpec /\ DemoFairness

----------------------------------------------------------------------------
(***************************************************************************)
(* Correctness.                                                            *)
(***************************************************************************)
\* How scenarioSteps says that a job of a scenario ends: D in the archive, after
\* all the retries asked for, the others completed, B at its second attempt.
Ends(id) == IF id = "D" THEN "archived" ELSE "completed"
Retries(id, j) == CASE id = "B" -> 1 [] id = "D" -> asked[j] + 1 [] OTHER -> 0

ScenarioOf(w) ==
    CHOOSE id \in {"A", "B", "C", "D", "E"} : \E p \in Scenario(id, 0) : WorkOf(p) = w

\* A scenario ends as the dashboard says, unless the user cancels it, whatever
\* fails, is sent twice or is promoted with other retries than were asked for.
ScenarioOutcome ==
    \A j \in Jobs :
        Settled(j) /\ jobs[j].status # "cancelled" =>
            LET id == ScenarioOf(jobs[j].work) IN
            jobs[j].status = Ends(id) /\ jobs[j].attempt = Retries(id, j)

\* Unless something fails or a queue is paused, every job whose id the user was
\* given comes to its end, a delayed one through the promoter.  It may not stay
\* there: the promoter's mark may overtake the worker, see README.
ScenarioEnds ==
    [](faults = 0 /\ paused = {}) =>
        \A j \in Jobs : <>(\E r \in submitted : r.job = j) => <>Settled(j)
=============================================================================
