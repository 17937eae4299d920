---------------------------- MODULE JobContract ----------------------------
(***************************************************************************)
(* What the service promises a client about one submitted job when nothing *)
(* fails around it, as docs/WORKING_FLOW_AND_DEMO.md puts it: the job is   *)
(* run one attempt at a time, a failed attempt is followed by the next one *)
(* up to max_retry, then the job is archived, and a settled job stays as   *)
(* it is.  There is no queue, no worker and no store here.                 *)
(***************************************************************************)
EXTENDS Naturals

CONSTANTS Jobs, Budgets

VARIABLE job   \* id -> what a client may see of the job

Absent == [status |-> "absent", attempt |-> 0, budget |-> 0, known |-> TRUE]

Init == job = [j \in Jobs |-> Absent]

\* A job has a retry budget, and a type some handler knows or none does.
Submit(j) ==
    /\ job[j] = Absent
    /\ \E n \in Budgets, known \in BOOLEAN :
          job' = [job EXCEPT ![j] = [status |-> "pending", attempt |-> 0,
                                     budget |-> n, known |-> known]]

Become(j, status, attempt) ==
    job' = [job EXCEPT ![j].status = status, ![j].attempt = attempt]

Exhausted(j) == job[j].attempt > job[j].budget

Start(j) ==
    /\ \/ job[j].status = "pending"
       \/ job[j].status = "failed" /\ job[j].known /\ ~Exhausted(j)
    /\ Become(j, "processing", job[j].attempt)

Complete(j) ==
    /\ job[j].status = "processing" /\ job[j].known
    /\ Become(j, "completed", job[j].attempt)

Fail(j) ==
    /\ job[j].status = "processing" /\ job[j].known
    /\ Become(j, "failed", job[j].attempt + 1)

Reject(j) ==
    /\ job[j].status = "processing" /\ ~job[j].known
    /\ Become(j, "failed", job[j].attempt)

Archive(j) ==
    /\ job[j].status = "failed" /\ job[j].known /\ Exhausted(j)
    /\ Become(j, "archived", job[j].attempt)

Progress(j) == Start(j) \/ Complete(j) \/ Fail(j) \/ Reject(j) \/ Archive(j)

Next == \E j \in Jobs : Submit(j) \/ Progress(j)

\* What never happens, and with it what happens in the end.
Safety == Init /\ [][Next]_job

Spec == Safety /\ \A j \in Jobs : WF_job(Progress(j))
=============================================================================
