------------------------------ MODULE Promoter ------------------------------
(***************************************************************************)
(* The scheduler's promoter (internal/scheduler/promoter.go): on a tick it *)
(* lists the scheduled jobs that are due, and for each one enqueues a      *)
(* message and then marks the row pending, from the copy of the row it     *)
(* listed.                                                                 *)
(***************************************************************************)
EXTENDS JobQueue, Clock, FiniteSets

CONSTANT PromoteLimit   \* the LIMIT of the listing, 50 in the code

ASSUME PromoterAssumption == PromoteLimit \in Nat \ {0}

VARIABLES
    due,        \* the rows listed and not yet dealt with, by id
    promoting   \* whether the first of them is enqueued and not yet marked

promoterVars == <<due, promoting>>

\* What the promoter keeps of a listed row.
Listed == [job : Jobs, work : Work, attempt : Nat, runAt : Nat]

PromoterTypeOK == due \in SUBSET Listed /\ promoting \in SUBSET due
PromoterInit == due = {} /\ promoting = {}

----------------------------------------------------------------------------
\* Mutant: the listing forgets to compare with the time.
AllScheduled == {j \in Jobs : jobs[j] # NoRow /\ jobs[j].status = "scheduled"}

DueJobs ==
    {j \in Jobs : /\ jobs[j] # NoRow
                  /\ jobs[j].status = "scheduled"
                  /\ 0 < jobs[j].runAt /\ jobs[j].runAt <= now}

\* ListScheduledDue: ORDER BY run_at_unix_sec LIMIT PromoteLimit; rows of the
\* same second come in any order.
FirstDue(S) ==
    /\ S \subseteq DueJobs
    /\ Cardinality(S) <= PromoteLimit
    /\ S = DueJobs \/ Cardinality(S) = PromoteLimit
    /\ \A j \in S, k \in DueJobs \ S : jobs[j].runAt <= jobs[k].runAt

ListDue ==
    /\ due = {}
    /\ \E S \in SUBSET DueJobs :
          /\ S # {} /\ FirstDue(S)
          /\ due' = {[job |-> j, work |-> jobs[j].work, attempt |-> jobs[j].attempt,
                      runAt |-> jobs[j].runAt] : j \in S}
    /\ UNCHANGED <<storeVars, faults, topic, now, promoting>>

\* The loop goes through the rows in the order of the listing.
First(d) == \A e \in due : d.runAt <= e.runAt

\* max_retry is not a column: the message gets 2, whatever the client asked.
PromotedRetries == 2

\* Mutant: an error of Enqueue does not keep the row from being marked.
PromoteRegardless(d) ==
    LET m == Request(d.job, d.work, 0, PromotedRetries) IN
    /\ promoting = {} /\ First(d)
    /\ EnqueueOk(m) \/ EnqueueError(m)
    /\ promoting' = {d}
    /\ UNCHANGED <<storeVars, now, due>>

PromoteEnqueue(d) ==
    LET m == Request(d.job, d.work, 0, PromotedRetries) IN
    /\ promoting = {} /\ First(d)
    /\ \/ EnqueueOk(m) /\ promoting' = {d} /\ UNCHANGED due
       \/ EnqueueError(m) /\ due' = due \ {d} /\ UNCHANGED promoting
    /\ UNCHANGED <<storeVars, now>>

\* Mutant: the loop does not go on to the next row.
PromoteMarkOnly(d) ==
    /\ promoting = {d}
    /\ UpdateStatus(d.job, "pending", d.attempt)
    /\ due' = due \ {d}
    /\ UNCHANGED <<paused, outbox, topic, now, promoting>>

PromoteMark(d) ==
    /\ promoting = {d}
    /\ UpdateStatus(d.job, "pending", d.attempt)
    /\ due' = due \ {d}
    /\ promoting' = {}
    /\ UNCHANGED <<paused, outbox, topic, now>>

\* The scheduler process dies and is restarted.
PromoterCrash ==
    /\ Fault("promoterCrash")
    /\ due' = {} /\ promoting' = {}
    /\ UNCHANGED <<storeVars, topic, now>>

Promote == \E d \in due : PromoteEnqueue(d) \/ PromoteMark(d)

PromoterNext ==
    \/ ListDue
    \/ Promote
    \/ PromoterCrash
=============================================================================
