------------------------------ MODULE Consumer ------------------------------
(***************************************************************************)
(* The inside of one worker's consumer (internal/kafkaqueue/consumer.go)   *)
(* and the part of main that starts, drains and ends it                    *)
(* (cmd/worker/main.go): the fetch goroutine, which fills a priority       *)
(* queue; the loop that pops it and starts a goroutine per message; the    *)
(* condition variable between them; and a drain, or the cancellation of    *)
(* the context, that may come at any time.  Messages are named by their    *)
(* position in the partition.                                              *)
(***************************************************************************)
EXTENDS Integers, Sequences

CONSTANTS
    Priorities,     \* the priorities of messages
    MaxMessages,    \* how many messages arrive, a bound of the model
    MaxErrors,      \* how many fetches and commits fail, a bound of the model
    Signals         \* whether the process may be sent a signal

ASSUME ConsumerAssumption ==
    /\ Priorities \subseteq Int
    /\ MaxMessages \in Nat
    /\ MaxErrors \in Nat
    /\ Signals \in BOOLEAN

VARIABLES
    arrived,          \* the partition: priority and readability of each message
    position,         \* how many of them the reader has fetched
    items,            \* the messages in the priority queue
    drain,            \* the drain flag of the priority queue
    fetcher,          \* where the fetch goroutine is
    dispatcher,       \* where the dispatch loop is
    started,          \* the messages a goroutine was started for
    running,          \* those of them whose process has not returned
    committing,       \* those whose process has, and whose commit is due
    committed,        \* the offset committed last
    drainRequested,   \* the flag of /admin/drain
    cancelled,        \* whether the context is cancelled
    alive,            \* whether the process still runs
    errors            \* how many fetches and commits have failed

queueVars == <<items, drain, dispatcher>>
goVars == <<started, running, committing>>
mainVars == <<drainRequested, cancelled, alive>>
conVars == <<arrived, position, items, drain, fetcher, dispatcher, started,
             running, committing, committed, drainRequested, cancelled, alive, errors>>

Message == [priority : Priorities, readable : BOOLEAN]

ConsumerTypeOK ==
    /\ arrived \in Seq(Message)
    /\ position \in 0 .. Len(arrived)
    /\ committed \in 0 .. position
    /\ started \subseteq 1 .. position
    /\ items \subseteq (1 .. position) \ started
    /\ running \subseteq started /\ committing \subseteq started \ running
    /\ fetcher \in {"check", "fetch", "push", "skip", "ended"}
    /\ dispatcher \in {"pop", "wait", "returned"}
    /\ drain \in BOOLEAN /\ drainRequested \in BOOLEAN
    /\ cancelled \in BOOLEAN /\ alive \in BOOLEAN
    /\ errors \in 0 .. MaxErrors

ConsumerInit ==
    /\ arrived = << >> /\ position = 0 /\ committed = 0
    /\ items = {} /\ started = {} /\ running = {} /\ committing = {}
    /\ fetcher = "check" /\ dispatcher = "pop"
    /\ drain = FALSE /\ drainRequested = FALSE /\ cancelled = FALSE
    /\ alive = TRUE /\ errors = 0

Error == errors < MaxErrors /\ errors' = errors + 1

----------------------------------------------------------------------------
(***************************************************************************)
(* The priority queue.  Its operations hold its mutex; cond.Wait gives the *)
(* mutex up until a Signal, and only the dispatch loop ever waits.         *)
(***************************************************************************)
\* Mutant: an operation that changes the queue and wakes nobody.
NoSignal == UNCHANGED dispatcher

Signal == dispatcher' = IF dispatcher = "wait" THEN "pop" ELSE dispatcher

\* Mutant: the drain is set, but a loop that waits does not hear of it.
SetDrainSilently == drain' = TRUE /\ UNCHANGED <<dispatcher, items>>

SetDrain == drain' = TRUE /\ Signal /\ UNCHANGED items
PushItem(i) == items' = items \cup {i} /\ Signal /\ UNCHANGED drain

\* heap.Pop: of the messages of one priority, any may be first.
MostUrgent(i) == \A k \in items : arrived[i].priority >= arrived[k].priority

\* Mutant: the message stays in the queue.
StartedAndKept(i) ==
    /\ i \in items /\ MostUrgent(i)
    /\ UNCHANGED items
    /\ started' = started \cup {i} /\ running' = running \cup {i}

\* Pop's message gets a goroutine of its own.
Started(i) ==
    /\ i \in items /\ MostUrgent(i)
    /\ items' = items \ {i}
    /\ started' = started \cup {i} /\ running' = running \cup {i}

----------------------------------------------------------------------------
(***************************************************************************)
(* The fetch goroutine.                                                    *)
(***************************************************************************)
Check ==
    /\ fetcher = "check"
    /\ IF drainRequested \/ cancelled
       THEN SetDrain /\ fetcher' = "ended"
       ELSE fetcher' = "fetch" /\ UNCHANGED queueVars
    /\ UNCHANGED <<arrived, position, goVars, committed, mainVars, errors>>

\* FetchMessage blocks until there is a message, or the context is cancelled,
\* or it fails.
FetchMessage ==
    /\ fetcher = "fetch"
    /\ \/ /\ position < Len(arrived)
          /\ position' = position + 1
          /\ fetcher' = IF arrived[position'].readable THEN "push" ELSE "skip"
          /\ UNCHANGED <<queueVars, errors>>
       \/ /\ cancelled /\ SetDrain
          /\ fetcher' = "ended" /\ UNCHANGED <<position, errors>>
       \/ /\ ~cancelled /\ Error
          /\ fetcher' = "check" /\ UNCHANGED <<position, queueVars>>
    /\ UNCHANGED <<arrived, goVars, committed, mainVars>>

Push ==
    /\ fetcher = "push"
    /\ PushItem(position)
    /\ fetcher' = "check"
    /\ UNCHANGED <<arrived, position, goVars, committed, mainVars, errors>>

\* RunConsumer closes the reader when it returns: commits fail from then on.
\* Once main has cancelled the context of a commit, the commit may fail too.
CommitMessages(i) ==
    \/ dispatcher # "returned" /\ committed' = i /\ UNCHANGED errors
    \/ (dispatcher = "returned" \/ cancelled) /\ UNCHANGED <<committed, errors>>
    \/ Error /\ UNCHANGED committed

\* A message that is not JSON is committed and forgotten.
Skip ==
    /\ fetcher = "skip"
    /\ CommitMessages(position)
    /\ fetcher' = "check"
    /\ UNCHANGED <<arrived, position, queueVars, goVars, mainVars>>

----------------------------------------------------------------------------
(***************************************************************************)
(* The dispatch loop and the goroutines it starts.                         *)
(***************************************************************************)
\* Mutant: Pop looks at the drain flag before it looks at the queue.
PopDrainFirst ==
    /\ dispatcher = "pop"
    /\ \/ /\ ~drain
          /\ \E i \in items : Started(i)
          /\ UNCHANGED dispatcher
       \/ /\ drain \/ (items = {} /\ cancelled)
          /\ dispatcher' = "returned" /\ UNCHANGED <<items, started, running>>
       \/ /\ items = {} /\ ~drain /\ ~cancelled
          /\ dispatcher' = "wait" /\ UNCHANGED <<items, started, running>>
    /\ UNCHANGED <<arrived, position, drain, fetcher, committing, committed, mainVars, errors>>

Pop ==
    /\ dispatcher = "pop"
    /\ \/ /\ \E i \in items : Started(i)
          /\ UNCHANGED dispatcher
       \/ /\ items = {} /\ (drain \/ cancelled)
          /\ dispatcher' = "returned" /\ UNCHANGED <<items, started, running>>
       \/ /\ items = {} /\ ~drain /\ ~cancelled
          /\ dispatcher' = "wait" /\ UNCHANGED <<items, started, running>>
    /\ UNCHANGED <<arrived, position, drain, fetcher, committing, committed, mainVars, errors>>

\* process returns; what it does is the subject of module Worker.
Process(i) ==
    /\ i \in running
    /\ running' = running \ {i} /\ committing' = committing \cup {i}
    /\ UNCHANGED <<arrived, position, queueVars, fetcher, started, committed, mainVars, errors>>

Commit(i) ==
    /\ i \in committing
    /\ committing' = committing \ {i}
    /\ CommitMessages(i)
    /\ UNCHANGED <<arrived, position, queueVars, fetcher, started, running, mainVars>>

----------------------------------------------------------------------------
(***************************************************************************)
(* The rest of main, and the messages that arrive.                         *)
(***************************************************************************)
RequestDrain ==
    /\ ~drainRequested /\ drainRequested' = TRUE
    /\ UNCHANGED <<arrived, position, queueVars, fetcher, goVars, committed,
                   cancelled, alive, errors>>

\* main waits for a signal, which may come at any time, or for the end of
\* RunConsumer, and cancels the context;
Cancel ==
    /\ Signals \/ dispatcher = "returned"
    /\ ~cancelled /\ cancelled' = TRUE
    /\ UNCHANGED <<arrived, position, queueVars, fetcher, goVars, committed,
                   drainRequested, alive, errors>>

\* and it returns without waiting for anything, which ends the process.
Exit ==
    /\ cancelled /\ alive' = FALSE
    /\ UNCHANGED <<arrived, position, queueVars, fetcher, goVars, committed,
                   drainRequested, cancelled, errors>>

Arrive(m) ==
    /\ Len(arrived) < MaxMessages
    /\ arrived' = Append(arrived, m)
    /\ UNCHANGED <<position, queueVars, fetcher, goVars, committed, mainVars, errors>>

FetcherStep == Check \/ FetchMessage \/ Push \/ Skip

ConsumerNext ==
    /\ alive
    /\ \/ FetcherStep \/ Pop
       \/ \E i \in started : Process(i) \/ Commit(i)
       \/ RequestDrain \/ Cancel \/ Exit
       \/ \E m \in Message : Arrive(m)

\* The goroutines of the consumer and main are scheduled; main notices the end
\* of RunConsumer.  Nothing is assumed of handlers and clients.
ConsumerSpec ==
    /\ ConsumerInit /\ [][ConsumerNext]_conVars
    /\ WF_conVars(alive /\ FetcherStep)
    /\ WF_conVars(alive /\ Pop)
    /\ WF_conVars(alive /\ dispatcher = "returned" /\ Cancel)
    /\ WF_conVars(alive /\ Exit)

----------------------------------------------------------------------------
(***************************************************************************)
(* Correctness.                                                            *)
(***************************************************************************)
\* A drain empties the queue: when RunConsumer returns without the context
\* being cancelled, every message it could read has its goroutine.
DrainEmptiesQueue ==
    [][dispatcher' = "returned" /\ dispatcher # "returned" /\ ~cancelled
          => /\ items = {}
             /\ \A i \in 1 .. position : arrived[i].readable => i \in started]_conVars

\* A message in the queue gets its goroutine in the end: no Push is missed by
\* a loop that waits, and none is starved by the others.
StartedInTheEnd ==
    \A i \in 1 .. MaxMessages : (i \in items) ~> (i \in started \/ ~alive)

\* A drain ends the process, unless the fetch goroutine waits for a message
\* that does not come: only between two fetches is the flag looked at.
DrainEndsUnlessIdle ==
    drainRequested ~>
        (~alive \/ (fetcher = "fetch" /\ position = Len(arrived)))

\* A process that ends because it was drained, not signalled, ends after its
\* current work.
DrainFinishesWork == ~alive => running = {} /\ committing = {}
=============================================================================
