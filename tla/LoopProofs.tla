----------------------------- MODULE LoopProofs -----------------------------
(***************************************************************************)
(* Theorems about the two loops of a worker process that have a module of  *)
(* their own, the consumer with its priority queue and the outbox          *)
(* processor, for any number of messages, emails, processes and failures.  *)
(***************************************************************************)
EXTENDS Consumer, Outbox, SequenceTheorems, FiniteSetTheorems, TLAPS

----------------------------------------------------------------------------
(***************************************************************************)
(* The consumer.                                                           *)
(***************************************************************************)

\* A message that was fetched and can be read is in the fetch goroutine's hand,
\* in the queue or with a goroutine of its own.
NothingMislaid ==
    \A i \in 1 .. position :
        arrived[i].readable =>
            i \in items \cup started \/ (i = position /\ fetcher = "push")

\* The message about to be pushed is the one fetched last, and is not yet in
\* the queue; nothing is pushed after the drain is set.
InHand ==
    /\ fetcher \in {"push", "skip"} =>
          position > 0 /\ position \notin items \cup started
    /\ drain => fetcher = "ended"

ConsumerInv == ConsumerTypeOK /\ NothingMislaid /\ InHand

LEMMA ConsumerInitInv == ConsumerInit => ConsumerInv
  <1> SUFFICES ASSUME ConsumerInit
               PROVE  ConsumerInv
    OBVIOUS
  <1>1. arrived \in Seq(Message) /\ Len(arrived) = 0
    BY DEF ConsumerInit
  <1>2. 1 .. position = {} /\ 0 \in 0 .. MaxErrors
    BY ConsumerAssumption DEF ConsumerInit
  <1>3. position \in 0 .. Len(arrived) /\ committed \in 0 .. position
    BY <1>1 DEF ConsumerInit
  <1>4. ConsumerTypeOK
    BY <1>1, <1>2, <1>3, Zenon DEF ConsumerInit, ConsumerTypeOK
  <1> QED
    BY <1>2, <1>4 DEF ConsumerInit, ConsumerInv, NothingMislaid, InHand

----------------------------------------------------------------------------
(***************************************************************************)
(* The fetch goroutine.                                                    *)
(***************************************************************************)
LEMMA CheckStep ==
    ASSUME ConsumerInv, Check
    PROVE  ConsumerInv'
  BY DEF ConsumerInv, ConsumerTypeOK, NothingMislaid, InHand, Check, SetDrain, Signal,
         queueVars, goVars, mainVars

LEMMA FetchStep ==
    ASSUME ConsumerInv, FetchMessage
    PROVE  ConsumerInv'
  <1> USE DEF FetchMessage, queueVars, goVars, mainVars
  <1>0. /\ fetcher = "fetch" /\ ~drain
        /\ UNCHANGED <<arrived, started, running, committing, committed,
                       drainRequested, cancelled, alive>>
    BY DEF ConsumerInv, InHand
  <1>1. CASE position < Len(arrived) /\ position' = position + 1
             /\ fetcher' = (IF arrived[position'].readable THEN "push" ELSE "skip")
             /\ UNCHANGED <<queueVars, errors>>
    <2>1. /\ position \in Nat /\ Len(arrived) \in Nat /\ position' \in 1 .. Len(arrived)
          /\ 1 .. position \subseteq 1 .. position'
          /\ position' \notin 1 .. position
      BY <1>0, <1>1 DEF ConsumerInv, ConsumerTypeOK
    <2>2. ConsumerTypeOK'
      BY <1>0, <1>1, <2>1 DEF ConsumerInv, ConsumerTypeOK
    <2>3. InHand'
      BY <1>0, <1>1, <2>1 DEF ConsumerInv, ConsumerTypeOK, InHand
    <2>4. NothingMislaid'
      <3> SUFFICES ASSUME NEW i \in 1 .. position', arrived[i].readable
                   PROVE  i \in items \cup started \/ (i = position' /\ fetcher' = "push")
        BY <1>0, <1>1 DEF NothingMislaid
      <3>1. CASE i = position'
        BY <1>1, <3>1
      <3>2. CASE i # position'
        <4>1. i \in 1 .. position
          BY <1>1, <2>1, <3>2
        <4> QED
          BY <1>0, <4>1 DEF ConsumerInv, NothingMislaid
      <3> QED
        BY <3>1, <3>2
    <2> QED
      BY <2>2, <2>3, <2>4 DEF ConsumerInv
  <1>2. CASE cancelled /\ SetDrain /\ fetcher' = "ended" /\ UNCHANGED <<position, errors>>
    BY <1>0, <1>2 DEF ConsumerInv, ConsumerTypeOK, NothingMislaid, InHand, SetDrain, Signal
  <1>3. CASE ~cancelled /\ Error /\ fetcher' = "check" /\ UNCHANGED <<position, queueVars>>
    BY <1>0, <1>3, ConsumerAssumption
       DEF ConsumerInv, ConsumerTypeOK, NothingMislaid, InHand, Error
  <1> QED
    BY <1>1, <1>2, <1>3

LEMMA PushStep ==
    ASSUME ConsumerInv, Push
    PROVE  ConsumerInv'
  BY DEF ConsumerInv, ConsumerTypeOK, NothingMislaid, InHand, Push, PushItem, Signal,
         goVars, mainVars

LEMMA CommitType ==
    ASSUME ConsumerTypeOK, NEW i \in 1 .. position, CommitMessages(i)
    PROVE  committed' \in 0 .. position /\ errors' \in 0 .. MaxErrors
  BY ConsumerAssumption DEF ConsumerTypeOK, CommitMessages, Error

LEMMA SkipStep ==
    ASSUME ConsumerInv, Skip
    PROVE  ConsumerInv'
  <1>1. position \in 1 .. position
    BY DEF ConsumerInv, ConsumerTypeOK, InHand, Skip
  <1>2. committed' \in 0 .. position /\ errors' \in 0 .. MaxErrors
    BY <1>1, CommitType DEF ConsumerInv, Skip
  <1> QED
    BY <1>2 DEF ConsumerInv, ConsumerTypeOK, NothingMislaid, InHand, Skip,
                queueVars, goVars, mainVars

----------------------------------------------------------------------------
(***************************************************************************)
(* The dispatch loop, its goroutines, main and what arrives.               *)
(***************************************************************************)
LEMMA PopStep ==
    ASSUME ConsumerInv, Pop
    PROVE  ConsumerInv'
  BY DEF ConsumerInv, ConsumerTypeOK, NothingMislaid, InHand, Pop, Started, mainVars

LEMMA GoroutineStep ==
    ASSUME ConsumerInv, NEW i \in started, Process(i) \/ Commit(i)
    PROVE  ConsumerInv'
  <1>1. CASE Process(i)
    BY <1>1 DEF ConsumerInv, ConsumerTypeOK, NothingMislaid, InHand, Process,
                queueVars, mainVars
  <1>2. CASE Commit(i)
    <2>1. committed' \in 0 .. position /\ errors' \in 0 .. MaxErrors
      BY <1>2, CommitType DEF ConsumerInv, ConsumerTypeOK, Commit
    <2> QED
      BY <1>2, <2>1 DEF ConsumerInv, ConsumerTypeOK, NothingMislaid, InHand, Commit,
                        queueVars, mainVars
  <1> QED
    BY <1>1, <1>2

LEMMA ArriveStep ==
    ASSUME ConsumerInv, NEW m \in Message, Arrive(m)
    PROVE  ConsumerInv'
  <1>1. /\ arrived' \in Seq(Message) /\ Len(arrived') = Len(arrived) + 1
        /\ \A i \in 1 .. Len(arrived) : arrived'[i] = arrived[i]
    BY DEF ConsumerInv, ConsumerTypeOK, Arrive
  <1>2. position \in 0 .. Len(arrived) /\ Len(arrived) \in Nat
    BY DEF ConsumerInv, ConsumerTypeOK
  <1>3. position \in 0 .. Len(arrived') /\ 1 .. position \subseteq 1 .. Len(arrived)
    BY <1>1, <1>2
  <1>4. /\ UNCHANGED <<position, items, drain, dispatcher, fetcher, started, running>>
        /\ UNCHANGED <<committing, committed, mainVars, errors>>
    BY DEF Arrive, queueVars, goVars
  <1>5. ConsumerTypeOK'
    BY <1>1, <1>3, <1>4 DEF ConsumerInv, ConsumerTypeOK, mainVars
  <1>6. NothingMislaid'
    <2> SUFFICES ASSUME NEW i \in 1 .. position, arrived'[i].readable
                 PROVE  i \in items \cup started \/ (i = position /\ fetcher = "push")
      BY <1>4 DEF NothingMislaid
    <2>1. arrived[i].readable
      BY <1>1, <1>3
    <2> QED
      BY <2>1 DEF ConsumerInv, NothingMislaid
  <1>7. InHand'
    BY <1>4 DEF ConsumerInv, InHand
  <1> QED
    BY <1>5, <1>6, <1>7 DEF ConsumerInv

LEMMA MainStep ==
    ASSUME ConsumerInv, RequestDrain \/ Cancel \/ Exit
    PROVE  ConsumerInv'
  <1>1. /\ UNCHANGED <<arrived, position, items, drain, dispatcher, fetcher, started>>
        /\ UNCHANGED <<running, committing, committed, errors>>
    BY DEF RequestDrain, Cancel, Exit, queueVars, goVars
  <1>2. drainRequested' \in BOOLEAN /\ cancelled' \in BOOLEAN /\ alive' \in BOOLEAN
    BY Zenon DEF ConsumerInv, ConsumerTypeOK, RequestDrain, Cancel, Exit
  <1>3. ConsumerTypeOK'
    BY <1>1, <1>2 DEF ConsumerInv, ConsumerTypeOK
  <1> QED
    BY <1>1, <1>3 DEF ConsumerInv, NothingMislaid, InHand

LEMMA ConsumerStep == ConsumerInv /\ [ConsumerNext]_conVars => ConsumerInv'
  <1> SUFFICES ASSUME ConsumerInv, [ConsumerNext]_conVars
               PROVE  ConsumerInv'
    OBVIOUS
  <1>1. CASE UNCHANGED conVars
    BY <1>1 DEF conVars, ConsumerInv, ConsumerTypeOK, NothingMislaid, InHand
  <1>2. CASE FetcherStep
    BY <1>2, CheckStep, FetchStep, PushStep, SkipStep DEF FetcherStep
  <1> QED
    BY <1>1, <1>2, PopStep, GoroutineStep, MainStep, ArriveStep DEF ConsumerNext

LEMMA ConsumerAlways == ConsumerSpec => []ConsumerInv
  BY ConsumerInitInv, ConsumerStep, PTL DEF ConsumerSpec

----------------------------------------------------------------------------
\* Every variable keeps its type: a message is in the queue, with its goroutine
\* or waiting for its commit, and in one of these only; no offset is committed
\* that was not fetched.
THEOREM ConsumerTypes == ConsumerSpec => []ConsumerTypeOK
  BY ConsumerAlways, PTL DEF ConsumerInv

\* RunConsumer never returns from a drain with a readable message left behind
\* in the queue or in the fetch goroutine's hand.
THEOREM DrainIsComplete == ConsumerSpec => DrainEmptiesQueue
  <1>1. ConsumerInv /\ [ConsumerNext]_conVars =>
          [dispatcher' = "returned" /\ dispatcher # "returned" /\ ~cancelled
              => /\ items = {}
                 /\ \A i \in 1 .. position : arrived[i].readable => i \in started]_conVars
    <2> SUFFICES ASSUME ConsumerInv, ConsumerNext, dispatcher' = "returned",
                        dispatcher # "returned", ~cancelled
                 PROVE  /\ items = {}
                        /\ \A i \in 1 .. position : arrived[i].readable => i \in started
      OBVIOUS
    <2>1. Pop
      BY DEF ConsumerNext, FetcherStep, Check, FetchMessage, Push, Skip, Process, Commit,
             RequestDrain, Cancel, Exit, Arrive, SetDrain, PushItem, Signal,
             queueVars, goVars, mainVars
    <2>2. items = {} /\ drain
      BY <2>1 DEF Pop
    <2>3. fetcher = "ended"
      BY <2>2 DEF ConsumerInv, InHand
    <2> QED
      BY <2>2, <2>3 DEF ConsumerInv, NothingMislaid
  <1> QED
    BY <1>1, ConsumerAlways, PTL DEF ConsumerSpec, DrainEmptiesQueue

----------------------------------------------------------------------------
(***************************************************************************)
(* The outbox processor.                                                   *)
(***************************************************************************)

(***************************************************************************)
(* The shapes of the steps.                                                *)
(***************************************************************************)
LEMMA SetStatusType ==
    ASSUME OutboxTypeOK, NEW i \in DOMAIN outbox, NEW status \in {"pending", "sent", "failed"},
           outbox' = [outbox EXCEPT ![i].status = status]
    PROVE  /\ outbox' \in Seq(OutboxRecord) /\ Len(outbox') = Len(outbox)
           /\ \A k \in DOMAIN outbox :
                 outbox'[k].status = IF k = i THEN status ELSE outbox[k].status
  <1>1. /\ outbox \in Seq(OutboxRecord) /\ i \in 1 .. Len(outbox)
        /\ DOMAIN outbox = 1 .. Len(outbox)
    BY LenProperties DEF OutboxTypeOK, StoreTypeOK
  <1>2. outbox[i] \in OutboxRecord
    BY <1>1, ElementOfSeq
  <1> DEFINE new == [outbox[i] EXCEPT !.status = status]
  <1>3. new \in OutboxRecord /\ new.status = status
    BY <1>2 DEF OutboxRecord
  <1>4. outbox' = [outbox EXCEPT ![i] = new]
    OBVIOUS
  <1> HIDE DEF new
  <1> QED
    BY <1>1, <1>3, <1>4, ExceptSeq

LEMMA MailedType ==
    ASSUME OutboxTypeOK, NEW i \in DOMAIN outbox, mails' = [mails EXCEPT ![i] = mails[i] + 1]
    PROVE  /\ mails' \in Seq(Nat) /\ Len(mails') = Len(mails)
           /\ \A k \in DOMAIN mails : mails'[k] = IF k = i THEN mails[k] + 1 ELSE mails[k]
  <1>1. mails \in Seq(Nat) /\ i \in 1 .. Len(mails) /\ DOMAIN mails = 1 .. Len(mails)
    BY LenProperties DEF OutboxTypeOK, StoreTypeOK
  <1>2. mails[i] + 1 \in Nat
    BY <1>1, ElementOfSeq
  <1> QED
    BY <1>1, <1>2, ExceptSeq

\* A new row comes after the others, and nothing was mailed for it.
LEMMA AddedRow ==
    ASSUME OutboxTypeOK, NEW j \in Jobs, AddRow(j)
    PROVE  /\ outbox' \in Seq(OutboxRecord) /\ mails' \in Seq(Nat)
           /\ Len(outbox') = Len(outbox) + 1 /\ Len(mails') = Len(mails) + 1
           /\ \A k \in DOMAIN outbox : outbox'[k] = outbox[k] /\ mails'[k] = mails[k]
           /\ mails'[Len(mails) + 1] = 0
           /\ outbox'[Len(outbox) + 1].status = "pending"
  <1> DEFINE row == [job |-> j, status |-> "pending"]
  <1>1. row \in OutboxRecord /\ row.status = "pending"
    BY DEF OutboxRecord
  <1>2. /\ outbox \in Seq(OutboxRecord) /\ mails \in Seq(Nat) /\ Len(mails) = Len(outbox)
        /\ DOMAIN outbox = 1 .. Len(outbox) /\ 0 \in Nat
    BY LenProperties DEF OutboxTypeOK, StoreTypeOK
  <1>3. outbox' = Append(outbox, row) /\ mails' = Append(mails, 0)
    BY DEF AddRow
  <1> HIDE DEF row
  <1>4. /\ outbox' \in Seq(OutboxRecord) /\ Len(outbox') = Len(outbox) + 1
        /\ \A k \in 1 .. Len(outbox) : outbox'[k] = outbox[k]
        /\ outbox'[Len(outbox) + 1] = row
    BY <1>1, <1>2, <1>3, AppendProperties
  <1>5. /\ mails' \in Seq(Nat) /\ Len(mails') = Len(mails) + 1
        /\ \A k \in 1 .. Len(mails) : mails'[k] = mails[k]
        /\ mails'[Len(mails) + 1] = 0
    BY <1>2, <1>3, AppendProperties
  <1> QED
    BY <1>1, <1>2, <1>4, <1>5

----------------------------------------------------------------------------
(***************************************************************************)
(* The types.                                                              *)
(***************************************************************************)
Rows == DOMAIN outbox

LEMMA RowsAre == OutboxTypeOK =>
    /\ Rows = 1 .. Len(outbox) /\ DOMAIN mails = Rows /\ Len(outbox) \in Nat
    /\ \A i \in Rows : outbox[i] \in OutboxRecord /\ mails[i] \in Nat
  BY LenProperties, ElementOfSeq DEF OutboxTypeOK, StoreTypeOK, Rows

LEMMA OutboxInitTypes == OutboxInit => OutboxTypeOK
  BY StoreAssumption DEF OutboxInit, StoreInit, OutboxTypeOK, StoreTypeOK, Outcomes

LEMMA OutboxFaults ==
    ASSUME OutboxTypeOK, UNCHANGED faults \/ \E kind : Fault(kind)
    PROVE  /\ faults' \in 0 .. MaxFaults /\ faults \in Nat /\ faults' \in Nat
           /\ faults' \in {faults, faults + 1}
           /\ (\E kind : Fault(kind)) => faults' = faults + 1
  BY StoreAssumption DEF OutboxTypeOK, StoreTypeOK, Fault

LEMMA OutboxTypeStep ==
    ASSUME OutboxTypeOK, [OutboxNext]_outboxVars
    PROVE  OutboxTypeOK'
  <1>0. /\ jobs \in [Jobs -> JobRecord \cup {NoRow}] /\ paused \in SUBSET Queues
        /\ outbox \in Seq(OutboxRecord) /\ faults \in 0 .. MaxFaults
        /\ batch \in [Senders -> SUBSET Rows] /\ outcome \in [Senders -> Outcomes]
        /\ \A s \in Senders : outcome[s] # "none" => batch[s] # {}
        /\ mails \in Seq(Nat) /\ Len(mails) = Len(outbox)
        /\ connected \subseteq Senders /\ silent \subseteq Rows
    BY DEF OutboxTypeOK, StoreTypeOK, Rows
  <1>1. UNCHANGED <<jobs, paused, connected>>
    BY DEF OutboxNext, outboxVars, AddRow, SenderStep, List, Send, Mark, SenderCrash, storeVars,
           senderVars
  <1>2. ASSUME NEW s \in Senders, List(s)
        PROVE  OutboxTypeOK'
    <2>1. FirstPending \in SUBSET Rows
      BY DEF FirstPending, Pending, Rows
    <2>2. batch' = [batch EXCEPT ![s] = FirstPending] /\ outcome[s] = "none"
      BY <1>0, <1>2 DEF List
    <2>3. UNCHANGED <<outbox, faults, outcome, mails, silent>>
      BY <1>2 DEF List, storeVars, sentVars
    <2> QED
      BY <1>0, <1>1, <2>1, <2>2, <2>3 DEF OutboxTypeOK, StoreTypeOK, Rows
  <1>3. ASSUME NEW s \in Senders, NEW i \in DOMAIN outbox, Send(s, i)
        PROVE  OutboxTypeOK'
    <2>1. UNCHANGED faults \/ \E kind : Fault(kind)
      BY <1>3 DEF Send, SendNothing, SendMail
    <2>2. mails' \in Seq(Nat) /\ Len(mails') = Len(outbox)
      <3>1. mails' = mails \/ mails' = [mails EXCEPT ![i] = mails[i] + 1]
        BY <1>3 DEF Send, SendNothing, SendMail
      <3> QED
        BY <1>0, <3>1, MailedType
    <2>3. PICK o \in {"nil", "error"} : outcome' = [outcome EXCEPT ![s] = o]
      BY <1>3 DEF Send, SendNothing, SendMail
    <2>4. batch[s] # {} /\ UNCHANGED <<outbox, batch>>
      BY <1>3 DEF Send, AtRow, storeVars
    <2>5. silent' \subseteq Rows
      BY <1>0, <1>3 DEF Send, SendNothing, SendMail, Rows
    <2> QED
      BY <1>0, <1>1, <2>1, <2>2, <2>3, <2>4, <2>5, OutboxFaults
      DEF OutboxTypeOK, StoreTypeOK, Rows, Outcomes
  <1>4. ASSUME NEW s \in Senders, NEW i \in DOMAIN outbox, Mark(s, i)
        PROVE  OutboxTypeOK'
    <2>1. UNCHANGED faults \/ \E kind : Fault(kind)
      BY <1>4 DEF Mark
    <2>2. outbox' \in Seq(OutboxRecord) /\ Len(outbox') = Len(outbox)
      <3>1. outbox' = outbox \/ \E status \in {"sent", "failed"} :
                                   outbox' = [outbox EXCEPT ![i].status = status]
        BY <1>4 DEF Mark
      <3> QED
        BY <1>0, <3>1, SetStatusType
    <2>3. DOMAIN outbox' = Rows
      BY <1>0, <2>2, LenProperties DEF Rows
    <2>4. /\ batch' = [batch EXCEPT ![s] = batch[s] \ {i}]
          /\ outcome' = [outcome EXCEPT ![s] = "none"]
          /\ UNCHANGED <<mails, silent>>
      BY <1>4 DEF Mark, NextRow, sentVars
    <2>5. /\ batch' \in [Senders -> SUBSET Rows] /\ outcome' \in [Senders -> Outcomes]
          /\ \A r \in Senders : outcome'[r] # "none" => batch'[r] # {}
      BY <1>0, <2>4 DEF Outcomes
    <2> QED
      BY <1>0, <1>1, <2>1, <2>2, <2>3, <2>4, <2>5, OutboxFaults DEF OutboxTypeOK, StoreTypeOK
  <1>5. ASSUME NEW s \in Senders, SenderCrash(s)
        PROVE  OutboxTypeOK'
    <2>1. \E kind : Fault(kind)
      BY <1>5 DEF SenderCrash
    <2>2. /\ batch' = [batch EXCEPT ![s] = {}] /\ outcome' = [outcome EXCEPT ![s] = "none"]
          /\ UNCHANGED <<outbox, mails, silent>>
      BY <1>5 DEF SenderCrash, storeVars, sentVars
    <2> QED
      BY <1>0, <1>1, <2>1, <2>2, OutboxFaults DEF OutboxTypeOK, StoreTypeOK, Rows, Outcomes
  <1>6. ASSUME NEW j \in Jobs, AddRow(j)
        PROVE  OutboxTypeOK'
    <2>1. UNCHANGED <<faults, batch, outcome, silent>>
      BY <1>6 DEF AddRow, senderVars
    <2>2. Len(outbox) \in Nat /\ Rows = 1 .. Len(outbox)
      BY RowsAre
    <2>3. DOMAIN outbox' = 1 .. Len(outbox) + 1
      BY <1>6, AddedRow, LenProperties
    <2>4. Rows \subseteq DOMAIN outbox'
      BY <2>2, <2>3
    <2>5. batch' \in [Senders -> SUBSET (DOMAIN outbox')] /\ silent' \subseteq DOMAIN outbox'
      BY <1>0, <2>1, <2>4
    <2> QED
      BY <1>0, <1>1, <1>6, <2>1, <2>5, AddedRow DEF OutboxTypeOK, StoreTypeOK
  <1>7. CASE UNCHANGED outboxVars
    BY <1>0, <1>7 DEF outboxVars, OutboxTypeOK, StoreTypeOK, Rows
  <1> QED
    BY <1>2, <1>3, <1>4, <1>5, <1>6, <1>7 DEF OutboxNext, SenderStep

LEMMA OutboxTypesAlways == OutboxSpec => []OutboxTypeOK
  BY OutboxInitTypes, OutboxTypeStep, PTL DEF OutboxSpec

\* Every variable keeps its type; in particular a processor that has the result
\* of a handler has the row that it is about.
THEOREM OutboxTypes == OutboxSpec => []OutboxTypeOK
  BY OutboxTypesAlways

----------------------------------------------------------------------------
(***************************************************************************)
(* A row is marked sent only after a handler that returned nil, and such a *)
(* handler has sent the mail, or has no server to send it to.              *)
(***************************************************************************)
NilMeansMailed ==
    \A s \in Senders : \A i \in Rows :
        outcome[s] = "nil" /\ AtRow(s, i) /\ i \notin silent => mails[i] > 0

SentInv == SentMeansMailed /\ NilMeansMailed

\* A processor is at one row.
LEMMA OneRow ==
    ASSUME OutboxTypeOK, NEW s \in Senders, NEW i \in Rows, NEW k \in Rows,
           AtRow(s, i), AtRow(s, k)
    PROVE  i = k
  BY RowsAre DEF AtRow

\* A step of one processor leaves what the others are at.
LEMMA SenderSteps ==
    ASSUME OutboxTypeOK, NEW s \in Senders,
           \/ List(s) \/ SenderCrash(s) \/ \E i \in Rows : Send(s, i) \/ Mark(s, i)
    PROVE  /\ \A r \in Senders : r # s => batch'[r] = batch[r] /\ outcome'[r] = outcome[r]
           /\ UNCHANGED connected
  BY DEF OutboxTypeOK, List, SenderCrash, Send, SendNothing, SendMail, Mark, NextRow

\* The mails of a row only become more, by those of a processor that is at it.
LEMMA MailsGrow ==
    ASSUME OutboxTypeOK, NEW s \in Senders, NEW i \in Rows, Send(s, i)
    PROVE  /\ \A k \in Rows : k # i => mails'[k] = mails[k]
           /\ mails'[i] = mails[i] \/ mails'[i] = mails[i] + 1
           /\ outcome'[s] = "nil" /\ i \notin silent' => mails'[i] = mails[i] + 1
           /\ s \notin connected => mails' = mails
  <1>1. outcome'[s] = "nil" /\ i \notin silent' => mails' = [mails EXCEPT ![i] = mails[i] + 1]
    BY DEF Send, SendNothing, SendMail, OutboxTypeOK
  <1>2. /\ mails' = mails \/ mails' = [mails EXCEPT ![i] = mails[i] + 1]
        /\ s \notin connected => mails' = mails
    BY DEF Send, SendNothing, SendMail
  <1> QED
    BY <1>1, <1>2, MailedType, RowsAre DEF Rows

LEMMA SentStep ==
    ASSUME OutboxTypeOK, SentInv, [OutboxNext]_outboxVars
    PROVE  SentInv'
  <1>0. /\ \A i \in Rows : outbox[i].status = "sent" /\ i \notin silent => mails[i] > 0
        /\ \A i \in Rows : mails[i] \in Nat
        /\ Rows = 1 .. Len(outbox) /\ Len(outbox) \in Nat
    BY RowsAre DEF SentInv, SentMeansMailed, Rows
  <1>1. ASSUME NEW s \in Senders, List(s)
        PROVE  SentInv'
    <2>1. outcome[s] = "none" /\ UNCHANGED <<outbox, mails, silent, outcome>>
      BY <1>1 DEF List, OutboxTypeOK, storeVars, sentVars
    <2>2. \A r \in Senders : r # s => batch'[r] = batch[r]
      BY <1>1, SenderSteps
    <2>3. SentMeansMailed'
      BY <2>1 DEF SentInv, SentMeansMailed
    <2>4. NilMeansMailed'
      BY <2>1, <2>2 DEF SentInv, NilMeansMailed, AtRow, Rows
    <2> QED
      BY <2>3, <2>4 DEF SentInv
  <1>2. ASSUME NEW s \in Senders, NEW i \in DOMAIN outbox, Send(s, i)
        PROVE  SentInv'
    <2>0. i \in Rows /\ AtRow(s, i) /\ UNCHANGED <<outbox, batch>> /\ Rows' = Rows
      BY <1>2 DEF Rows, Send, storeVars
    <2>1. \A k \in Rows : mails[k] > 0 => mails'[k] > 0
      BY <1>0, <1>2, <2>0, MailsGrow
    <2>2. outcome'[s] = "nil" /\ i \notin silent' => mails'[i] > 0
      BY <1>0, <1>2, <2>0, MailsGrow
    <2>5. silent \subseteq silent'
      BY <1>2 DEF Send, SendNothing, SendMail
    <2>3. SentMeansMailed'
      BY <1>0, <2>0, <2>1, <2>5 DEF SentMeansMailed, Rows
    <2>4. NilMeansMailed'
      <3> SUFFICES ASSUME NEW r \in Senders, NEW k \in Rows, outcome'[r] = "nil", AtRow(r, k),
                          k \notin silent'
                   PROVE  mails'[k] > 0
        BY <2>0 DEF NilMeansMailed, AtRow
      <3>1. CASE r = s
        BY <2>0, <2>2, <3>1, OneRow
      <3>2. CASE r # s
        <4>1. outcome[r] = "nil"
          BY <1>2, <2>0, <3>2, SenderSteps
        <4> QED
          BY <2>1, <2>5, <4>1 DEF SentInv, NilMeansMailed
      <3> QED
        BY <3>1, <3>2
    <2> QED
      BY <2>3, <2>4 DEF SentInv
  <1>3. ASSUME NEW s \in Senders, NEW i \in DOMAIN outbox, Mark(s, i)
        PROVE  SentInv'
    <2>0. i \in Rows /\ AtRow(s, i) /\ UNCHANGED <<mails, silent>> /\ outcome'[s] = "none"
      BY <1>3 DEF Rows, Mark, NextRow, OutboxTypeOK, sentVars
    <2>1. \/ outbox' = outbox
          \/ outcome[s] = "nil" /\ outbox' = [outbox EXCEPT ![i].status = "sent"]
          \/ outbox' = [outbox EXCEPT ![i].status = "failed"]
      BY <1>3 DEF Mark
    <2>2. Rows' = Rows
      BY <1>0, <2>0, <2>1, SetStatusType, LenProperties DEF Rows
    <2>3. outcome[s] = "nil" /\ i \notin silent => mails[i] > 0
      BY <2>0 DEF SentInv, NilMeansMailed
    <2>4. \A k \in Rows : outbox'[k].status = "sent" /\ k \notin silent => mails[k] > 0
      BY <1>0, <2>0, <2>1, <2>3, SetStatusType DEF Rows
    <2>5. SentMeansMailed'
      BY <2>0, <2>2, <2>4 DEF SentMeansMailed, Rows
    <2>6. \A r \in Senders : outcome'[r] = "nil" => r # s
      BY <2>0
    <2>7. \A r \in Senders : r # s => batch'[r] = batch[r] /\ outcome'[r] = outcome[r]
      BY <1>3, <2>0, SenderSteps
    <2>8. NilMeansMailed'
      BY <2>0, <2>2, <2>6, <2>7 DEF SentInv, NilMeansMailed, AtRow
    <2> QED
      BY <2>5, <2>8 DEF SentInv
  <1>4. ASSUME NEW s \in Senders, SenderCrash(s)
        PROVE  SentInv'
    <2>1. outcome'[s] = "none" /\ UNCHANGED <<outbox, mails, silent>>
      BY <1>4 DEF SenderCrash, OutboxTypeOK, storeVars, sentVars
    <2>2. \A r \in Senders : r # s => batch'[r] = batch[r] /\ outcome'[r] = outcome[r]
      BY <1>4, SenderSteps
    <2>3. SentMeansMailed'
      BY <2>1 DEF SentInv, SentMeansMailed
    <2>4. NilMeansMailed'
      BY <2>1, <2>2 DEF SentInv, NilMeansMailed, AtRow, Rows
    <2> QED
      BY <2>3, <2>4 DEF SentInv
  <1>5. ASSUME NEW j \in Jobs, AddRow(j)
        PROVE  SentInv'
    <2>1. UNCHANGED <<batch, outcome, silent>>
      BY <1>5 DEF AddRow, senderVars
    <2>2. Rows' = Rows \cup {Len(outbox) + 1}
      <3>1. DOMAIN outbox' = 1 .. Len(outbox) + 1
        BY <1>5, AddedRow, LenProperties
      <3>2. \A n \in Nat : 1 .. n + 1 = (1 .. n) \cup {n + 1}
        OBVIOUS
      <3> QED
        BY <1>0, <3>1, <3>2 DEF Rows
    <2>3. /\ \A k \in Rows : outbox'[k] = outbox[k] /\ mails'[k] = mails[k]
          /\ outbox'[Len(outbox) + 1].status = "pending"
      BY <1>5, AddedRow DEF Rows
    <2>4. SentMeansMailed'
      BY <1>0, <2>1, <2>2, <2>3 DEF SentMeansMailed, Rows
    <2>5. \A s \in Senders : batch[s] \subseteq Rows
      BY DEF OutboxTypeOK, Rows
    <2>6. NilMeansMailed'
      BY <2>1, <2>2, <2>3, <2>5 DEF SentInv, NilMeansMailed, AtRow
    <2> QED
      BY <2>4, <2>6 DEF SentInv
  <1>6. CASE UNCHANGED outboxVars
    BY <1>6 DEF outboxVars, SentInv, SentMeansMailed, NilMeansMailed, AtRow, Rows
  <1> QED
    BY <1>1, <1>2, <1>3, <1>4, <1>5, <1>6 DEF OutboxNext, SenderStep

\* No row says sent without a mail, unless a processor that has no SMTP server took
\* it, however many processors work on it and whatever fails.
THEOREM SentIsMailed == OutboxSpec => []SentMeansMailed
  <1>1. OutboxInit => SentInv
    BY DEF OutboxInit, StoreInit, SentInv, SentMeansMailed, NilMeansMailed, Rows
  <1>2. SentInv /\ OutboxTypeOK /\ [OutboxNext]_outboxVars => SentInv'
    BY SentStep
  <1>3. SentInv => SentMeansMailed
    BY DEF SentInv
  <1> QED
    BY <1>1, <1>2, <1>3, OutboxTypesAlways, PTL DEF OutboxSpec

----------------------------------------------------------------------------
(***************************************************************************)
(* How many mails go out.  As long as a row is pending, every mail of it   *)
(* is one of a processor that has yet to mark it, or had a failure since.  *)
(* Once it is not, only those that have listed it before still send.       *)
(* Processors without a server count for neither.                          *)
(***************************************************************************)
Mailing(i) == {s \in connected : outcome[s] # "none" /\ AtRow(s, i)}

Listing(i) == {s \in connected : i \in batch[s] /\ ~(outcome[s] # "none" /\ AtRow(s, i))}

\* The two halves of the argument, for a row.
WhilePending(i) ==
    outbox[i].status = "pending" => mails[i] <= Cardinality(Mailing(i)) + faults

Afterwards(i) == mails[i] + Cardinality(Listing(i)) <= Cardinality(connected) + faults

MailInv == \A i \in Rows : WhilePending(i) /\ Afterwards(i)

\* Disjoint sets of processors are together no more than all.
LEMMA Room ==
    ASSUME NEW C \in SUBSET Senders, NEW A \in SUBSET C, NEW B \in SUBSET C, A \cap B = {}
    PROVE  /\ Cardinality(A) \in Nat /\ Cardinality(B) \in Nat /\ Cardinality(C) \in Nat
           /\ Cardinality(A) + Cardinality(B) <= Cardinality(C)
  <1>1. IsFiniteSet(C)
    BY OutboxAssumption, FS_Subset
  <1>2. IsFiniteSet(A) /\ IsFiniteSet(B)
    BY <1>1, FS_Subset
  <1>3. /\ Cardinality(A) \in Nat /\ Cardinality(B) \in Nat /\ Cardinality(C) \in Nat
    BY <1>1, <1>2, FS_CardinalityType
  <1>4. Cardinality(A \cup B) = Cardinality(A) + Cardinality(B) - 0
    BY <1>2, FS_Union, FS_EmptySet
  <1>5. Cardinality(A \cup B) <= Cardinality(C)
    BY <1>1, FS_Subset
  <1> QED
    BY <1>3, <1>4, <1>5

\* One processor more or less.
LEMMA OneMore ==
    ASSUME NEW A \in SUBSET Senders, NEW s \in Senders
    PROVE  /\ Cardinality(A) \in Nat /\ Cardinality(A \ {s}) \in Nat
           /\ Cardinality(A \ {s}) <= Cardinality(A)
           /\ Cardinality(A) <= Cardinality(A \ {s}) + 1
           /\ s \in A => Cardinality(A) = Cardinality(A \ {s}) + 1
           /\ s \notin A => Cardinality(A \cup {s}) = Cardinality(A) + 1
  <1>1. IsFiniteSet(A)
    BY OutboxAssumption, FS_Subset
  <1>2. IsFiniteSet(A \ {s})
    BY <1>1, FS_RemoveElement
  <1>3. Cardinality(A) \in Nat /\ Cardinality(A \ {s}) \in Nat
    BY <1>1, <1>2, FS_CardinalityType
  <1>4. Cardinality(A \ {s}) = IF s \in A THEN Cardinality(A) - 1 ELSE Cardinality(A)
    BY <1>1, FS_RemoveElement
  <1>5. s \notin A => Cardinality(A \cup {s}) = Cardinality(A) + 1
    BY <1>1, FS_AddElement
  <1> QED
    BY <1>3, <1>4, <1>5

\* While a row is pending, the second half follows from the first.
LEMMA Halves ==
    ASSUME NEW m \in Nat, NEW f \in Nat, NEW C \in SUBSET Senders,
           NEW A \in SUBSET C, NEW B \in SUBSET C,
           A \cap B = {}, m <= Cardinality(A) + f
    PROVE  m + Cardinality(B) <= Cardinality(C) + f
  BY Room

\* The processors that the two halves count.
LEMMA Counted ==
    ASSUME OutboxTypeOK
    PROVE  /\ connected \in SUBSET Senders
           /\ Cardinality(connected) \in Nat
           /\ \A i : /\ Mailing(i) \in SUBSET connected /\ Mailing(i) \in SUBSET Senders
                    /\ Listing(i) \in SUBSET connected /\ Listing(i) \in SUBSET Senders
                    /\ Cardinality(Mailing(i)) \in Nat /\ Cardinality(Listing(i)) \in Nat
  <1>1. connected \in SUBSET Senders
    BY DEF OutboxTypeOK
  <1>2. \A A \in SUBSET Senders : Cardinality(A) \in Nat
    BY OutboxAssumption, FS_Subset, FS_CardinalityType
  <1> QED
    BY <1>1, <1>2 DEF Mailing, Listing

\* What is said of a row stays true when no one comes to it or leaves it.
LEMMA SameCounts ==
    ASSUME OutboxTypeOK, NEW i \in Rows, WhilePending(i), Afterwards(i),
           outbox'[i].status = outbox[i].status, mails'[i] = mails[i],
           faults' \in {faults, faults + 1}, UNCHANGED connected,
           Mailing(i)' = Mailing(i), Listing(i)' = Listing(i)
    PROVE  (WhilePending(i) /\ Afterwards(i))'
  <1>1. mails[i] \in Nat /\ faults \in Nat
    BY RowsAre DEF OutboxTypeOK, StoreTypeOK
  <1> QED
    BY <1>1, Counted DEF WhilePending, Afterwards

\* A step of a processor may bring it to a row, take it from it, or neither; one
\* without a server is not counted and mails nothing.
LEMMA SendCounts ==
    ASSUME OutboxTypeOK, NEW s \in Senders, NEW i \in Rows, Send(s, i), WhilePending(i), Afterwards(i)
    PROVE  (WhilePending(i) /\ Afterwards(i))'
  <1>1. /\ AtRow(s, i) /\ i \in batch[s] /\ outcome[s] = "none" /\ outcome'[s] # "none"
        /\ UNCHANGED <<outbox, batch, connected>>
    BY DEF Send, SendNothing, SendMail, AtRow, storeVars, OutboxTypeOK
  <1>2. \A r \in Senders : r # s => outcome'[r] = outcome[r]
    BY SenderSteps
  <1>3. mails[i] \in Nat /\ mails'[i] \in {mails[i], mails[i] + 1}
    BY MailsGrow, RowsAre
  <1>4. faults \in Nat /\ faults' \in {faults, faults + 1}
    BY OutboxFaults DEF Send, SendNothing, SendMail
  <1>5. CASE s \in connected
    <2>1. Mailing(i)' = Mailing(i) \cup {s} /\ s \notin Mailing(i)
      BY <1>1, <1>2, <1>5, Counted DEF Mailing, AtRow
    <2>2. Listing(i)' = Listing(i) \ {s} /\ s \in Listing(i)
      BY <1>1, <1>2, <1>5, Counted DEF Listing, AtRow
    <2>3. /\ Cardinality(Mailing(i)') = Cardinality(Mailing(i)) + 1
          /\ Cardinality(Listing(i)) = Cardinality(Listing(i)') + 1
          /\ Cardinality(Mailing(i)) \in Nat /\ Cardinality(Listing(i)') \in Nat
      BY <2>1, <2>2, Counted, OneMore
    <2>4. WhilePending(i)'
      BY <1>1, <1>3, <1>4, <2>3 DEF WhilePending
    <2>5. Afterwards(i)'
      BY <1>1, <1>3, <1>4, <2>3, Counted DEF Afterwards
    <2> QED
      BY <2>4, <2>5
  <1>6. CASE s \notin connected
    <2>1. mails'[i] = mails[i]
      BY <1>6, MailsGrow
    <2>2. Mailing(i)' = Mailing(i) /\ Listing(i)' = Listing(i)
      BY <1>1, <1>2, <1>6, Counted DEF Mailing, Listing, AtRow
    <2> QED
      BY <1>1, <1>4, <2>1, <2>2, SameCounts
  <1> QED
    BY <1>5, <1>6

LEMMA ListCounts ==
    ASSUME OutboxTypeOK, NEW s \in Senders, NEW i \in Rows, List(s), WhilePending(i), Afterwards(i)
    PROVE  (WhilePending(i) /\ Afterwards(i))'
  <1>1. /\ batch[s] = {} /\ outcome[s] = "none" /\ batch'[s] = FirstPending
        /\ UNCHANGED <<outbox, mails, outcome, faults>>
    BY DEF List, OutboxTypeOK, storeVars, sentVars
  <1>2. UNCHANGED connected /\ \A r \in Senders : r # s => batch'[r] = batch[r]
    BY SenderSteps
  <1>3. Mailing(i)' = Mailing(i)
    BY <1>1, <1>2, Counted DEF Mailing, AtRow
  <1>4. CASE outbox[i].status = "pending"
    <2>1. mails[i] <= Cardinality(Mailing(i)) + faults
      BY <1>4 DEF WhilePending
    <2>2. WhilePending(i)'
      BY <1>1, <1>3, <2>1 DEF WhilePending
    <2>3. /\ Mailing(i) \in SUBSET connected /\ Listing(i)' \in SUBSET connected
          /\ Mailing(i) \cap Listing(i)' = {}
      BY <1>1, <1>2, Counted DEF Mailing, Listing, AtRow
    <2>4. mails[i] \in Nat /\ faults \in Nat
      BY RowsAre DEF OutboxTypeOK, StoreTypeOK
    <2>5. mails[i] + Cardinality(Listing(i)') <= Cardinality(connected) + faults
      BY <2>1, <2>3, <2>4, Counted, Halves
    <2>6. Afterwards(i)'
      BY <1>1, <1>2, <2>5 DEF Afterwards
    <2> QED
      BY <2>2, <2>6
  <1>5. CASE outbox[i].status # "pending"
    <2>1. i \notin FirstPending
      BY <1>5 DEF FirstPending, Pending
    <2>2. Listing(i)' = Listing(i)
      BY <1>1, <1>2, <2>1, Counted DEF Listing, AtRow
    <2> QED
      BY <1>1, <1>2, <1>3, <2>2, SameCounts
  <1> QED
    BY <1>4, <1>5

\* A row that is marked is not pending any more, unless the update failed.
LEMMA MarkCounts ==
    ASSUME OutboxTypeOK, NEW s \in Senders, NEW i \in Rows, Mark(s, i), WhilePending(i), Afterwards(i)
    PROVE  (WhilePending(i) /\ Afterwards(i))'
  <1>1. /\ AtRow(s, i) /\ outcome[s] # "none" /\ outcome'[s] = "none"
        /\ batch'[s] = batch[s] \ {i} /\ UNCHANGED mails
    BY DEF Mark, NextRow, OutboxTypeOK, sentVars
  <1>2. /\ UNCHANGED connected
        /\ \A r \in Senders : r # s => batch'[r] = batch[r] /\ outcome'[r] = outcome[r]
    BY SenderSteps
  <1>3. Mailing(i)' = Mailing(i) \ {s}
    BY <1>1, <1>2, Counted DEF Mailing, AtRow
  <1>4. Listing(i)' = Listing(i)
    BY <1>1, <1>2, Counted DEF Listing, AtRow
  <1>5. /\ Mailing(i) \in SUBSET Senders /\ Listing(i) \in SUBSET Senders
    BY Counted
  <1>6. /\ Cardinality(Mailing(i)) \in Nat /\ Cardinality(Mailing(i)') \in Nat
        /\ Cardinality(Mailing(i)) <= Cardinality(Mailing(i)') + 1
        /\ Cardinality(Listing(i)) \in Nat /\ Cardinality(connected) \in Nat
    BY <1>3, <1>5, OneMore, Counted
  <1>7. mails[i] \in Nat /\ faults \in Nat /\ faults' \in {faults, faults + 1}
    BY RowsAre, OutboxFaults DEF Mark, OutboxTypeOK, StoreTypeOK
  <1>8. Afterwards(i)'
    BY <1>1, <1>2, <1>4, <1>6, <1>7 DEF Afterwards
  <1>9. \/ outbox'[i].status # "pending"
        \/ outbox' = outbox /\ faults' = faults + 1
    <2>1. \/ \E status \in {"sent", "failed"} : outbox' = [outbox EXCEPT ![i].status = status]
          \/ outbox' = outbox /\ \E kind : Fault(kind)
      BY DEF Mark
    <2> QED
      BY <2>1, SetStatusType, OutboxFaults DEF Rows
  <1>10. WhilePending(i)'
    BY <1>1, <1>6, <1>7, <1>9 DEF WhilePending
  <1> QED
    BY <1>8, <1>10

\* A processor that dies leaves its rows, at the price of a failure.
LEMMA CrashCounts ==
    ASSUME OutboxTypeOK, NEW s \in Senders, NEW i \in Rows, SenderCrash(s), WhilePending(i),
           Afterwards(i)
    PROVE  (WhilePending(i) /\ Afterwards(i))'
  <1>1. outcome'[s] = "none" /\ batch'[s] = {} /\ UNCHANGED <<outbox, mails>>
    BY DEF SenderCrash, OutboxTypeOK, storeVars, sentVars
  <1>2. /\ UNCHANGED connected
        /\ \A r \in Senders : r # s => batch'[r] = batch[r] /\ outcome'[r] = outcome[r]
    BY SenderSteps
  <1>3. Mailing(i)' = Mailing(i) \ {s} /\ Listing(i)' = Listing(i) \ {s}
    BY <1>1, <1>2, Counted DEF Mailing, Listing, AtRow
  <1>4. Mailing(i) \in SUBSET Senders /\ Listing(i) \in SUBSET Senders
    BY Counted
  <1>5. /\ Cardinality(Mailing(i)) \in Nat /\ Cardinality(Mailing(i)') \in Nat
        /\ Cardinality(Mailing(i)) <= Cardinality(Mailing(i)') + 1
        /\ Cardinality(Listing(i)) \in Nat /\ Cardinality(Listing(i)') \in Nat
        /\ Cardinality(Listing(i)') <= Cardinality(Listing(i))
        /\ Cardinality(connected) \in Nat
    BY <1>3, <1>4, OneMore, Counted
  <1>6. mails[i] \in Nat /\ faults \in Nat /\ faults' = faults + 1
    BY RowsAre, OutboxFaults DEF SenderCrash, OutboxTypeOK, StoreTypeOK
  <1> QED
    BY <1>1, <1>2, <1>5, <1>6 DEF WhilePending, Afterwards

\* A processor that is at one row is not at another.
LEMMA ElsewhereCounts ==
    ASSUME OutboxTypeOK, NEW s \in Senders, NEW i \in Rows, NEW k \in Rows, i # k,
           Send(s, k) \/ Mark(s, k), WhilePending(i), Afterwards(i)
    PROVE  (WhilePending(i) /\ Afterwards(i))'
  <1>1. AtRow(s, k) /\ i \in batch'[s] <=> i \in batch[s]
    BY DEF Send, Mark, NextRow, AtRow, OutboxTypeOK
  <1>2. /\ UNCHANGED connected
        /\ \A r \in Senders : r # s => batch'[r] = batch[r] /\ outcome'[r] = outcome[r]
    BY SenderSteps
  <1>3. ~AtRow(s, i)
    BY OneRow DEF Send, Mark
  <1>4. ~(outcome'[s] # "none" /\ AtRow(s, i)')
    <2>1. CASE Send(s, k)
      BY <1>3, <2>1 DEF Send, AtRow
    <2>2. CASE Mark(s, k)
      BY <2>2 DEF Mark, NextRow, OutboxTypeOK
    <2> QED
      BY <2>1, <2>2
  <1>5. i \in batch'[s] <=> i \in batch[s]
    BY DEF Send, Mark, NextRow, AtRow, OutboxTypeOK
  <1>6. Mailing(i)' = Mailing(i)
    BY <1>2, <1>3, <1>4, Counted DEF Mailing, AtRow
  <1>7. Listing(i)' = Listing(i)
    BY <1>2, <1>3, <1>4, <1>5, Counted DEF Listing, AtRow
  <1>8. outbox'[i].status = outbox[i].status /\ mails'[i] = mails[i]
    <2>1. CASE Send(s, k)
      BY <2>1, MailsGrow DEF Send, storeVars
    <2>2. CASE Mark(s, k)
      <3>1. \/ outbox' = outbox
            \/ \E status \in {"sent", "failed"} : outbox' = [outbox EXCEPT ![k].status = status]
        BY <2>2 DEF Mark
      <3>2. UNCHANGED mails
        BY <2>2 DEF Mark, sentVars
      <3> QED
        BY <3>1, <3>2, SetStatusType DEF Rows
    <2> QED
      BY <2>1, <2>2
  <1>9. faults' \in {faults, faults + 1}
    BY OutboxFaults DEF Send, SendNothing, SendMail, Mark
  <1> QED
    BY <1>2, <1>6, <1>7, <1>8, <1>9, SameCounts

LEMMA MailStep ==
    ASSUME OutboxTypeOK, MailInv, [OutboxNext]_outboxVars
    PROVE  MailInv'
  <1>1. ASSUME NEW s \in Senders, SenderStep(s) \/ SenderCrash(s)
        PROVE  MailInv'
    <2>1. Rows' = Rows
      <3>1. \/ outbox' = outbox
            \/ \E i \in DOMAIN outbox, status \in {"sent", "failed"} :
                  outbox' = [outbox EXCEPT ![i].status = status]
        BY <1>1 DEF SenderStep, List, Send, Mark, SenderCrash, storeVars
      <3> QED
        BY <3>1, SetStatusType, LenProperties, RowsAre DEF Rows
    <2>2. ASSUME NEW i \in Rows
          PROVE  (WhilePending(i) /\ Afterwards(i))'
      <3>1. WhilePending(i) /\ Afterwards(i)
        BY DEF MailInv
      <3>2. CASE List(s)
        BY <3>1, <3>2, ListCounts
      <3>3. CASE SenderCrash(s)
        BY <3>1, <3>3, CrashCounts
      <3>4. ASSUME NEW k \in Rows, Send(s, k) \/ Mark(s, k)
            PROVE  (WhilePending(i) /\ Afterwards(i))'
        BY <3>1, <3>4, SendCounts, MarkCounts, ElsewhereCounts
      <3> QED
        BY <1>1, <3>2, <3>3, <3>4 DEF SenderStep, Rows
    <2> QED
      BY <2>1, <2>2 DEF MailInv
  <1>2. ASSUME NEW j \in Jobs, AddRow(j)
        PROVE  MailInv'
    <2>0. Rows = 1 .. Len(outbox) /\ Len(outbox) \in Nat /\ Len(mails) = Len(outbox)
      BY RowsAre DEF OutboxTypeOK
    <2>1. UNCHANGED <<batch, outcome, faults, connected>>
      BY <1>2 DEF AddRow, senderVars
    <2>2. DOMAIN outbox' = 1 .. Len(outbox) + 1
      BY <1>2, AddedRow, LenProperties
    <2>3. ASSUME NEW i \in Rows
          PROVE  (WhilePending(i) /\ Afterwards(i))'
      <3>1. WhilePending(i) /\ Afterwards(i)
        BY DEF MailInv
      <3>2. outbox'[i] = outbox[i] /\ mails'[i] = mails[i]
        BY <1>2, AddedRow DEF Rows
      <3>3. Mailing(i)' = Mailing(i) /\ Listing(i)' = Listing(i)
        BY <2>1 DEF Mailing, Listing, AtRow
      <3> QED
        BY <2>1, <3>1, <3>2, <3>3, SameCounts
    <2>4. PICK n : n = Len(outbox) + 1
      OBVIOUS
    <2>5. (WhilePending(n) /\ Afterwards(n))'
      <3>1. mails'[n] = 0
        BY <1>2, <2>0, <2>4, AddedRow
      <3>2. \A s \in Senders : n \notin batch[s]
        BY <2>0, <2>4 DEF OutboxTypeOK, Rows
      <3>3. Mailing(n)' = {} /\ Listing(n)' = {}
        BY <2>1, <3>2, Counted DEF Mailing, Listing, AtRow
      <3>4. Cardinality({}) = 0 /\ Cardinality(connected) \in Nat /\ faults \in Nat
        BY FS_EmptySet, Counted DEF OutboxTypeOK, StoreTypeOK
      <3> QED
        BY <2>1, <3>1, <3>3, <3>4 DEF WhilePending, Afterwards
    <2>6. \A m \in Nat : \A i \in 1 .. m + 1 : i \in 1 .. m \/ i = m + 1
      OBVIOUS
    <2>7. \A i \in Rows' : i \in Rows \/ i = n
      BY <2>0, <2>2, <2>4, <2>6 DEF Rows
    <2> QED
      BY <2>3, <2>5, <2>7 DEF MailInv
  <1>3. CASE UNCHANGED outboxVars
    BY <1>3 DEF outboxVars, MailInv, WhilePending, Afterwards, Mailing, Listing, AtRow, Rows
  <1> QED
    BY <1>1, <1>2, <1>3 DEF OutboxNext

\* However many processors there are and however large their batches, a row's
\* mail goes out once per processor with a server at most, and once more for each
\* failure.
THEOREM OneMailEach == OutboxSpec => []OneMailPerFault
  <1>1. OutboxInit => MailInv
    BY DEF OutboxInit, StoreInit, MailInv, Rows
  <1>2. MailInv /\ OutboxTypeOK /\ [OutboxNext]_outboxVars => MailInv'
    BY MailStep
  <1>3. OutboxTypeOK /\ MailInv => OneMailPerFault
    <2> SUFFICES ASSUME OutboxTypeOK, MailInv, NEW i \in DOMAIN mails
                 PROVE  mails[i] <= Cardinality(connected) + faults
      BY DEF OneMailPerFault
    <2>1. i \in Rows /\ mails[i] \in Nat /\ faults \in Nat
      BY RowsAre DEF OutboxTypeOK, StoreTypeOK
    <2>2. Cardinality(Listing(i)) \in Nat /\ Cardinality(connected) \in Nat
      BY Counted
    <2> QED
      BY <2>1, <2>2 DEF MailInv, Afterwards
  <1> QED
    BY <1>1, <1>2, <1>3, OutboxTypesAlways, PTL DEF OutboxSpec
=============================================================================
