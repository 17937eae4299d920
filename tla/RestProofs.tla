----------------------------- MODULE RestProofs -----------------------------
(***************************************************************************)
(* Theorems about the REST layer: for every limit, any number of queues    *)
(* and clients, and through restarts, a bucket grants no more than it      *)
(* promises, and Retry-After is long enough; and the calls it makes keep   *)
(* the types and the keys of the backend.                                  *)
(***************************************************************************)
EXTENDS RestApi, BackendProofs, TLAPS

----------------------------------------------------------------------------
(***************************************************************************)
(* The buckets.  What bucket b has granted since time s and what it holds  *)
(* come out of the burst and of what the limit has brought since; and as   *)
(* long as nothing was granted after s, it has filled by as much since,    *)
(* whatever it held then.                                                  *)
(***************************************************************************)
Times == 1 .. MaxTime

Spent(b, s) == Token * granted[b][s] + level[b]

Bounded ==
    \A b \in Buckets : \A s \in Times :
        s <= now => Spent(b, s) <= Capacity(b) + Gain(b, now - s)

\* Nothing was taken from the bucket later than s.
LeftAlone(b, s) == s < now => granted[b][s + 1] = 0

Refilled ==
    \A b \in Buckets : \A s \in Times :
        s <= now /\ LeftAlone(b, s) => level[b] >= Filled(b, Gain(b, now - s))

NothingAhead == \A b \in Buckets : \A s \in Times : s > now => granted[b][s] = 0

LimitInv ==
    /\ ClockTypeOK /\ LimiterTypeOK
    /\ \A b \in Buckets : level[b] <= Capacity(b)
    /\ Bounded /\ Refilled /\ NothingAhead

\* A request in progress names a bucket.
HttpTypeOK == http \in [Callers -> HttpRequest]

----------------------------------------------------------------------------
(***************************************************************************)
(* Arithmetic of the buckets.                                              *)
(***************************************************************************)
LEMMA CapacityNat ==
    ASSUME NEW b \in Buckets
    PROVE  /\ Capacity(b) \in Nat
           /\ Limited(b) => Capacity(b) >= Token
  <1> DEFINE n == PerMinute[b]
  <1>1. n \in Nat
    BY LimiterAssumption
  <1>2. Burst(n) \in Nat /\ (n > 0 => Burst(n) >= 1)
    BY <1>1, SMT DEF Burst
  <1> QED
    BY <1>1, <1>2, SMT DEF Capacity, Limited, Token

\* What a bucket gains is what it gains in each step of the clock.
LEMMA GainAdds ==
    ASSUME NEW b \in Buckets, NEW n \in Nat
    PROVE  /\ Gain(b, n) \in Nat
           /\ Gain(b, 0) = 0
           /\ Gain(b, n + 1) = Gain(b, n) + Gain(b, 1)
  <1> DEFINE k == PerMinute[b] * TickSeconds
  <1>1. k \in Nat
    BY LimiterAssumption
  <1>2. k * n \in Nat /\ k * 0 = 0 /\ k * (n + 1) = k * n + k * 1
    BY <1>1, SMT
  <1> QED
    BY <1>2 DEF Gain

\* In 60 seconds a limited bucket gains a token.
LEMMA GainOfMinute ==
    ASSUME NEW b \in Buckets, Limited(b), NEW n \in Nat, n * TickSeconds >= 60
    PROVE  Gain(b, n) >= Token
  <1> DEFINE k == PerMinute[b]  t == TickSeconds
  <1>1. k \in Nat /\ k >= 1 /\ t \in Nat
    BY LimiterAssumption DEF Limited
  <1> HIDE DEF k, t
  <1>2. k * t * n = k * (n * t)
    BY <1>1, SMT
  <1>3. ASSUME NEW m \in Nat, m >= 60
        PROVE  k * m >= 60
    BY <1>1, <1>3, SMT
  <1>4. n * t \in Nat /\ n * t >= 60
    BY <1>1, SMT DEF t
  <1> QED
    BY <1>2, <1>3, <1>4 DEF Gain, Token, k, t

----------------------------------------------------------------------------
(***************************************************************************)
(* The four things a step may do to the limiter.                           *)
(***************************************************************************)
Untouched == UNCHANGED <<now, limiterVars>>

Grant(b) == b \in Buckets /\ AllowedBy(b) /\ UNCHANGED now

Emptied ==
    /\ level' = [b \in Buckets |-> Capacity(b)]
    /\ granted' = [b \in Buckets |-> [s \in 1 .. MaxTime |-> 0]]
    /\ UNCHANGED now

LEMMA LimitInit == RestInit => LimitInv
  <1> SUFFICES ASSUME RestInit
               PROVE  LimitInv
    OBVIOUS
  <1>1. now = 1 /\ ClockTypeOK
    BY ClockAssumption DEF RestInit, ClockInit, ClockTypeOK
  <1>2. \A b \in Buckets : level[b] = Capacity(b) /\ \A s \in Times : granted[b][s] = 0
    BY DEF RestInit, LimiterInit, Times
  <1>3. LimiterTypeOK
    BY CapacityNat DEF RestInit, LimiterInit, LimiterTypeOK
  <1>4. ASSUME NEW b \in Buckets, NEW s \in Times, s <= now
        PROVE  /\ Spent(b, s) <= Capacity(b) + Gain(b, now - s)
               /\ level[b] >= Filled(b, Gain(b, now - s))
    <2>1. now - s \in Nat
      BY <1>1, <1>4 DEF Times
    <2>2. Gain(b, now - s) \in Nat
      BY <2>1, GainAdds
    <2> QED
      BY <1>2, <2>2, CapacityNat, SMT DEF Spent, Filled, Token
  <1> QED
    BY <1>1, <1>2, <1>3, <1>4, CapacityNat, SMT DEF LimitInv, Bounded, Refilled, NothingAhead

LEMMA GrantKeepsLimit ==
    ASSUME LimitInv, NEW b, Grant(b)
    PROVE  LimitInv'
  <1>1. b \in Buckets /\ now' = now
    BY DEF Grant
  <1>2. CASE UNCHANGED limiterVars
    BY <1>1, <1>2 DEF LimitInv, ClockTypeOK, LimiterTypeOK, limiterVars, Bounded, Refilled,
                      LeftAlone, NothingAhead, Spent
  <1>3. CASE ~UNCHANGED limiterVars
    <2>1. /\ level[b] >= Token
          /\ level' = [level EXCEPT ![b] = level[b] - Token]
          /\ granted' = [granted EXCEPT ![b] =
                [s \in 1 .. MaxTime |-> granted[b][s] + IF s <= now THEN 1 ELSE 0]]
      BY <1>3 DEF Grant, AllowedBy
    <2>2. level \in [Buckets -> Nat] /\ granted \in [Buckets -> [Times -> Nat]]
      BY DEF LimitInv, LimiterTypeOK, Times
    <2>3. level'[b] = level[b] - Token /\ level'[b] \in Nat
      BY <1>1, <2>1, <2>2, SMT DEF Token
    <2>4. \A s \in Times : granted'[b][s] = granted[b][s] + IF s <= now THEN 1 ELSE 0
      BY <1>1, <2>1, <2>2 DEF Times
    <2>5. \A c \in Buckets : c # b => level'[c] = level[c] /\ granted'[c] = granted[c]
      BY <2>1, <2>2
    <2>6. now \in Times
      BY DEF LimitInv, ClockTypeOK, Times
    <2>7. \A s \in Times : s \in Nat /\ granted[b][s] \in Nat /\ granted'[b][s] \in Nat
      <3>1. \A s \in Times : s \in Nat
        BY SMT DEF Times
      <3>2. \A s \in Times : granted[b][s] \in Nat
        BY <1>1, <2>2
      <3> QED
        BY <2>4, <3>1, <3>2, SMT
    <2>8. LimiterTypeOK'
      <3>1. level' \in [Buckets -> Nat]
        BY <2>1, <2>2, <2>3
      <3>2. \A s \in Times : (granted[b][s] + IF s <= now THEN 1 ELSE 0) \in Nat
        BY <2>4, <2>7
      <3>3. granted' \in [Buckets -> [Times -> Nat]]
        BY <2>1, <2>2, <3>2 DEF Times
      <3> QED
        BY <3>1, <3>3 DEF LimiterTypeOK, Times
    <2>9. \A c \in Buckets : level'[c] <= Capacity(c)
      <3>1. \A c \in Buckets : level[c] <= Capacity(c)
        BY DEF LimitInv
      <3>2. level'[b] <= Capacity(b)
        BY <1>1, <2>2, <2>3, <3>1, CapacityNat, SMT DEF Token
      <3> QED
        BY <2>5, <3>1, <3>2
    <2>10. Bounded'
      <3> SUFFICES ASSUME NEW c \in Buckets, NEW s \in Times, s <= now
                   PROVE  Spent(c, s)' <= Capacity(c) + Gain(c, now - s)
        BY <1>1 DEF Bounded
      <3>1. Spent(c, s) <= Capacity(c) + Gain(c, now - s)
        BY DEF LimitInv, Bounded
      <3>2. Spent(c, s)' = Spent(c, s)
        <4>1. CASE c # b
          BY <2>5, <4>1 DEF Spent
        <4>2. CASE c = b
          <5>1. granted'[b][s] = granted[b][s] + 1
            BY <2>4
          <5>2. level[b] \in Nat /\ granted[b][s] \in Nat
            BY <1>1, <2>2
          <5> QED
            BY <2>3, <4>2, <5>1, <5>2, SMT DEF Spent, Token
        <4> QED
          BY <4>1, <4>2
      <3> QED
        BY <3>1, <3>2
    <2>11. Refilled'
      <3> SUFFICES ASSUME NEW c \in Buckets, NEW s \in Times, s <= now,
                          s < now => granted'[c][s + 1] = 0
                   PROVE  level'[c] >= Filled(c, Gain(c, now - s))
        BY <1>1 DEF Refilled, Filled, LeftAlone
      <3>1. CASE c # b
        <4>1. s < now => granted[c][s + 1] = 0
          <5>1. s < now => s + 1 \in Times
            BY <2>6, ClockAssumption, SMT DEF Times
          <5> QED
            BY <2>5, <3>1, <5>1
        <4> QED
          BY <2>5, <3>1, <4>1 DEF LimitInv, Refilled, LeftAlone
      <3>2. CASE c = b
        <4>1. s = now
          <5> SUFFICES ASSUME s < now
                       PROVE  FALSE
            BY <2>6, ClockAssumption, SMT DEF Times
          <5>1. s + 1 \in Times /\ s + 1 <= now
            BY <2>6, ClockAssumption, SMT DEF Times
          <5> QED
            BY <2>4, <2>7, <3>2, <5>1, SMT
        <4>2. now - s = 0
          BY <2>6, <4>1, ClockAssumption, SMT DEF Times
        <4>3. Gain(c, now - s) = 0
          BY <4>2, GainAdds
        <4>4. level'[c] \in Nat /\ Capacity(c) \in Nat
          BY <2>8, CapacityNat DEF LimiterTypeOK
        <4> QED
          BY <4>3, <4>4, SMT DEF Filled
      <3> QED
        BY <3>1, <3>2
    <2>12. NothingAhead'
      <3> SUFFICES ASSUME NEW c \in Buckets, NEW s \in Times, s > now
                   PROVE  granted'[c][s] = 0
        BY <1>1 DEF NothingAhead
      <3>1. granted[c][s] = 0
        BY DEF LimitInv, NothingAhead
      <3>2. c = b => granted'[c][s] = granted[c][s] + 0
        BY <2>4, <2>6, <2>7, SMT
      <3> QED
        BY <2>5, <3>1, <3>2, SMT
    <2> QED
      BY <1>1, <2>8, <2>9, <2>10, <2>11, <2>12 DEF LimitInv, ClockTypeOK
  <1> QED
    BY <1>2, <1>3

\* The clock moves on: a time that has passed has brought one step more, and
\* the time just reached has brought nothing and seen nothing granted.
LEMMA RefillKeepsLimit ==
    ASSUME LimitInv, Refill
    PROVE  LimitInv'
  <1>1. now \in Times /\ now' = now + 1 /\ now' \in Times /\ granted' = granted
    BY ClockAssumption, SMT DEF LimitInv, ClockTypeOK, Refill, Tick, Times
  <1>2. level \in [Buckets -> Nat] /\ granted \in [Buckets -> [Times -> Nat]]
    BY DEF LimitInv, LimiterTypeOK, Times
  <1>3. \A b \in Buckets : level'[b] = Filled(b, level[b] + Gain(b, 1))
    BY DEF Refill
  <1>4. ASSUME NEW b \in Buckets
        PROVE  /\ level[b] \in Nat /\ level[b] <= Capacity(b)
               /\ Capacity(b) \in Nat /\ Gain(b, 1) \in Nat
               /\ level'[b] \in Nat /\ level'[b] <= Capacity(b)
               /\ level'[b] <= level[b] + Gain(b, 1)
    <2>1. level[b] \in Nat /\ level[b] <= Capacity(b) /\ Capacity(b) \in Nat
      BY <1>2, CapacityNat DEF LimitInv
    <2>2. Gain(b, 1) \in Nat
      BY GainAdds
    <2> QED
      BY <1>3, <2>1, <2>2, SMT DEF Filled
  <1>5. LimiterTypeOK'
    BY <1>1, <1>2, <1>4 DEF Refill, LimiterTypeOK, Times
  <1>6. ASSUME NEW b \in Buckets, NEW s \in Times, s <= now
        PROVE  /\ now - s \in Nat
               /\ Gain(b, now - s) \in Nat
               /\ Gain(b, now' - s) = Gain(b, now - s) + Gain(b, 1)
    <2>1. now - s \in Nat /\ now' - s = (now - s) + 1
      BY <1>1, <1>6, SMT DEF Times
    <2> QED
      BY <2>1, GainAdds
  <1>7. ASSUME NEW b \in Buckets, NEW s \in Times, s <= now', ~(s <= now)
        PROVE  Gain(b, now' - s) = 0 /\ granted[b][s] = 0
    <2>1. now' - s = 0 /\ s > now
      BY <1>1, <1>7, SMT DEF Times
    <2> QED
      BY <2>1, GainAdds DEF LimitInv, NothingAhead
  <1>8. Bounded'
    <2> SUFFICES ASSUME NEW b \in Buckets, NEW s \in Times, s <= now'
                 PROVE  Token * granted[b][s] + level'[b] <= Capacity(b) + Gain(b, now' - s)
      BY <1>1 DEF Bounded, Spent, Capacity, Gain
    <2>1. CASE s <= now
      <3>1. Token * granted[b][s] + level[b] <= Capacity(b) + Gain(b, now - s)
        BY <2>1 DEF LimitInv, Bounded, Spent
      <3>2. granted[b][s] \in Nat
        BY <1>2
      <3> QED
        BY <1>4, <1>6, <2>1, <3>1, <3>2, SMT DEF Token
    <2>2. CASE ~(s <= now)
      BY <1>4, <1>7, <2>2, SMT DEF Token
    <2> QED
      BY <2>1, <2>2
  <1>9. Refilled'
    <2> SUFFICES ASSUME NEW b \in Buckets, NEW s \in Times, s <= now',
                        s < now' => granted[b][s + 1] = 0
                 PROVE  level'[b] >= Filled(b, Gain(b, now' - s))
      BY <1>1 DEF Refilled, Filled, Capacity, Gain, LeftAlone
    <2>1. CASE s <= now
      <3>0. LeftAlone(b, s)
        BY <1>1, <2>1, SMT DEF LeftAlone, Times
      <3>1. level[b] >= Filled(b, Gain(b, now - s))
        BY <2>1, <3>0 DEF LimitInv, Refilled
      <3> QED
        BY <1>3, <1>4, <1>6, <2>1, <3>1, SMT DEF Filled
    <2>2. CASE ~(s <= now)
      BY <1>4, <1>7, <2>2, SMT DEF Filled
    <2> QED
      BY <2>1, <2>2
  <1>10. NothingAhead'
    BY <1>1, SMT DEF LimitInv, NothingAhead, Times
  <1> QED
    BY <1>1, <1>4, <1>5, <1>8, <1>9, <1>10 DEF LimitInv, ClockTypeOK, Times, Capacity

LEMMA RestartKeepsLimit ==
    ASSUME LimitInv, Emptied
    PROVE  LimitInv'
  <1>1. now' = now /\ now \in Times
    BY DEF Emptied, LimitInv, ClockTypeOK, Times
  <1>2. \A b \in Buckets :
            /\ level'[b] = Capacity(b) /\ Capacity(b) \in Nat
            /\ \A s \in Times : granted'[b][s] = 0
    BY CapacityNat DEF Emptied, Times
  <1>3. LimiterTypeOK'
    BY <1>2 DEF Emptied, LimiterTypeOK
  <1>4. ASSUME NEW b \in Buckets, NEW s \in Times, s <= now
        PROVE  Gain(b, now - s) \in Nat
    <2>1. now - s \in Nat
      BY <1>1, <1>4, SMT DEF Times
    <2> QED
      BY <2>1, GainAdds
  <1>5. Bounded'
    <2> SUFFICES ASSUME NEW b \in Buckets, NEW s \in Times, s <= now
                 PROVE  Token * granted'[b][s] + level'[b] <= Capacity(b) + Gain(b, now - s)
      BY <1>1 DEF Bounded, Spent, Capacity, Gain
    <2> QED
      BY <1>2, <1>4, SMT DEF Token
  <1>6. Refilled'
    <2> SUFFICES ASSUME NEW b \in Buckets, NEW s \in Times, s <= now
                 PROVE  level'[b] >= Filled(b, Gain(b, now - s))
      BY <1>1 DEF Refilled, Filled, Capacity, Gain
    <2> QED
      BY <1>2, <1>4, SMT DEF Filled
  <1>7. NothingAhead'
    BY <1>2 DEF NothingAhead
  <1>8. \A b \in Buckets : level'[b] <= Capacity(b)
    BY <1>2, SMT
  <1> QED
    BY <1>1, <1>3, <1>5, <1>6, <1>7, <1>8 DEF LimitInv, ClockTypeOK, Times, Capacity

----------------------------------------------------------------------------
(***************************************************************************)
(* The requests.                                                           *)
(***************************************************************************)
LEMMA AskedType ==
    ASSUME NEW op \in AllOps, NEW q \in Buckets, NEW j \in Jobs \cup {NoJob}
    PROVE  Asked(op, q, j) \in HttpRequest
  BY DEF Asked, NoRequest, HttpRequest, RequestPCs, AllOps

LEMMA GoesType ==
    ASSUME HttpTypeOK, NEW c \in Callers, NEW r \in HttpRequest, NEW pc \in RequestPCs,
           Goes(c, r, pc)
    PROVE  HttpTypeOK'
  <1>1. After(r) \in HttpRequest
    BY DEF After, HttpRequest
  <1>2. [After(r) EXCEPT !.pc = pc] \in HttpRequest
    BY <1>1 DEF HttpRequest
  <1> QED
    BY <1>2 DEF Goes, HttpTypeOK

LEMMA AnswersType ==
    ASSUME HttpTypeOK, NEW c \in Callers, NEW r, NEW code, Answers(c, r, code)
    PROVE  HttpTypeOK'
  <1>1. NoRequest \in HttpRequest
    BY RestAssumption DEF NoRequest, HttpRequest, RequestPCs, AllOps
  <1> QED
    BY <1>1 DEF Answers, HttpTypeOK

LEMMA FollowsType ==
    ASSUME HttpTypeOK, NEW c \in Callers, NEW r \in HttpRequest, Follows(c, r)
    PROVE  HttpTypeOK'
  <1>1. "backend" \in RequestPCs
    BY DEF RequestPCs
  <1> QED
    BY <1>1, GoesType, AnswersType DEF Follows

LEMMA HttpInit == RestInit => HttpTypeOK
  BY RestAssumption DEF RestInit, HttpTypeOK, NoRequest, HttpRequest, RequestPCs, AllOps

\* A step either leaves the limiter alone, or asks one bucket of it, or lets
\* the time pass, or ends the process.
LimiterStep ==
    \/ Untouched
    \/ \E b \in Buckets : Grant(b)
    \/ Refill
    \/ Emptied

LEMMA RequestStep ==
    ASSUME HttpTypeOK, NEW c \in Callers, NEW m \in Methods, NEW p \in Paths,
           \/ Misrouted(c, m, p) \/ Read(c, m, p) \/ GetArchived(c, m, p)
           \/ PauseOrUnpause(c, m, p) \/ HandleCancel(c, m, p)
           \/ \E q \in Queues : ReceiveSubmit(c, m, p, q) \/ HandleRetry(c, m, p, q)
    PROVE  HttpTypeOK' /\ LimiterStep
  <1>1. CASE Misrouted(c, m, p)
    BY <1>1, AnswersType DEF Misrouted, LimiterStep, Untouched
  <1>2. CASE Read(c, m, p)
    BY <1>2, AnswersType DEF Read, LimiterStep, Untouched
  <1>3. CASE GetArchived(c, m, p)
    BY <1>3, AnswersType DEF GetArchived, LimiterStep, Untouched
  <1>4. CASE PauseOrUnpause(c, m, p)
    BY <1>4, AnswersType DEF PauseOrUnpause, LimiterStep, Untouched
  <1>5. CASE HandleCancel(c, m, p)
    <2>1. Asked("cancel", Global, p[2]) \in HttpRequest
      BY <1>5, AskedType, RestAssumption DEF HandleCancel, AllOps
    <2>2. Follows(c, Asked("cancel", Global, p[2])) /\ UNCHANGED limiterVars /\ UNCHANGED now
      BY <1>5 DEF HandleCancel, Cancel, CancelRefused
    <2> QED
      BY <2>1, <2>2, FollowsType DEF LimiterStep, Untouched
  <1>6. ASSUME NEW q \in Queues, ReceiveSubmit(c, m, p, q)
        PROVE  HttpTypeOK' /\ LimiterStep
    <2>1. Asked("submit", q, NoJob) \in HttpRequest /\ "global" \in RequestPCs
      BY AskedType, RestAssumption DEF AllOps, RequestPCs
    <2> QED
      BY <1>6, <2>1, GoesType, AnswersType DEF ReceiveSubmit, LimiterStep, Untouched
  <1>7. ASSUME NEW q \in Queues, HandleRetry(c, m, p, q)
        PROVE  HttpTypeOK' /\ LimiterStep
    <2>1. Asked("retry", q, p[2]) \in HttpRequest
      BY <1>7, AskedType, RestAssumption DEF HandleRetry, AllOps
    <2>2. Follows(c, Asked("retry", q, p[2])) /\ UNCHANGED limiterVars /\ UNCHANGED now
      BY <1>7 DEF HandleRetry, RetryArchived, RetryRefused
    <2> QED
      BY <2>1, <2>2, FollowsType DEF LimiterStep, Untouched
  <1> QED
    BY <1>1, <1>2, <1>3, <1>4, <1>5, <1>6, <1>7

LEMMA CallStepKeepsTime ==
    ASSUME NEW c \in Callers, CallStep(c)
    PROVE  UNCHANGED now
  BY DEF CallStep, Lookup, Create, Enqueue, CancelWrite, Requeue, Record

LEMMA ServeStep ==
    ASSUME HttpTypeOK, NEW c \in Callers, AskGlobal(c) \/ AskQueue(c) \/ BackendStep(c)
    PROVE  HttpTypeOK' /\ LimiterStep
  <1>0. http[c] \in HttpRequest /\ {"queue", "backend"} \subseteq RequestPCs
    BY DEF HttpTypeOK, RequestPCs
  <1>1. CASE AskGlobal(c)
    <2>1. HttpTypeOK'
      BY <1>0, <1>1, GoesType, AnswersType DEF AskGlobal
    <2>2. LimiterStep
      BY <1>1, RestAssumption DEF AskGlobal, LimiterStep, Grant, Untouched, RefusedBy
    <2> QED
      BY <2>1, <2>2
  <1>2. CASE AskQueue(c)
    <2>1. HttpTypeOK'
      BY <1>0, <1>2, GoesType, AnswersType DEF AskQueue
    <2>2. http[c].queue \in Buckets
      BY <1>0 DEF HttpRequest
    <2>3. UNCHANGED now /\ (AllowedBy(http[c].queue) \/ RefusedBy(http[c].queue))
      BY <1>2 DEF AskQueue, Submit
    <2> QED
      BY <2>1, <2>2, <2>3 DEF LimiterStep, Grant, Untouched, RefusedBy
  <1>3. CASE BackendStep(c)
    BY <1>0, <1>3, FollowsType, CallStepKeepsTime DEF BackendStep, LimiterStep, Untouched
  <1> QED
    BY <1>1, <1>2, <1>3

LEMMA RestStep ==
    ASSUME HttpTypeOK, [RestNext]_restVars
    PROVE  HttpTypeOK' /\ LimiterStep
  <1>1. CASE UNCHANGED restVars
    BY <1>1 DEF restVars, HttpTypeOK, LimiterStep, Untouched
  <1>2. ASSUME NEW j \in Jobs, NEW status, JobMoves(j, status)
        PROVE  HttpTypeOK' /\ LimiterStep
    BY <1>2 DEF JobMoves, HttpTypeOK, LimiterStep, Untouched
  <1>3. CASE Restart
    <2>1. NoRequest \in HttpRequest
      BY RestAssumption DEF NoRequest, HttpRequest, RequestPCs, AllOps
    <2> QED
      BY <1>3, <2>1 DEF Restart, ApiCrash, HttpTypeOK, LimiterStep, Emptied
  <1>4. CASE Refill /\ UNCHANGED <<storeVars, faults, topic, apiVars, http, answer>>
    BY <1>4 DEF HttpTypeOK, LimiterStep
  <1> QED
    BY <1>1, <1>2, <1>3, <1>4, RequestStep, ServeStep DEF RestNext

LEMMA LimitStep ==
    ASSUME LimitInv, LimiterStep
    PROVE  LimitInv'
  <1>1. CASE Untouched
    BY <1>1 DEF Untouched, limiterVars, LimitInv, ClockTypeOK, LimiterTypeOK, Bounded,
                Refilled, LeftAlone, NothingAhead, Spent
  <1> QED
    BY <1>1, GrantKeepsLimit, RefillKeepsLimit, RestartKeepsLimit DEF LimiterStep

LEMMA LimitAlways == RestSpec => []LimitInv
  <1>1. RestInit => LimitInv /\ HttpTypeOK
    BY LimitInit, HttpInit
  <1>2. (LimitInv /\ HttpTypeOK) /\ [RestNext]_restVars => (LimitInv /\ HttpTypeOK)'
    BY RestStep, LimitStep
  <1> QED
    BY <1>1, <1>2, PTL DEF RestSpec

----------------------------------------------------------------------------
\* From any time on, a bucket grants no more than its burst and what its limit
\* has brought since, whatever the clients send and whenever the process ends.
THEOREM RateIsKept == RestSpec => []WithinRate
  <1>1. LimitInv => WithinRate
    <2> SUFFICES ASSUME LimitInv, NEW b \in Buckets, NEW s \in Times, s <= now
                 PROVE  Token * granted[b][s] <= Capacity(b) + Gain(b, now - s)
      BY DEF WithinRate, Times
    <2>1. level[b] \in Nat /\ granted[b][s] \in Nat
      BY DEF LimitInv, LimiterTypeOK, Times
    <2>2. Token * granted[b][s] + level[b] <= Capacity(b) + Gain(b, now - s)
      BY DEF LimitInv, Bounded, Spent
    <2>3. now - s \in Nat
      BY SMT DEF LimitInv, ClockTypeOK, Times
    <2>4. Gain(b, now - s) \in Nat /\ Capacity(b) \in Nat
      BY <2>3, GainAdds, CapacityNat
    <2> QED
      BY <2>1, <2>2, <2>4, SMT DEF Token
  <1> QED
    BY <1>1, LimitAlways, PTL

\* A client that is told to retry after 60 seconds finds a token then, unless
\* somebody else took one since: no limit is so low that a bucket stays shut.
THEOREM RetryAfterIsEnough == RestSpec => []RetryAfterSuffices
  <1>1. LimitInv => RetryAfterSuffices
    <2> SUFFICES ASSUME LimitInv, NEW b \in Buckets, NEW s \in Times, Limited(b),
                        s < now, (now - s) * TickSeconds >= 60, granted[b][s + 1] = 0
                 PROVE  level[b] >= Token
      BY DEF RetryAfterSuffices, Times
    <2>1. level[b] \in Nat
      BY DEF LimitInv, LimiterTypeOK
    <2>2. now - s \in Nat /\ s <= now
      BY SMT DEF LimitInv, ClockTypeOK, Times
    <2>3. Gain(b, now - s) >= Token
      BY <2>2, GainOfMinute
    <2>4. Gain(b, now - s) \in Nat /\ Capacity(b) \in Nat /\ Capacity(b) >= Token
      BY <2>2, GainAdds, CapacityNat
    <2>5. level[b] >= Filled(b, Gain(b, now - s))
      BY <2>2 DEF LimitInv, Refilled, LeftAlone
    <2> QED
      BY <2>1, <2>3, <2>4, <2>5, SMT DEF Filled, Token
  <1> QED
    BY <1>1, LimitAlways, PTL

----------------------------------------------------------------------------
(***************************************************************************)
(* The backend behind the REST layer.                                      *)
(***************************************************************************)
AnswerCodes == {0, 200, 201, 400, 404, 405, 409, 429, 500, 503}

AnswerTypeOK == answer \in [to : HttpRequest, code : AnswerCodes]

LEMMA BackRequest ==
    ASSUME BackInv, NEW c \in Callers, NEW m \in Methods, NEW p \in Paths,
           \/ Misrouted(c, m, p) \/ Read(c, m, p) \/ GetArchived(c, m, p)
           \/ PauseOrUnpause(c, m, p) \/ HandleCancel(c, m, p)
           \/ \E q \in Queues : ReceiveSubmit(c, m, p, q) \/ HandleRetry(c, m, p, q)
    PROVE  BackInv'
  <1>0. paused \in SUBSET Queues
    BY DEF BackInv, BackTypes, StoreTypeOK
  <1>1. CASE Misrouted(c, m, p)
    BY <1>0, <1>1, BesideBackend DEF Misrouted, storeVars
  <1>2. CASE Read(c, m, p)
    <2>1. UNCHANGED faults \/ \E kind \in FaultKinds : Fault(kind)
      BY <1>2 DEF Read, Fault
    <2>2. UNCHANGED <<storeVars, topic, now, apiVars>>
      BY <1>2 DEF Read
    <2> QED
      BY <1>0, <2>1, <2>2, BesideBackend DEF storeVars
  <1>3. CASE GetArchived(c, m, p)
    <2>1. UNCHANGED faults \/ \E kind \in FaultKinds : Fault(kind)
      BY <1>3 DEF GetArchived, Fault
    <2>2. UNCHANGED <<storeVars, topic, now, apiVars>>
      BY <1>3 DEF GetArchived
    <2> QED
      BY <1>0, <2>1, <2>2, BesideBackend DEF storeVars
  <1>4. CASE PauseOrUnpause(c, m, p)
    <2>1. UNCHANGED faults \/ \E kind \in FaultKinds : Fault(kind)
      BY <1>4 DEF PauseOrUnpause, Fault
    <2>2. paused' \in SUBSET Queues
      BY <1>0, <1>4 DEF PauseOrUnpause
    <2>3. UNCHANGED <<jobs, outbox, topic, now, apiVars>>
      BY <1>4 DEF PauseOrUnpause
    <2> QED
      BY <2>1, <2>2, <2>3, BesideBackend
  <1>5. CASE HandleCancel(c, m, p)
    <2>1. p[2] \in Jobs /\ (Cancel(c, p[2]) \/ CancelRefused(c, p[2]))
      BY <1>5 DEF HandleCancel
    <2> QED
      BY <2>1, BeginTypes, BeginKeys DEF BackInv
  <1>6. ASSUME NEW q \in Queues, ReceiveSubmit(c, m, p, q)
        PROVE  BackInv'
    BY <1>0, <1>6, BesideBackend DEF ReceiveSubmit, storeVars
  <1>7. ASSUME NEW q \in Queues, HandleRetry(c, m, p, q)
        PROVE  BackInv'
    <2>1. p[2] \in Jobs /\ (RetryArchived(c, p[2], q) \/ RetryRefused(c, p[2]))
      BY <1>7 DEF HandleRetry
    <2> QED
      BY <2>1, BeginTypes, BeginKeys DEF BackInv
  <1> QED
    BY <1>1, <1>2, <1>3, <1>4, <1>5, <1>6, <1>7

LEMMA BackServe ==
    ASSUME BackInv, NEW c \in Callers, AskGlobal(c) \/ AskQueue(c) \/ BackendStep(c)
    PROVE  BackInv'
  <1>0. paused \in SUBSET Queues
    BY DEF BackInv, BackTypes, StoreTypeOK
  <1>1. CASE AskGlobal(c)
    BY <1>0, <1>1, BesideBackend DEF AskGlobal, storeVars
  <1>2. CASE AskQueue(c)
    <2>1. CASE UNCHANGED <<storeVars, faults, topic, now, apiVars>>
      BY <1>0, <2>1, BesideBackend DEF storeVars
    <2>2. CASE \E w \in Offered, n \in Budgets, t \in RunAts, k \in Keys \cup {NoKey} :
                  Submit(c, w, n, t, k)
      BY <2>2, ClientSubmit
    <2> QED
      BY <1>2, <2>1, <2>2 DEF AskQueue
  <1>3. CASE BackendStep(c)
    BY <1>3, BackendGoesOn DEF BackendStep
  <1> QED
    BY <1>1, <1>2, <1>3

LEMMA BackStep ==
    ASSUME BackInv, [RestNext]_restVars
    PROVE  BackInv'
  <1>0. paused \in SUBSET Queues
    BY DEF BackInv, BackTypes, StoreTypeOK
  <1>1. CASE UNCHANGED restVars
    BY <1>0, <1>1, BesideBackend DEF restVars, storeVars
  <1>2. ASSUME NEW j \in Jobs, NEW status \in {"processing", "archived"}, JobMoves(j, status)
        PROVE  BackInv'
    <2>1. RowsType /\ status \in Statuses
      BY DEF BackInv, BackTypes, StoreTypeOK, RowsType, Statuses
    <2>2. jobs[j].attempt \in Nat
      BY <1>2, <2>1 DEF JobMoves, RowsType, JobRecord
    <2>3. jobs' = Updated(j, status, jobs[j].attempt)
      BY <1>2 DEF JobMoves
    <2>4. jobs' \in [Jobs -> JobRecord \cup {NoRow}]
      BY <2>1, <2>2, <2>3, UpdatedRowsType
    <2>5. KeepsRows
      BY <2>1, <2>2, <2>3, UpdatedKeeps
    <2>6. UNCHANGED <<paused, outbox, faults, topic, now, apiVars>>
      BY <1>2 DEF JobMoves
    <2>7. BackTypes'
      BY <2>4, <2>6 DEF BackInv, BackTypes, StoreTypeOK, QueueTypeOK, ClockTypeOK,
                        BackendTypeOK, CallJobs, apiVars
    <2>8. KeyInv'
      BY <2>5, <2>6, QuietKeys DEF BackInv, apiVars
    <2> QED
      BY <2>7, <2>8 DEF BackInv
  <1>3. CASE Restart
    BY <1>3, ApiCrashTypes, ApiCrashKeys DEF Restart, BackInv
  <1>4. CASE Refill /\ UNCHANGED <<storeVars, faults, topic, apiVars, http, answer>>
    <2>1. now' \in 1 .. MaxTime
      BY <1>4, ClockAssumption DEF Refill, Tick, BackInv, BackTypes, ClockTypeOK
    <2>2. BackTypes'
      BY <1>4, <2>1 DEF BackInv, BackTypes, StoreTypeOK, QueueTypeOK, ClockTypeOK,
                        BackendTypeOK, CallJobs, apiVars, storeVars
    <2>3. KeyInv'
      BY <1>4, QuietKeys DEF BackInv, KeepsRows, apiVars, storeVars
    <2> QED
      BY <2>2, <2>3 DEF BackInv
  <1> QED
    BY <1>1, <1>2, <1>3, <1>4, BackRequest, BackServe DEF RestNext

LEMMA BackAlways == RestSpec => []BackInv
  <1>1. RestInit => BackInv
    BY BackInitTypes, BackInitKeys DEF RestInit, BackInv
  <1>2. BackInv /\ [RestNext]_restVars => BackInv'
    BY BackStep
  <1> QED
    BY <1>1, <1>2, PTL DEF RestSpec

\* The answers, and what they are made of.
LEMMA ErrorCodes ==
    ASSUME NEW said PROVE ErrorCode(said) \in {400, 409, 500, 503}
  BY DEF ErrorCode

LEMMA AnswerIsTyped ==
    ASSUME AnswerTypeOK, NEW c \in Callers, NEW r \in HttpRequest, NEW code \in AnswerCodes,
           Answers(c, r, code)
    PROVE  AnswerTypeOK'
  <1>1. After(r) \in HttpRequest
    BY DEF After, HttpRequest
  <1> QED
    BY <1>1 DEF Answers, AnswerTypeOK

LEMMA FollowingIsTyped ==
    ASSUME AnswerTypeOK, NEW c \in Callers, NEW r \in HttpRequest, Follows(c, r)
    PROVE  AnswerTypeOK'
  <1>1. ASSUME NEW op, NEW o, NEW code \in Codes(op, o)
        PROVE  code \in AnswerCodes
    BY ErrorCodes DEF Codes, AnswerCodes
  <1>2. CASE UNCHANGED answer
    BY <1>2 DEF AnswerTypeOK
  <1>3. ASSUME NEW code \in Codes(r.op, outcome'[c]), Answers(c, r, code)
        PROVE  AnswerTypeOK'
    BY <1>1, <1>3, AnswerIsTyped
  <1> QED
    BY <1>2, <1>3 DEF Follows, Goes

LEMMA AnswerRequest ==
    ASSUME HttpTypeOK, AnswerTypeOK, NEW c \in Callers, NEW m \in Methods, NEW p \in Paths,
           \/ Misrouted(c, m, p) \/ Read(c, m, p) \/ GetArchived(c, m, p)
           \/ PauseOrUnpause(c, m, p) \/ HandleCancel(c, m, p)
           \/ \E q \in Queues : ReceiveSubmit(c, m, p, q) \/ HandleRetry(c, m, p, q)
    PROVE  AnswerTypeOK'
  <1>0. /\ Global \in Buckets /\ NoJob \in Jobs \cup {NoJob} /\ Queues \subseteq Buckets
        /\ {200, 400, 404, 405, 429, 500, 503} \subseteq AnswerCodes
    BY RestAssumption DEF AnswerCodes
  <1>8. ASSUME NEW code, code = 200 \/ \E said : code = ErrorCode(said)
        PROVE  code \in AnswerCodes
    <2>1. CASE code = 200
      BY <1>0, <2>1
    <2>2. ASSUME NEW said, code = ErrorCode(said)
          PROVE  code \in AnswerCodes
      <3>1. ErrorCode(said) \in {400, 409, 500, 503}
        BY ErrorCodes
      <3>2. {400, 409, 500, 503} \subseteq AnswerCodes
        BY DEF AnswerCodes
      <3> QED
        BY <2>2, <3>1, <3>2
    <2> QED
      BY <1>8, <2>1, <2>2
  <1>1. CASE Misrouted(c, m, p)
    <2>1. /\ Route(m, p) \in {"noRoute", "noMethod"}
          /\ Answers(c, Asked(Route(m, p), Global, NoJob), RouteErrors[Route(m, p)])
      BY <1>1 DEF Misrouted, RouteErrors
    <2>2. RouteErrors[Route(m, p)] \in AnswerCodes
      BY <1>0, <2>1 DEF RouteErrors
    <2>3. Asked(Route(m, p), Global, NoJob) \in HttpRequest
      BY <1>0, <2>1, AskedType DEF AllOps
    <2> QED
      BY <2>1, <2>2, <2>3, AnswerIsTyped
  <1>2. CASE Read(c, m, p)
    <2>1. Route(m, p) \in AllOps
      BY <1>2 DEF Read, AllOps
    <2>2. Asked(Route(m, p), Global, NoJob) \in HttpRequest
      BY <1>0, <2>1, AskedType
    <2>3. PICK code : /\ Answers(c, Asked(Route(m, p), Global, NoJob), code)
                      /\ code = 200 \/ \E said : code = ErrorCode(said)
      BY <1>2 DEF Read
    <2>4. code \in AnswerCodes
      BY <1>8, <2>3
    <2> QED
      BY <2>2, <2>3, <2>4, AnswerIsTyped
  <1>3. CASE GetArchived(c, m, p)
    <2>1. Asked("getArchived", Global, NoJob) \in HttpRequest
      BY <1>0, AskedType DEF AllOps
    <2>2. PICK code \in {200, 404} : Answers(c, Asked("getArchived", Global, NoJob), code)
      BY <1>3 DEF GetArchived
    <2> QED
      BY <1>0, <2>1, <2>2, AnswerIsTyped
  <1>4. CASE PauseOrUnpause(c, m, p)
    <2>1. Route(m, p) \in AllOps
      BY <1>4 DEF PauseOrUnpause, AllOps
    <2>2. Asked(Route(m, p), Global, NoJob) \in HttpRequest
      BY <1>0, <2>1, AskedType
    <2>3. PICK code : /\ Answers(c, Asked(Route(m, p), Global, NoJob), code)
                      /\ code = 200 \/ \E said : code = ErrorCode(said)
      BY <1>4 DEF PauseOrUnpause
    <2>4. code \in AnswerCodes
      BY <1>8, <2>3
    <2> QED
      BY <2>2, <2>3, <2>4, AnswerIsTyped
  <1>5. CASE HandleCancel(c, m, p)
    <2>1. p[2] \in Jobs /\ Follows(c, Asked("cancel", Global, p[2]))
      BY <1>5 DEF HandleCancel
    <2>2. Asked("cancel", Global, p[2]) \in HttpRequest
      <3>1. "cancel" \in AllOps
        BY DEF AllOps
      <3> QED
        BY <1>0, <2>1, <3>1, AskedType
    <2> QED
      BY <2>1, <2>2, FollowingIsTyped
  <1>6. ASSUME NEW q \in Queues, ReceiveSubmit(c, m, p, q)
        PROVE  AnswerTypeOK'
    <2>1. Asked("submit", q, NoJob) \in HttpRequest
      BY <1>0, AskedType DEF AllOps
    <2>2. \/ Answers(c, Asked("submit", q, NoJob), 400)
          \/ UNCHANGED answer
      BY <1>6 DEF ReceiveSubmit, Goes
    <2> QED
      BY <1>0, <2>1, <2>2, AnswerIsTyped DEF AnswerTypeOK
  <1>7. ASSUME NEW q \in Queues, HandleRetry(c, m, p, q)
        PROVE  AnswerTypeOK'
    <2>1. p[2] \in Jobs /\ Follows(c, Asked("retry", q, p[2]))
      BY <1>7 DEF HandleRetry
    <2>2. Asked("retry", q, p[2]) \in HttpRequest
      <3>1. "retry" \in AllOps
        BY DEF AllOps
      <3> QED
        BY <1>0, <2>1, <3>1, AskedType
    <2> QED
      BY <2>1, <2>2, FollowingIsTyped
  <1> QED
    BY <1>1, <1>2, <1>3, <1>4, <1>5, <1>6, <1>7

LEMMA AnswerStep ==
    ASSUME HttpTypeOK, AnswerTypeOK, [RestNext]_restVars
    PROVE  AnswerTypeOK'
  <1>1. ASSUME NEW c \in Callers, AskGlobal(c) \/ AskQueue(c) \/ BackendStep(c)
        PROVE  AnswerTypeOK'
    <2>1. http[c] \in HttpRequest /\ 429 \in AnswerCodes
      BY DEF HttpTypeOK, AnswerCodes
    <2>2. \/ UNCHANGED answer \/ Answers(c, http[c], 429) \/ Follows(c, http[c])
      BY <1>1 DEF AskGlobal, AskQueue, BackendStep, Goes
    <2> QED
      BY <2>1, <2>2, AnswerIsTyped, FollowingIsTyped DEF AnswerTypeOK
  <1>2. CASE UNCHANGED answer
    BY <1>2 DEF AnswerTypeOK
  <1>3. \A j \in Jobs, status \in {"processing", "archived"} :
           JobMoves(j, status) => UNCHANGED answer
    BY DEF JobMoves
  <1>4. Restart => UNCHANGED answer
    BY DEF Restart
  <1>5. UNCHANGED restVars => UNCHANGED answer
    BY DEF restVars
  <1> QED
    BY <1>1, <1>2, <1>3, <1>4, <1>5, AnswerRequest DEF RestNext

----------------------------------------------------------------------------
\* Through every request, error and restart all variables keep their types: no
\* answer has a code that the code does not name, and a call of the backend
\* that works on a job has one.
THEOREM RestTypes == RestSpec => []RestTypeOK
  <1>1. RestInit => HttpTypeOK /\ AnswerTypeOK
    <2>1. RestInit => HttpTypeOK
      BY HttpInit
    <2>2. NoRequest \in HttpRequest /\ 0 \in AnswerCodes
      BY RestAssumption DEF NoRequest, HttpRequest, RequestPCs, AllOps, AnswerCodes
    <2>3. RestInit => AnswerTypeOK
      BY <2>2 DEF RestInit, AnswerTypeOK
    <2> QED
      BY <2>1, <2>3
  <1>2. (HttpTypeOK /\ AnswerTypeOK) /\ [RestNext]_restVars => (HttpTypeOK /\ AnswerTypeOK)'
    BY RestStep, AnswerStep
  <1>3. BackInv /\ LimitInv /\ HttpTypeOK /\ AnswerTypeOK => RestTypeOK
    BY DEF BackInv, BackTypes, LimitInv, HttpTypeOK, AnswerTypeOK, AnswerCodes, RestTypeOK
  <1> QED
    BY <1>1, <1>2, <1>3, BackAlways, LimitAlways, PTL DEF RestSpec

\* Submits with one key that succeed return one job, for any number of clients
\* that submit, cancel and retry at once, and whatever fails.
THEOREM KeysNameOneJob == RestSpec => []SameKeySameJob
  <1>1. BackInv => SameKeySameJob
    BY SameJob DEF BackInv
  <1> QED
    BY <1>1, BackAlways, PTL

----------------------------------------------------------------------------
(***************************************************************************)
(* What an answer says of the request's effects.  A request that is still  *)
(* with the limiter has had none, and one that the backend took on ends as *)
(* a success or as the server's error.                                     *)
(***************************************************************************)
OnesMistake == 400 .. 499

\* Before the backend is called the request has changed nothing.
NoEffectYet ==
    \A c \in Callers : http[c].pc \in {"global", "queue"} => ~http[c].touched

NothingHappened == UNCHANGED <<jobs, topic, paused>>

LEMMA CleanSoFar ==
    ASSUME NEW r \in HttpRequest, ~r.touched, NothingHappened
    PROVE  ~After(r).touched
  BY DEF After, HttpRequest, NothingHappened

LEMMA ServerCodes == ErrorCode({}) = 500 /\ ErrorCode({"does not exist"}) = 503
  <1>1. ErrorCode({}) = 500
    <2>1. /\ {} \cap {"not found", "job_id required"} = {}
          /\ {} \cap {"cannot cancel", "already running"} = {}
      OBVIOUS
    <2> QED
      BY <2>1 DEF ErrorCode
  <1>2. ErrorCode({"does not exist"}) = 503
    <2>1. /\ {"does not exist"} \cap {"not found", "job_id required"} = {}
          /\ {"does not exist"} \cap {"cannot cancel", "already running"} = {}
      OBVIOUS
    <2> QED
      BY <2>1 DEF ErrorCode
  <1> QED
    BY <1>1, <1>2

\* An error of the store or of the broker is never said to be the client's.
LEMMA ServersOwn ==
    ASSUME NEW said \in Phrases.storeError \cup Phrases.brokerError
    PROVE  ErrorCode(said) \notin OnesMistake
  <1>1. Phrases.storeError = {{}, {"does not exist"}} /\ Phrases.brokerError = Phrases.storeError
    BY DEF Phrases
  <1>2. said = {} \/ said = {"does not exist"}
    BY <1>1, Zenon
  <1>3. said = {} => ErrorCode(said) = 500
    BY ServerCodes, Zenon
  <1>4. ASSUME said = {"does not exist"} PROVE ErrorCode(said) = 503
    <2>1. ErrorCode({"does not exist"}) = 503
      BY ServerCodes
    <2>2. ASSUME NEW phrases, said = phrases, ErrorCode(phrases) = 503
          PROVE  ErrorCode(said) = 503
      BY <2>2
    <2> QED
      BY <1>4, <2>1, <2>2, Zenon
  <1>5. ErrorCode(said) = 500 \/ ErrorCode(said) = 503
    BY <1>2, <1>3, <1>4, Zenon
  <1> QED
    BY <1>5 DEF OnesMistake

LEMMA CallCodes ==
    ASSUME NEW op, NEW o \in {"ok", "storeError", "brokerError"}, NEW code \in Codes(op, o)
    PROVE  code \notin OnesMistake
  <1>1. CASE o = "ok"
    BY <1>1 DEF Codes, OnesMistake
  <1>2. CASE o # "ok"
    <2>1. PICK said \in Phrases[o] : code = ErrorCode(said)
      BY <1>2 DEF Codes
    <2>2. o = "storeError" \/ o = "brokerError"
      BY <1>2
    <2>3. said \in Phrases.storeError \cup Phrases.brokerError
      BY <2>1, <2>2
    <2> QED
      BY <2>1, <2>3, ServersOwn
  <1> QED
    BY <1>1, <1>2

\* What a step must do to the history of the answers.
AnsweredFairly == answer' = answer \/ (answer'.code \in OnesMistake => ~answer'.to.touched)

LEMMA FairWhenClean ==
    ASSUME NEW c \in Callers, NEW r \in HttpRequest, ~r.touched, NothingHappened, NEW code,
           Answers(c, r, code)
    PROVE  AnsweredFairly
  BY CleanSoFar DEF Answers, AnsweredFairly

LEMMA FairOtherwise ==
    ASSUME NEW c \in Callers, NEW r, NEW code, code \notin OnesMistake, Answers(c, r, code)
    PROVE  AnsweredFairly
  BY DEF Answers, AnsweredFairly

LEMMA AskedIsClean ==
    ASSUME NEW op, NEW q, NEW j PROVE ~Asked(op, q, j).touched
  BY DEF Asked, NoRequest

\* A step for one request leaves the others as they are.
LEMMA OwnRequest ==
    ASSUME HttpTypeOK, NoEffectYet, NEW c \in Callers, NEW r,
           http' = [http EXCEPT ![c] = r],
           r.pc \in {"global", "queue"} => ~r.touched
    PROVE  NoEffectYet'
  BY DEF HttpTypeOK, NoEffectYet

LEMMA AnswersClean ==
    ASSUME HttpTypeOK, NoEffectYet, NEW c \in Callers, NEW r, NEW code, Answers(c, r, code)
    PROVE  NoEffectYet'
  BY OwnRequest DEF Answers, NoRequest

LEMMA GoesClean ==
    ASSUME HttpTypeOK, NoEffectYet, NEW c \in Callers, NEW r \in HttpRequest,
           NEW pc \in RequestPCs, Goes(c, r, pc),
           pc = "backend" \/ (~r.touched /\ NothingHappened)
    PROVE  NoEffectYet' /\ AnsweredFairly
  <1>1. After(r) \in HttpRequest
    BY DEF After, HttpRequest
  <1> DEFINE next == [After(r) EXCEPT !.pc = pc]
  <1>2. next.pc = pc /\ next.touched = After(r).touched
    BY <1>1 DEF HttpRequest
  <1>3. next.pc \in {"global", "queue"} => ~next.touched
    BY <1>2, CleanSoFar
  <1>4. http' = [http EXCEPT ![c] = next] /\ answer' = answer
    BY DEF Goes
  <1> HIDE DEF next
  <1> QED
    BY <1>3, <1>4, OwnRequest DEF AnsweredFairly

\* A call of the backend that returned: either the store or the broker failed
\* or succeeded, or the request was refused with nothing done.
LEMMA FollowsFairly ==
    ASSUME HttpTypeOK, NoEffectYet, NEW c \in Callers, NEW r \in HttpRequest, Follows(c, r),
           \/ call'[c].pc # "idle"
           \/ outcome'[c] \in {"ok", "storeError", "brokerError"}
           \/ ~r.touched /\ NothingHappened
    PROVE  NoEffectYet' /\ AnsweredFairly
  <1>1. CASE call'[c].pc # "idle"
    BY <1>1, GoesClean DEF Follows, RequestPCs
  <1>2. ASSUME NEW code \in Codes(r.op, outcome'[c]), Answers(c, r, code),
               call'[c].pc = "idle"
        PROVE  NoEffectYet' /\ AnsweredFairly
    <2>1. NoEffectYet'
      BY <1>2, AnswersClean
    <2>2. CASE ~r.touched /\ NothingHappened
      BY <1>2, <2>1, <2>2, FairWhenClean
    <2>3. ASSUME NEW o \in {"ok", "storeError", "brokerError"}, outcome'[c] = o
          PROVE  AnsweredFairly
      BY <1>2, <2>3, CallCodes, FairOtherwise
    <2> QED
      BY <1>2, <2>1, <2>2, <2>3
  <1> QED
    BY <1>1, <1>2 DEF Follows

----------------------------------------------------------------------------
LEMMA FairRequest ==
    ASSUME HttpTypeOK, NoEffectYet, NEW c \in Callers, NEW m \in Methods, NEW p \in Paths,
           \/ Misrouted(c, m, p) \/ Read(c, m, p) \/ GetArchived(c, m, p)
           \/ PauseOrUnpause(c, m, p) \/ HandleCancel(c, m, p)
           \/ \E q \in Queues : ReceiveSubmit(c, m, p, q) \/ HandleRetry(c, m, p, q)
    PROVE  NoEffectYet' /\ AnsweredFairly
  <1>0. Global \in Buckets /\ NoJob \in Jobs \cup {NoJob} /\ Queues \subseteq Buckets
    BY RestAssumption
  <1>1. CASE Misrouted(c, m, p)
    <2>1. PICK code : Answers(c, Asked(Route(m, p), Global, NoJob), code)
      BY <1>1 DEF Misrouted
    <2>2. Asked(Route(m, p), Global, NoJob) \in HttpRequest
      BY <1>0, <1>1, AskedType DEF Misrouted, RouteErrors, AllOps
    <2>3. NothingHappened
      BY <1>1 DEF Misrouted, NothingHappened, storeVars
    <2> QED
      BY <2>1, <2>2, <2>3, AskedIsClean, AnswersClean, FairWhenClean
  <1>2. CASE Read(c, m, p)
    <2>1. PICK code : Answers(c, Asked(Route(m, p), Global, NoJob), code)
      BY <1>2 DEF Read
    <2>2. Route(m, p) \in AllOps
      BY <1>2 DEF Read, AllOps
    <2>3. Asked(Route(m, p), Global, NoJob) \in HttpRequest
      BY <1>0, <2>2, AskedType
    <2>4. NothingHappened
      BY <1>2 DEF Read, NothingHappened, storeVars
    <2> QED
      BY <2>1, <2>3, <2>4, AskedIsClean, AnswersClean, FairWhenClean
  <1>3. CASE GetArchived(c, m, p)
    <2>1. PICK code : Answers(c, Asked("getArchived", Global, NoJob), code)
      BY <1>3 DEF GetArchived
    <2>2. Asked("getArchived", Global, NoJob) \in HttpRequest
      BY <1>0, AskedType DEF AllOps
    <2>3. NothingHappened
      BY <1>3 DEF GetArchived, NothingHappened, storeVars
    <2> QED
      BY <2>1, <2>2, <2>3, AskedIsClean, AnswersClean, FairWhenClean
  <1>4. CASE PauseOrUnpause(c, m, p)
    <2>1. PICK code : /\ Answers(c, Asked(Route(m, p), Global, NoJob), code)
                      /\ code = 200 \/ \E said \in Phrases.storeError : code = ErrorCode(said)
      BY <1>4 DEF PauseOrUnpause
    <2>2. code \notin OnesMistake
      <3>1. CASE code = 200
        BY <3>1 DEF OnesMistake
      <3> QED
        BY <2>1, <3>1, ServersOwn
    <2> QED
      BY <2>1, <2>2, AnswersClean, FairOtherwise
  <1>5. CASE HandleCancel(c, m, p)
    <2>1. /\ p[2] \in Jobs /\ Follows(c, Asked("cancel", Global, p[2]))
          /\ Cancel(c, p[2]) \/ CancelRefused(c, p[2])
      BY <1>5 DEF HandleCancel
    <2>2. Asked("cancel", Global, p[2]) \in HttpRequest
      BY <1>0, <2>1, AskedType DEF AllOps
    <2>3. NothingHappened
      BY <2>1 DEF Cancel, CancelRefused, NothingHappened, storeVars
    <2> QED
      BY <2>1, <2>2, <2>3, AskedIsClean, FollowsFairly
  <1>6. ASSUME NEW q \in Queues, ReceiveSubmit(c, m, p, q)
        PROVE  NoEffectYet' /\ AnsweredFairly
    <2>1. Asked("submit", q, NoJob) \in HttpRequest /\ "global" \in RequestPCs
      BY <1>0, AskedType DEF AllOps, RequestPCs
    <2>2. NothingHappened
      BY <1>6 DEF ReceiveSubmit, NothingHappened, storeVars
    <2>3. \/ Answers(c, Asked("submit", q, NoJob), 400)
          \/ Goes(c, Asked("submit", q, NoJob), "global")
      BY <1>6 DEF ReceiveSubmit
    <2> QED
      BY <2>1, <2>2, <2>3, AskedIsClean, AnswersClean, FairWhenClean, GoesClean
  <1>7. ASSUME NEW q \in Queues, HandleRetry(c, m, p, q)
        PROVE  NoEffectYet' /\ AnsweredFairly
    <2>1. /\ p[2] \in Jobs /\ Follows(c, Asked("retry", q, p[2]))
          /\ RetryArchived(c, p[2], q) \/ RetryRefused(c, p[2])
      BY <1>7 DEF HandleRetry
    <2>2. Asked("retry", q, p[2]) \in HttpRequest
      BY <1>0, <2>1, AskedType DEF AllOps
    <2>3. NothingHappened
      BY <2>1 DEF RetryArchived, RetryRefused, NothingHappened, storeVars
    <2> QED
      BY <2>1, <2>2, <2>3, AskedIsClean, FollowsFairly
  <1> QED
    BY <1>1, <1>2, <1>3, <1>4, <1>5, <1>6, <1>7

LEMMA FairServe ==
    ASSUME HttpTypeOK, NoEffectYet, BackInv, NEW c \in Callers,
           AskGlobal(c) \/ AskQueue(c) \/ BackendStep(c)
    PROVE  NoEffectYet' /\ AnsweredFairly
  <1>0. http[c] \in HttpRequest /\ {"queue", "backend"} \subseteq RequestPCs
    BY DEF HttpTypeOK, RequestPCs
  <1>1. CASE AskGlobal(c)
    <2>1. NothingHappened /\ ~http[c].touched
      BY <1>1 DEF AskGlobal, NothingHappened, storeVars, NoEffectYet
    <2>2. Goes(c, http[c], "queue") \/ Answers(c, http[c], 429)
      BY <1>1 DEF AskGlobal
    <2> QED
      BY <1>0, <2>1, <2>2, AnswersClean, FairWhenClean, GoesClean
  <1>2. CASE AskQueue(c)
    <2>1. ~http[c].touched
      BY <1>2 DEF AskQueue, NoEffectYet
    <2>2. NothingHappened
      BY <1>2 DEF AskQueue, Submit, NothingHappened, storeVars
    <2>3. Goes(c, http[c], "backend") \/ Answers(c, http[c], 429)
      BY <1>2 DEF AskQueue
    <2> QED
      BY <1>0, <2>1, <2>2, <2>3, AnswersClean, FairWhenClean, GoesClean
  <1>3. CASE BackendStep(c)
    <2>1. CallStep(c) /\ Follows(c, http[c])
      BY <1>3 DEF BackendStep
    <2>2. \/ call'[c].pc # "idle"
          \/ outcome'[c] \in {"ok", "storeError", "brokerError"}
      BY <2>1, OwnCall DEF BackInv
    <2> QED
      BY <1>0, <2>1, <2>2, FollowsFairly
  <1> QED
    BY <1>1, <1>2, <1>3

LEMMA FairStep ==
    ASSUME HttpTypeOK, NoEffectYet, BackInv, [RestNext]_restVars
    PROVE  NoEffectYet' /\ AnsweredFairly
  <1>1. CASE UNCHANGED <<http, answer>>
    BY <1>1 DEF NoEffectYet, AnsweredFairly
  <1>2. UNCHANGED restVars => UNCHANGED <<http, answer>>
    BY DEF restVars
  <1>3. \A j \in Jobs, status \in {"processing", "archived"} :
           JobMoves(j, status) => UNCHANGED <<http, answer>>
    BY DEF JobMoves
  <1>4. CASE Restart
    BY <1>4 DEF Restart, NoRequest, NoEffectYet, AnsweredFairly
  <1> QED
    BY <1>1, <1>2, <1>3, <1>4, FairRequest, FairServe DEF RestNext

\* An answer that blames the client (4xx) was given to a request that changed
\* nothing, so that it can be mended and sent again; for any limits, clients
\* and failures, and however the steps of several requests are interleaved.
THEOREM ClientErrorsAreHarmless == RestSpec => ClientErrorChangesNothing
  <1>1. RestInit => NoEffectYet
    BY DEF RestInit, NoRequest, NoEffectYet
  <1>2. HttpTypeOK /\ NoEffectYet /\ BackInv /\ [RestNext]_restVars
            => NoEffectYet' /\ [answer'.code \in 400 .. 499 => ~answer'.to.touched]_answer
    BY FairStep DEF AnsweredFairly, OnesMistake
  <1>3. RestInit => HttpTypeOK
    BY HttpInit
  <1>4. HttpTypeOK /\ [RestNext]_restVars => HttpTypeOK'
    BY RestStep
  <1> QED
    BY <1>1, <1>2, <1>3, <1>4, BackAlways, PTL DEF RestSpec, ClientErrorChangesNothing
=============================================================================
