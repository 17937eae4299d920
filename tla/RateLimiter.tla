---------------------------- MODULE RateLimiter ----------------------------
(***************************************************************************)
(* The token buckets of the submit rate limiter (internal/api/ratelimit.go *)
(* over golang.org/x/time/rate): one per queue and a global one.  Levels   *)
(* are counted in sixtieths of a token, so that a limit of n per minute    *)
(* adds n per second.  A bucket is full when it is created, which happens  *)
(* when it is first used, so all are full to begin with; and a level that  *)
(* the library computes when it is asked is one that rises with the clock. *)
(***************************************************************************)
EXTENDS Clock, Integers

CONSTANTS
    Buckets,       \* the global bucket and one for each queue
    PerMinute,     \* bucket -> its limit, 0 for none
    TickSeconds    \* how many seconds a step of the clock stands for

ASSUME LimiterAssumption ==
    /\ PerMinute \in [Buckets -> Nat]
    /\ TickSeconds \in Nat \ {0}

VARIABLES
    level,     \* bucket -> what it holds
    granted    \* history: bucket -> time -> tokens taken then or later

limiterVars == <<level, granted>>

Burst(n) == IF n < 10 THEN n ELSE IF n < 60 THEN 10 ELSE n \div 6

Token == 60
Capacity(b) == Token * Burst(PerMinute[b])
Limited(b) == PerMinute[b] > 0

LimiterTypeOK ==
    /\ level \in [Buckets -> Nat]
    /\ granted \in [Buckets -> [1 .. MaxTime -> Nat]]

LimiterInit ==
    /\ level = [b \in Buckets |-> Capacity(b)]
    /\ granted = [b \in Buckets |-> [s \in 1 .. MaxTime |-> 0]]

----------------------------------------------------------------------------
\* Mutant: the limit is divided by 60 as an integer, before it becomes a rate.
WholePerSecond(b, ticks) == Token * (PerMinute[b] \div 60) * TickSeconds * ticks

\* What bucket b gains in a number of clock steps.
Gain(b, ticks) == PerMinute[b] * TickSeconds * ticks

\* Mutant: a bucket fills beyond its burst.
Unbounded(b, n) == n
Filled(b, n) == IF n <= Capacity(b) THEN n ELSE Capacity(b)

Refill ==
    /\ Tick
    /\ level' = [b \in Buckets |-> Filled(b, level[b] + Gain(b, 1))]
    /\ UNCHANGED granted

\* Mutant: the level is not looked at.
AllowedAnyway(b) ==
    /\ level' = [level EXCEPT ![b] = level[b] - Token]
    /\ granted' = [granted EXCEPT ![b] =
          [s \in 1 .. MaxTime |-> granted[b][s] + IF s <= now THEN 1 ELSE 0]]

\* Allow of one bucket.
AllowedBy(b) ==
    \/ ~Limited(b) /\ UNCHANGED limiterVars
    \/ /\ Limited(b) /\ level[b] >= Token
       /\ level' = [level EXCEPT ![b] = level[b] - Token]
       /\ granted' = [granted EXCEPT ![b] =
             [s \in 1 .. MaxTime |-> granted[b][s] + IF s <= now THEN 1 ELSE 0]]

RefusedBy(b) ==
    Limited(b) /\ level[b] < Token /\ UNCHANGED limiterVars

----------------------------------------------------------------------------
\* From any time on, a bucket grants no more than its burst and what its
\* limit brings since then.
WithinRate ==
    \A b \in Buckets, s \in 1 .. MaxTime :
        s <= now =>
            Token * granted[b][s] <= Capacity(b) + Gain(b, now - s)

\* The 60 seconds that Retry-After names are enough: a bucket from which nobody
\* took a token later than s, however empty it was then, has one 60 seconds on.
RetryAfterSuffices ==
    \A b \in Buckets, s \in 1 .. MaxTime :
        /\ Limited(b)
        /\ s < now /\ (now - s) * TickSeconds >= 60
        /\ granted[b][s + 1] = 0
        => level[b] >= Token
=============================================================================
