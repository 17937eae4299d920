------------------------------- MODULE Clock -------------------------------
(***************************************************************************)
(* The clock that time.Now().Unix() reads in the API and in the scheduler. *)
(* Times are small numbers; time starts at 1, so that the past exists.     *)
(***************************************************************************)
EXTENDS Naturals

CONSTANT MaxTime   \* the time at which the clock stops, a bound of the model

ASSUME ClockAssumption == MaxTime \in Nat \ {0}

VARIABLE now

ClockTypeOK == now \in 1 .. MaxTime
ClockInit == now = 1
Tick == now < MaxTime /\ now' = now + 1
=============================================================================
