---------------------------- MODULE MCRecurring ----------------------------
(* An instance of Recurring for TLC. *)
EXTENDS Recurring, TLC

OneReport == {[type |-> "report", payload |-> "fine", queue |-> "default"]}
=============================================================================
