------------------------------ MODULE MCOutbox ------------------------------
(* The outbox processors on small instances. *)
EXTENDS Outbox

CONSTANTS j1, s1, s2
=============================================================================
