------------------------------- MODULE MCDemo -------------------------------
(* One user of the dashboard, one worker. *)
EXTENDS Demo

CONSTANTS j1, j2

AllPayloads == {Sound, ToOutside, Blank, FailingAt(1)}
=============================================================================
