----------------------------- MODULE MCConsumer -----------------------------
(* An instance of Consumer for TLC. *)
EXTENDS Consumer
=============================================================================
