---------------------------- MODULE MCAnswering ----------------------------
(* TLC instances of Answering. *)
EXTENDS Answering
=============================================================================
