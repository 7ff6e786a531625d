---------------------------- MODULE MCQueryRuns ----------------------------
(* Instances of QueryRuns for TLC. *)
EXTENDS QueryRuns, TLC
=============================================================================
