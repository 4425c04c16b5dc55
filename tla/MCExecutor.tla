---------------------------- MODULE MCExecutor ----------------------------
(* Three cells of every combination of kinds: two that are shipped, so     *)
(* that an answer can be late, with anything before, between or after.     *)
EXTENDS Executor

CONSTANTS a, b, c

MCCells == {a, b, c}
MCOrdered == <<a, b, c>>
=============================================================================
