---------------------------- MODULE MCRunViews ----------------------------
(* RunViews on small instances: two runs, one of them with two records;    *)
(* two runs that may both end; a run with a tagged span; and one with two  *)
(* log entries, in a feed that the operator makes longer.                  *)
EXTENDS RunViews, TLC

Symmetric == Permutations(Agents)
BoundsDef ==
  {[frames |-> 3, log |-> 0, spans |-> 0, writes |-> 3, loads |-> 0],
   [frames |-> 2, log |-> 0, spans |-> 0, writes |-> 4, loads |-> 0],
   [frames |-> 1, log |-> 0, spans |-> 1, writes |-> 4, loads |-> 0],
   [frames |-> 1, log |-> 2, spans |-> 0, writes |-> 3, loads |-> 1]}
=============================================================================
