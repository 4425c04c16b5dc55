---------------------------- MODULE MCSearchView ----------------------------
(* SearchView with one word and two notebooks: two cells with a match each, *)
(* and the second of them alone, with an output and a tool call.            *)
EXTENDS SearchView

CONSTANT w

Cell(id, i, p, r) ==
  [id |-> id, input |-> [q \in {w} |-> i], plain |-> [q \in {w} |-> p],
   runs |-> [q \in {w} |-> r]]

NotebooksDef ==
  { <<Cell("c1", 1, 0, 0), Cell("c2", 1, 0, 0)>>, <<Cell("c2", 1, 1, 1)>> }
=============================================================================
