------------------------- MODULE MCOperatorDialogs -------------------------
(* Two notebooks and two sections; which is which makes no difference.     *)
EXTENDS OperatorDialogs, TLC

Symmetric == Permutations(Notebooks) \cup Permutations(Titles)
=============================================================================
