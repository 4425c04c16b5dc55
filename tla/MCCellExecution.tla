------------------------- MODULE MCCellExecution -------------------------
(* Small instances of CellExecution.                                       *)
EXTENDS CellExecution, TLC

CONSTANTS r1, r2, r3, r4, a, b, c, h1, h2, h3

\* Three calls of the execute handler at once: an agent cell, a markup
\* cell followed by another agent cell, and the first cell run again.
MCRuns  == {r1, r2, r3, r4}
MCCells == {a, b, c}
MCBatch == (h1 :> <<r1>>) @@ (h2 :> <<r2, r3>>) @@ (h3 :> <<r4>>)
MCCellOf == (r1 :> a) @@ (r2 :> b) @@ (r3 :> c) @@ (r4 :> a)
MCKind == (r1 :> "await") @@ (r2 :> "markup") @@ (r3 :> "await") @@ (r4 :> "fire")

\* One handler, two cells: the simplest use of the notebook.
SeqRuns   == {r1, r2}
SeqBatch  == h1 :> <<r1, r2>>
SeqCellOf == (r1 :> a) @@ (r2 :> b)
SeqKind   == [r \in SeqRuns |-> "await"]
=============================================================================
