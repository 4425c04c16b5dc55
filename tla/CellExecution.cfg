SPECIFICATION FairSpec
CONSTANTS
  r1 = r1  r2 = r2  r3 = r3  r4 = r4
  a = a  b = b  c = c  h1 = h1  h2 = h2  h3 = h3
  NoRun = NoRun
  Runs <- MCRuns
  Cells <- MCCells
  Handlers = {h1, h2, h3}
  Batch <- MCBatch
  CellOf <- MCCellOf
  Kind <- MCKind
INVARIANTS TypeOK InflightIsOpen
PROPERTIES ImplementsLifecycle NoCrossTalk BatchesFinish
CHECK_DEADLOCK FALSE
