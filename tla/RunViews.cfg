SPECIFICATION Spec
CONSTANTS
  Agents = {a1, a2, a3}
  Cells = {"c1"}
  None = None
  Bounds <- BoundsDef
  MaxVisible = 1
  Step = 1
SYMMETRY Symmetric
INVARIANTS
  InspectTruthful
  ReadersAgree
  LineageForest
  FeedNewestFirst
PROPERTY
  NoStrayInterrupt
