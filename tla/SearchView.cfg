SPECIFICATION Spec
CONSTANTS
  None = None
  Empty = Empty
  Invalid = Invalid
  w = w
  Words = {w}
  Scopes = {"all", "selected"}
  Notebooks <- NotebooksDef
  MaxDisplayed = 2
  PerCellCap = 3
  MaxQueue = 2
INVARIANT
  ResultsCurrent
