SPECIFICATION FairSpec
CONSTANTS
  Notebooks <- MCNotebooks
  n1 = n1  n2 = n2
  None = None
  MaxVersion = 1
  MaxEdits = 2
  MaxOpens = 1
INVARIANTS TypeOK TimerPerPending
PROPERTIES MonotonicWhenAlone HydrateSettles
CHECK_DEADLOCK FALSE
