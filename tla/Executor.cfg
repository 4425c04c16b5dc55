SPECIFICATION FairSpec
CONSTANTS
  a = a  b = b  c = c
  Cells <- MCCells
  Ordered <- MCOrdered
  MayRaise = TRUE
  MaxInbox = 2
INVARIANTS TypeOK CountedOnce ReplayAgrees
PROPERTIES RefusedNeverSucceeds RunEnds
CHECK_DEADLOCK FALSE
