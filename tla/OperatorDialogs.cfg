CONSTANTS
  None = None
  Titles = {ta, tb}
  Tails = {x}
  Notebooks = {n1, n2}
  MaxActions = 2
  MaxReveals = 2
SPECIFICATION Spec
SYMMETRY Symmetric
INVARIANT FlashHasTimer
PROPERTY ConsentFirst
