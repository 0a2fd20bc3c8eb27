SPECIFICATION Spec
CONSTANTS
  Files = {f1, f2}
  Workers = {w1, w2}
  Finalize = fin
  None = None
  MaxAttempts = 1
INVARIANTS
  CaughtUpPageIsCurrent
  ClosedPageIsComplete
PROPERTIES
  PageNeverRegresses
  EndReachesPage
CHECK_DEADLOCK FALSE
