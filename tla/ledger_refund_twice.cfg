CONSTANTS
  r1 = r1
  r2 = r2
  p1 = p1
  p2 = p2
  Requests <- TwoRequests
  Procs <- OneProc
  Limit = 4
  Sizes = {2, 3}
  Actuals = {1, 4}
  StaleAfter = 1
  Lifetime = 1
  MaxAttempts = 2
  LoseReplies = TRUE
  MaxExits = 0
SPECIFICATION Spec
SYMMETRY Symmetry
INVARIANT NeverNegative
\* Every request is over and every row resolved: nothing is left to do.
CHECK_DEADLOCK FALSE
