CONSTANTS
  r1 = r1
  r2 = r2
  p1 = p1
  p2 = p2
  Requests <- TwoRequests
  Procs <- TwoProcs
  Limit = 4
  Sizes = {3}
  Actuals = {4}
  StaleAfter = 1
  Lifetime = 1
  MaxAttempts = 2
  LoseReplies = FALSE
  MaxExits = 1
SPECIFICATION PartsSpec
SYMMETRY Symmetry
INVARIANT TypeOK
INVARIANT LiveRowNeverSwept
INVARIANT NoOrphanRow
INVARIANT ReportedAtMostOnce
INVARIANT OverdraftIsTopUp
INVARIANT ReportedOnceThoughLost
PROPERTY ImplementsAccount
\* Every request is over and every row resolved: nothing is left to do.
CHECK_DEADLOCK FALSE
