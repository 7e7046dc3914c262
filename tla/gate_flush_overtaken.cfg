CONSTANTS
  Requests = {1, 2}
  Ttl = 2
  LookupMax = 1
  Rate = 1
  Burst = 3
  Left = 3
  Slots = 2
  Costs = {0}
  MaxCost = 0
  MaxTime = 3
SPECIFICATION Spec
PROPERTY FlushRevokesAtOnce
\* Every request is over and time is up.
CHECK_DEADLOCK FALSE
