CONSTANTS
  t1 = t1
  t2 = t2
  Requests <- ThreeRequests
  Ttl = 2
  LookupMax = 1
  Rate = 1
  Burst = 3
  Left = 1
  Slots = 1
  Costs = {4}
  MaxCost = 4
  MaxTime = 8
  Clients <- TwoTerminals
  MaxCalls = 3
  MaxRestarts = 1
  MaySever = TRUE
  Daemons <- TwoDaemons
  Callers <- TwoClients
  Named <- OneNamed
  Home <- HomeOf
  SessionTokens = 3
  DayTokens = 3
  Prompts = {1}
  Completions = {1}
  MaxDays = 2
  MaxBills = 6
  MaxRaises = 1
  MaxTrouble = 1
SPECIFICATION PartsSpec
CONSTRAINT FirstCall
CONSTRAINT InOrder
CONSTRAINT TwoCallsFirst
CONSTRAINT TwoAtATime
CONSTRAINT TwoTurnsOfFate
INVARIANT PartsTypeOK
INVARIANT ChargedWithinRate
INVARIANT NeverOverstated
INVARIANT AnsweredFromAll
INVARIANT OverrunBounded
PROPERTY RevokedIsRefusedSoon
PROPERTY HeldUntilRaised
\* Every part comes to a rest.
CHECK_DEADLOCK FALSE
