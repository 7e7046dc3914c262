CONSTANTS
  w1 = w1
  w2 = w2
  Windows <- TwoWindows
  MaxDaemons = 4
  MaxRestarts = 1
  Attempts = 1
  MaxPresses = 1
  MaxTrouble = 1
  Phases = 2
  Answer = 2
  MaxTurn = 3
  MaxIter = 3
  Timeout = 4
  WrapTime = 1
  MaxBytes = 3
  MaxResult = 2
  MaxNote = 1
  Frame = 1
  MaxRaw = 2
  MaxRepeats = 1
  Wait = 0
  MaxWaits = 1
  MaxBatch = 2
  Durations = {0, 2}
  Deliberations = {0, 2}
SPECIFICATION PartsSpec
CONSTRAINT FirstWindow
INVARIANT PartsTypeOK
INVARIANT BilledWithinCeiling
INVARIANT AnswerKeepsItsBytes
INVARIANT NoOrphan
PROPERTY Served
PROPERTY ThisTurnEnds
\* Each part comes to a rest.
CHECK_DEADLOCK FALSE
