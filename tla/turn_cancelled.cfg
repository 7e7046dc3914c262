CONSTANTS
  Phases = 2
  Answer = 2
  MaxTurn = 3
  MaxIter = 3
  Timeout = 4
  WrapTime = 1
  MaxBytes = 3
  MaxResult = 1
  MaxNote = 1
  Frame = 1
  MaxRaw = 2
  MaxRepeats = 1
  Wait = 0
  MaxWaits = 1
  MaxBatch = 1
  Durations = {0}
  Deliberations = {0}
SPECIFICATION Spec
PROPERTY CancelEndsTheTurn
\* The turn is over.
CHECK_DEADLOCK FALSE
