CONSTANTS
  r1 = r1
  r2 = r2
  p1 = p1
  f1 = f1
  tui = tui
  ext = ext
  undo2 = undo2
  Absent = Absent
  Free = Free
  HelperMaxRestarts = 3
SPECIFICATION PartsSpec
INVARIANT HelperTypeOK
INVARIANT StoppedMeansGone
INVARIANT OneHelper
PROPERTY NoRestartAfterStop
PROPERTY StopEnds
PROPERTY DeathIsNoticed
PROPERTY EveryReservationResolves
PROPERTY SweptIsReported
PROPERTY EveryApplyEnds
\* Each part comes to a rest.
CHECK_DEADLOCK FALSE
