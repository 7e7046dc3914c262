CONSTANTS
  f1 = f1
  f2 = f2
  c1 = c1
  c2 = c2
  n1 = n1
  n2 = n2
  Absent = Absent
  AutoName = AutoName
  tui = tui
  ext = ext
  undo1 = undo1
  Unlocked = Unlocked
  Files <- TwoFiles
  Contents <- TwoContents
  Original <- OriginalOf
  Size <- SizeOf
  Names <- OneName
  MaxCheckpoints = 2
  MaxCheckpointBytes = 100
  MaxTools = 4
  MaxSaves = 1
  MaxRefusals = 1
  Tools <- FourTools
  Args = {"a", "b"}
  Free = {"read"}
  Barred = {"rm"}
  PerArgs = {"exec"}
  MaxCalls = 2
  MaxStale = 1
  MaxExtra = 2
SPECIFICATION PartsSpec
INVARIANT PartsTypeOK
INVARIANT RanOnlyApproved
INVARIANT YesIsHeard
INVARIANT OneStartAfterShutdown
INVARIANT OfferSparesTheUser
INVARIANT RemovedStaysRemoved
PROPERTY StoppedMeansStopped
PROPERTY UndoRestoresWhatTheRunFound
PROPERTY RestoreBringsBack
\* The turn is over and everything is reviewed.
CHECK_DEADLOCK FALSE
