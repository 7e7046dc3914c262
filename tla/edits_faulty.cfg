CONSTANTS
  f1 = f1
  tui = tui
  ext = ext
  undo2 = undo2
  Absent = Absent
  Free = Free
  Files <- OneFile
  Existing <- OneFile
  Runs <- TuiAndExt
  Undoers <- CliUndo
  Blocks = 2
  Keep = 1
  MayDelete = TRUE
  MaxUserEdits = 1
  MaxFaults = 1
  Kind <- KindOf
SPECIFICATION Spec
CONSTRAINT OneMishap
PROPERTY NoAppliedEditLost
PROPERTY UndoStartsFromItsOwnEdit
\* Every run and undo is over.
CHECK_DEADLOCK FALSE
