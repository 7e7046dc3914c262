CONSTANTS
  f1 = f1
  f2 = f2
  c1 = c1
  c2 = c2
  n1 = n1
  n2 = n2
  Absent = Absent
  AutoName = AutoName
  Files <- TwoFiles
  Contents <- TwoContents
  Original <- OneThere
  Size <- Even
  Names <- OneName
  MaxCheckpoints = 2
  MaxCheckpointBytes = 100
  MaxTools = 4
  MaxSaves = 0
  MaxRefusals = 0
SPECIFICATION CopySpec
INVARIANT ConsentedRemovalsStay
\* The turn is over and everything is reviewed.
CHECK_DEADLOCK FALSE
