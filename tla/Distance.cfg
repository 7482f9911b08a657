SPECIFICATION Spec
CONSTANTS
  NULL = NULL
  Connections = {c1, c2}
  Fixes <- MCFixes
  MinSegment = 2
  MaxGap = 2
  MaxSpeed = 2
  DayLength = 2
  WibOffset = 1
  Milestone = 2
  MaxListed = 1
  Histories <- MCHistories
  MaxMessages = 3
  MaxStops = 1
  Horizon = 3
SYMMETRY Symmetry
CHECK_DEADLOCK FALSE
INVARIANTS
  TypeOK
  OdometerIsHistory
  ServiceAnswerComplete
PROPERTIES
  RowsCommitInOrder
