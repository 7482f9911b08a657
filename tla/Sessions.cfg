SPECIFICATION Spec
CONSTANTS
  NULL = NULL
  Devices = {1, 2}
  Cooldown = 1
  Batch = 1
  MaxBlocks = 0
  MaxHeartbeats = 2
  MaxChanges = 1
  MaxPresses = 1
  MaxFailures = 1
  Horizon = 2
CHECK_DEADLOCK FALSE
INVARIANTS
  TypeOK
  OneOpenSession
  SummaryRepeatsOnlyUnsaved
  ToldOffMeansOver
  SkippedOnlyIfLate
PROPERTIES
  FinishedIsFinal
