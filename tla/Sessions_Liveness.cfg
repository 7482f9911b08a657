SPECIFICATION FairSpec
CONSTANTS
  NULL = NULL
  Devices = {1}
  Cooldown = 1
  Batch = 2
  MaxBlocks = 1
  MaxHeartbeats = 2
  MaxChanges = 1
  MaxPresses = 1
  MaxFailures = 1
  Horizon = 2
CHECK_DEADLOCK FALSE
PROPERTIES
  RideEnds
