SPECIFICATION Spec
CHECK_DEADLOCK FALSE
CONSTANTS
  Readers = {0}
  Reliable = {}
  Cap = 4
  RetentionCapacity = 3
  MessageWindow = 0
  FrameLens = {1, 2}
  Period = 5
  Expiry = FALSE
  MaxBatch = 1
  MaxRun = 2
  MaxFrames = 4
  MaxDeaths = 1
PROPERTIES
  DeadLeasesCleared
