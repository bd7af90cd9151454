SPECIFICATION Spec
CHECK_DEADLOCK FALSE
CONSTANTS
  Readers = {0, 1}
  Reliable = {1}
  Cap = 2
  RetentionCapacity = 2
  MessageWindow = 2
  FrameLens = {1}
  Period = 3
  Expiry = TRUE
  MaxBatch = 2
  MaxRun = 2
  MaxFrames = 3
  MaxDeaths = 1
INVARIANTS
  LeasedIntact
  LagExact
  EvictsAsNeeded
  ReliableKept
PROPERTIES
  EvictionGoesOn
  LatestReached
