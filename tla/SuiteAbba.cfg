SPECIFICATION Spec
CHECK_DEADLOCK FALSE
CONSTANTS
  None = None
  Configurations <- MC_FourCells
  LatencyOnes = {"latency-64b", "latency-256b"}
  GROUPS = 1
  MaxFlaws = 0
  MaxBuilds = 0
  MaxRuns = 1
  MaxStarts = 2
  MaxSignals = 0
  LC_Engines <- MC_Engines
  LC_ROUNDS = 2
  LC_Inherited = {"off"}
  TS_Rounds = {4}
  HF_GROUPS = 1
  HF_ROUNDS = 1
  MaxConsecutiveLow = 0
  V4_GROUPS = 2
  BM_GROUPS = 3
  TM_GROUPS = 2
  TM_METRICS <- MC_Quantiles
  ST_GROUPS = 3
  Rates = {3, 4, 5}
  GO_P_VALUE = 5
  NO_GO_P_VALUE = 9
  GO_DIRECTIONS = 2
INVARIANTS
  TS_OrderBalanced
