SPECIFICATION Spec
CHECK_DEADLOCK FALSE
CONSTANTS
  None = None
  Configurations <- MC_Configurations
  LatencyOnes = {"latency-64b"}
  GROUPS = 1
  MaxFlaws = 1
  MaxBuilds = 1
  MaxRuns = 3
  HF_GROUPS = 3
  HF_ROUNDS = 2
  MaxConsecutiveLow = 2
  V4_GROUPS = 2
  MaxStarts = 2
  MaxSignals = 1
  LC_Engines <- MC_Engines
  LC_ROUNDS = 2
  LC_Inherited = {"off"}
  TS_Rounds = {1, 2}
  BM_GROUPS = 3
  TM_GROUPS = 2
  TM_METRICS <- MC_Quantiles
  ST_GROUPS = 3
  Rates = {3, 4, 5}
  GO_P_VALUE = 5
  NO_GO_P_VALUE = 9
  GO_DIRECTIONS = 2
INVARIANTS
  P32_AcceptedIsSound
  P32_StopsAtFailure
  ReportsAreSound
  HF_ReportIsSound
  LC_MatrixIsSound
  BM_ReportIsSound
  ComputedIsSound
  SUP_NothingLeft
  CleanIsAccepted
  LedgersAreTrue
PROPERTIES
  SUP_Ends
  HF_EvidenceKept
