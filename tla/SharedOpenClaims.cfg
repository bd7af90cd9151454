SPECIFICATION SafeSpec
CHECK_DEADLOCK FALSE
CONSTANTS
  NoClient = NoClient
  Ordered = FALSE
  ProducerCount = 1
  SlotCount = 1
  Clients = {k1, k2}
  Cap = 2
  FrameLens = {1}
  PublicationWindow = 0
  MessageWindow = 0
  Period = 4
  Expiry = FALSE
  Disciplined = FALSE
  MaxBatch = 1
  MaxRun = 2
  MaxFrames = 3
  MaxJoins = 1
  MaxDeaths = 0
INVARIANTS
  ClaimsExclusive
SYMMETRY AnyClient
