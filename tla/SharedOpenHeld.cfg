\* Claims kept open for any time: the instance of theorem OpenClaimsAreProtected.
SPECIFICATION SafeSpec
CHECK_DEADLOCK FALSE
CONSTANTS
  NoClient = NoClient
  Ordered = FALSE
  ProducerCount = 1
  SlotCount = 2
  Clients = {k1, k2}
  Cap = 2
  FrameLens = {1, 2}
  PublicationWindow = 0
  MessageWindow = 0
  Period = 4
  Expiry = FALSE
  Disciplined = FALSE
  MaxBatch = 2
  MaxRun = 2
  MaxFrames = 4
  MaxJoins = 1
  MaxDeaths = 1
INVARIANTS
  ClaimsProtected
SYMMETRY AnyClient
