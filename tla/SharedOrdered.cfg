SPECIFICATION Spec
CHECK_DEADLOCK FALSE
CONSTANTS
  NoClient = NoClient
  Ordered = TRUE
  ProducerCount = 2
  SlotCount = 1
  Clients = {k1}
  Cap = 2
  FrameLens = {1}
  PublicationWindow = 0
  MessageWindow = 0
  Period = 3
  Expiry = TRUE
  Disciplined = TRUE
  MaxBatch = 1
  MaxRun = 2
  MaxFrames = 2
  MaxJoins = 2
  MaxDeaths = 1
INVARIANTS
  HeldIntact
  ReadsOn
PROPERTIES
  Received
