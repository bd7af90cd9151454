SPECIFICATION Spec
CHECK_DEADLOCK FALSE
CONSTANTS
  NoClient = NoClient
  Ordered = FALSE
  ProducerCount = 1
  SlotCount = 2
  Clients = {k1, k2}
  Cap = 4
  FrameLens = {1, 3}
  PublicationWindow = 3
  MessageWindow = 2
  Period = 3
  Expiry = TRUE
  Disciplined = TRUE
  MaxBatch = 2
  MaxRun = 2
  MaxFrames = 3
  MaxJoins = 1
  MaxDeaths = 1
INVARIANTS
  HeldIntact
  ReadsOn
  WithinWindow
  RegistrationKept
PROPERTIES
  PublisherGoesOn
