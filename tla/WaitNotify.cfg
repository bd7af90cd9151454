SPECIFICATION Spec
CHECK_DEADLOCK FALSE
CONSTANTS
  ProducerCount = 2
  SubscriberCount = 1
  SpinAttempts = 1
  MaxMessages = 2
  MaxGenerations = 2
  MaxDeaths = 1
INVARIANTS
  NoLostWakeup
  TicketOwned
PROPERTIES
  Delivered
