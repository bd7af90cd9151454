SPECIFICATION SafeSpec
CONSTANTS
  ProducerCount = 2
  ConsumerCount = 2
  Cap = 2
  LaneBatch = 2
  MaxPoll = 1
  MaxPublish = 3
INVARIANTS
  NoTornRead
  NoFalseEmpty
  IndInv
