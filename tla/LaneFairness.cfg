SPECIFICATION FairSpec
CONSTANTS
  ProducerCount = 2
  ConsumerCount = 1
  Cap = 2
  LaneBatch = 2
  MaxPoll = 2
  MaxPublish = 5
INVARIANTS
  BoundedBypass
PROPERTIES
  ImplementsFanout
  BackPressureEnds
