SPECIFICATION Spec
CHECK_DEADLOCK FALSE
CONSTANTS
  None = None
  Registrars = {r1, r2}
  ProducerCount = 1
  StoreBuffer = 3
  MaxOps = 2
  MaxClaims = 2
  MaxDeaths = 2
INVARIANTS
  SnapshotExact
  ClaimsExcluded
  GateExclusive
PROPERTIES
  RegistrationEnds
