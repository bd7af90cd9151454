SPECIFICATION SafeSpec
CHECK_DEADLOCK FALSE
CONSTANTS
  None = None
  Registrars = {r1, r2, r3}
  ProducerCount = 1
  StoreBuffer = 3
  MaxOps = 2
  MaxClaims = 1
  MaxDeaths = 0
INVARIANTS
  ClaimsExcluded
SYMMETRY AnyRegistrar
