SPECIFICATION Spec
CONSTANTS
  u1 = u1  u2 = u2
  Token = {u1, u2}
  NoToken = NoToken
  Indications <- SomeIndications
  MaxInbox = 2
  MaxSent = 4
  MayRefuse = TRUE
SYMMETRY Symmetric
CHECK_DEADLOCK FALSE
INVARIANTS
  TypeOK
  AliveWhileUsed
  InSyncWhenHandled
  ConfiguredWhenCompleted
PROPERTIES
  ContractSpec
