SPECIFICATION Spec
CONSTANTS
  u1 = u1  u2 = u2  u3 = u3
  Token = {u1, u2, u3}
  NoToken = NoToken
  Vacant = Vacant
  MaxSerial = 5
SYMMETRY Symmetric
CHECK_DEADLOCK FALSE
INVARIANTS
  TypeOK
  BlocksSound
PROPERTIES
  ContractSpec
  OnlyFirstRequestLost
