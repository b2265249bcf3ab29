SPECIFICATION Spec
CONSTANTS
  u1 = u1  u2 = u2
  Token = {u1, u2}
  NoToken = NoToken
  Indications <- SomeIndications
  MaxInbox = 1
  MaxSent = 4
  MayRefuse = FALSE
CHECK_DEADLOCK FALSE
PROPERTIES
  CancelEndsOperation
