SPECIFICATION FairSpec
CONSTANTS
  a1 = a1  a2 = a2  a3 = a3
  u1 = u1  u2 = u2
  t1 = t1  t2 = t2
  Addr = {a1, a2}
  Token = {u1, u2}
  Tx = {t1, t2}
  Kinds <- AllKinds
  IdSpace = 8
  MaxId = 4
  MaxWire = 3
  Lossy = FALSE
  NoAddr = NoAddr
  NoTx = NoTx
  NoToken = NoToken
CHECK_DEADLOCK FALSE
INVARIANTS
  AnswersOwnRequest
PROPERTIES
  EveryRequestReleased
