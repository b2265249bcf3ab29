SPECIFICATION Spec
CONSTANTS
  a1 = a1  a2 = a2  a3 = a3
  u1 = u1  u2 = u2
  t1 = t1  t2 = t2
  Addr = {a1, a2}
  Token = {u1, u2}
  Tx = {t1, t2}
  Kinds <- WithWifi
  IdSpace = 8
  MaxId = 3
  MaxWire = 3
  Lossy = FALSE
  NoAddr = NoAddr
  NoTx = NoTx
  NoToken = NoToken
CHECK_DEADLOCK FALSE
PROPERTIES
  NoAnswerRejected
