SPECIFICATION Spec
CONSTANTS
  a1 = a1  a2 = a2  a3 = a3
  u1 = u1  u2 = u2
  t1 = t1  t2 = t2
  Addr = {a1, a2, a3}
  Token = {u1, u2}
  Tx = {t1, t2}
  Kinds <- WithWifi
  IdSpace = 3
  MaxId = 3
  MaxWire = 2
  Lossy = TRUE
  NoAddr = NoAddr
  NoTx = NoTx
  NoToken = NoToken
SYMMETRY Symmetric
CHECK_DEADLOCK FALSE
INVARIANTS
  TypeOK
  TableSound
  TxOwned
  CallbackContract
  CompletedInDispatch
PROPERTIES
  ContractSpec
