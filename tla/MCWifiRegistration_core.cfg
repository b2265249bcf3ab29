SPECIFICATION WifiSpec
CONSTANTS
  x1 = x1  x2 = x2  x3 = x3  x4 = x4
  u1 = u1  u2 = u2
  y1 = y1  y2 = y2
  z1 = z1  z2 = z2
  Proxy = {x1, x2, x3, x4}
  Path = {y1, y2}
  Address = {z1, z2}
  NoProxy = NoProxy
  Token = {u1, u2}
  MaxInits = 2
  MaxSignals = 2
  MaxSent = 6
  MaxChanges = 3
SYMMETRY Symmetric
CHECK_DEADLOCK FALSE
INVARIANTS
  InSyncWhenHandled
  ProxiesBounded
  FollowsDevice
  WifiTypeOK
  MonitorFreedLast
PROPERTIES
  FreshWhenCompleted
