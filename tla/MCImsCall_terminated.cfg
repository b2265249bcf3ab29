SPECIFICATION Spec
CONSTANTS
  c1 = c1  c2 = c2
  p1 = p1  p2 = p2  p3 = p3
  CallId = {c1, c2}
  Ptr = {p1, p2, p3}
  MaxInbox = 2
  Null = Null
  Junk = Junk
  Freed = Freed
INVARIANTS
  ListTerminated
