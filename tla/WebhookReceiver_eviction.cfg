SPECIFICATION Spec
CONSTANTS
  w1 = w1
  w2 = w2
  p1 = p1
  p2 = p2
  p3 = p3
  None = None
  Workflow = {w1, w2}
  Path = {p1, p2, p3}
  Request = {r1}
  Admin = {a1}
  FirstPath <- Paths
  MaxSize = 1
  MaxRequests = 3
  MaxChanges = 2
INVARIANTS
  CacheInv
  ServesItsOwner
CHECK_DEADLOCK FALSE
