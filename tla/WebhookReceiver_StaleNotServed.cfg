SPECIFICATION Spec
CONSTANTS
  w1 = w1
  w2 = w2
  p1 = p1
  p2 = p2
  p3 = p3
  None = None
  Workflow = {w1}
  Path = {p1, p2}
  Request = {r1, r2}
  Admin = {a1}
  FirstPath <- OnePath
  MaxSize = 1
  MaxRequests = 3
  MaxChanges = 1
INVARIANT StaleNotServed
CHECK_DEADLOCK FALSE
