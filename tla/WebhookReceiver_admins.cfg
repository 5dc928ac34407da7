SPECIFICATION FairSpec
CONSTANTS
  w1 = w1
  w2 = w2
  p1 = p1
  p2 = p2
  p3 = p3
  None = None
  Workflow = {w1}
  Path = {p1, p2}
  Request = {r1}
  Admin = {a1, a2}
  FirstPath <- OnePath
  MaxSize = 1
  MaxRequests = 2
  MaxChanges = 2
PROPERTIES
  Answered
CHECK_DEADLOCK FALSE
