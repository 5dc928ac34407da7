SPECIFICATION FairSpec
CONSTANTS
  k1 = k1
  None = None
  Request = {r1, r2}
  RedisKey = {k1}
  Limit <- Limits
  Window = 3
  MaxCount = 5
  MaxFailures = 2
INVARIANTS
  IInv
  LessThanTwoLimits
PROPERTIES
  WindowsAreNotExtended
  CountersEnd
CHECK_DEADLOCK FALSE
