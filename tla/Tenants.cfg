SPECIFICATION FairSpec
CONSTANTS
  k1 = k1
  k2 = k2
  k3 = k3
  None = None
  Request = {r1, r2}
  Seed = {s1}
  Key = {k1, k2, k3}
  Prefix <- Prefixes
  Pool = 1
INVARIANTS
  IInv
  HandedKeysWork
  LateSeedAddsNone
PROPERTIES
  RequestsEnd
CHECK_DEADLOCK FALSE
