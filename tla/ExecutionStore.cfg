SPECIFICATION Spec
CONSTANTS
  None = None
  Workflow = {w1}
  Id = {1, 2}
  Session = {s1, s2}
  Client = {c1}
  PageSize = 1
  MaxCron = 1
  MaxTime = 1
  MaxEdits = 2
  MaxStarts = 2
SYMMETRY Symmetry
INVARIANTS
  IInv
  RecordsAreWhole
  DeactivatedStaysQuiet
  PagesAreExact
  StreamsMissNoRun
CHECK_DEADLOCK FALSE
