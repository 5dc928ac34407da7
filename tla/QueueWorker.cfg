SPECIFICATION FairSpec
CONSTANTS
  s1 = s1
  s2 = s2
  None = None
  StepList <- TwoSteps
  Job = {j1, j2}
  Canceller = {c1}
  MaxFaults = 1
INVARIANTS
  IInv
  CrashLeavesQueued
  OneCallAtATime
  ContextHasOutputs
  EndedHasNoneWaiting
PROPERTIES
  CleanupKeepsFinished
  EveryoneEnds
  StepsEnd
CHECK_DEADLOCK FALSE
