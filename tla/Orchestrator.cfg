SPECIFICATION FairSpec
CONSTANT Workflows <- Both
INVARIANTS
  IInv
  DependenciesFirst
  TemplatesResolve
  SkipsAreDecided
PROPERTIES
  MovesAllowed
  CallsAreInTurn
  ImplementsAtomicRun
  RunEnds
CHECK_DEADLOCK FALSE
