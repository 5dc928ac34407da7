SPECIFICATION Spec
CONSTANT Workflows <- Chosen
INVARIANT PersistedBeforeProceeding
CHECK_DEADLOCK FALSE
