SPECIFICATION Spec
CONSTANT Workflows <- Chosen
INVARIANT MetadataReachesSubWorkflow
CHECK_DEADLOCK FALSE
