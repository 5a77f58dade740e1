CONSTANT Instances <- Shared
SPECIFICATION Spec
INVARIANT SharedIsBacked
CHECK_DEADLOCK FALSE
