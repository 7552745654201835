SPECIFICATION Spec
CONSTANT Inputs <- MCSums
INVARIANT LeftAssociative
CHECK_DEADLOCK FALSE
