SPECIFICATION Spec
CONSTANT Inputs <- MCInputs
INVARIANTS
  TypeOK
  TreeAsWritten
  NothingLost
  ScopeRestored
  JumpsInLoops
PROPERTY
  Decides
CHECK_DEADLOCK FALSE
