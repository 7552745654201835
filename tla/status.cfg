SPECIFICATION Spec
CONSTANTS
  Handles = {s1, s2, r1, r2}
  Ors = {r1, r2}
  Reps <- MCReps
  Codes <- MCCodes
  Messages <- MCMessages
  Values = {v1}
SYMMETRY Alike
INVARIANTS
  TypeOK
  RefCounted
  DataActive
  EqualityIsOfValues
PROPERTY
  ValueSemantics
CHECK_DEADLOCK FALSE
