SPECIFICATION Spec
CONSTANTS
  eNumTransId = 3
  MaxIssued = 10
  MaxCrashes = 4
INVARIANTS TypeOK IdsIncrease BlockEndsAtFile
\* The bounds end a behaviour.
CHECK_DEADLOCK FALSE
