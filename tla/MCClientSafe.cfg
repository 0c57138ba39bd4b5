SPECIFICATION SafeSpec
CONSTANTS
  Call = {c1, c2}
  StatMachFails = TRUE
  MaxRoles = 3
SYMMETRY CallSymmetry
INVARIANTS TypeOK NoLostWakeup SuccessMeansApplied
\* The bounds, or a process that has died, end a behaviour.
CHECK_DEADLOCK FALSE
