SPECIFICATION Spec
CONSTANTS
  Call = {c1}
  StatMachFails = FALSE
  MaxRoles = 5
PROPERTIES QueueIsServed CommittedIsAnswered
\* The bounds, or a process that has died, end a behaviour.
CHECK_DEADLOCK FALSE
