SPECIFICATION Spec
CONSTANTS
  c1 = c1  c2 = c2  t1 = t1  t2 = t2  t3 = t3  t4 = t4  t5 = t5
  Task = {t1, t2, t3, t4, t5}
  Caller = {c1, c2}
  Nil = Nil
  Owner <- MixedOwners
  Sync = {c1, t1, t3}
  MaxShells = 2
  SlowWakeup = TRUE
PROPERTIES ImplementsWorkQueue CallersReturn
INVARIANTS TypeOK RunOnce SyncReturnsAfterAll
\* Everybody may be done.
CHECK_DEADLOCK FALSE
