SPECIFICATION SafeSpec
CONSTANTS
  t1 = t1  t2 = t2  t3 = t3  s1 = s1  s2 = s2  Nil = Nil
  Task = {t1, t2}
  Svr = {s1, s2}
  Place <- FirstBound
  mNumSlots = 1
  eMaxTaskFailNum = 1
  MaxDeaths = 1
  MaxPending = 0
INVARIANTS TypeOK SlotsCounted EachTaskInOnePlace
\* A job that has ended leaves nothing to do.
CHECK_DEADLOCK FALSE
