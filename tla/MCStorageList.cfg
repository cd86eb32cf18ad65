SPECIFICATION Spec
CONSTANTS
  t1 = t1
  t2 = t2
  t3 = t3
  Task <- ThreeTasks
  MaxFaults = 0
INVARIANT ListIsFresh
CHECK_DEADLOCK FALSE
