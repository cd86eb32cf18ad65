SPECIFICATION ExecutorSpec
CONSTANTS
  s1 = s1
  s2 = s2
  w1 = w1
  w2 = w2
  k1 = k1
  k2 = k2
  Slot <- OneSlot
  Worker <- TwoWorkers
  Waker <- TwoWakers
  MaxSpawn = 2
  Nobody = Nobody
SYMMETRY Interchangeable
INVARIANT ReuseKeepsWakes
CHECK_DEADLOCK FALSE
