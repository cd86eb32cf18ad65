SPECIFICATION ExecutorSpec
CONSTANTS
  s1 = s1
  s2 = s2
  w1 = w1
  w2 = w2
  k1 = k1
  k2 = k2
  Slot <- OneSlot
  Worker <- OneWorker
  Waker <- OneWaker
  MaxSpawn = 1
  Nobody = Nobody
PROPERTY JoinReturns
CHECK_DEADLOCK FALSE
