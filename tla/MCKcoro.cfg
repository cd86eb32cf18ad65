SPECIFICATION KcoroSpec
CONSTANTS
  Value = {a, b}
  Capacity = 2
  MaxSent = 4
  None = None
  Slot = {s1, s2}
  Worker = {w1, w2}
  Waker = {k1}
  MaxSpawn = 3
  Nobody = Nobody
  Resolver = {r1, r2}
  Asker = {t1, t2}
  Watcher = {p1, p2}
  Nothing = Nothing
  root = root
  child = child
  Node = {root, child}
  Parent <- MCParent
  NoNode = NoNode
  Controller = {c1, c2}
  Reader = {q1}
  MaxEpoch = 4
SYMMETRY Interchangeable
INVARIANTS Sound CellHasOneUser EndsAreWoken NoConcurrentPoll WakeIsKept WorkIsNoticed
  StopSettlesTasks AnsweredOnce NobodyIsLeft
PROPERTIES Implements EndHidesNothing SnapshotsAdvance
CHECK_DEADLOCK FALSE
