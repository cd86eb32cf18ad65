\* Plain prompts and shell commands (the loop still adds compactions).
CONSTANTS
  Task = {t1, t2, t3, t4}
  Request = {r1, r2}
  Kinds = {"none"}
  MayCancel = TRUE
  NoOne = NoOne
  MaxId = 3
SPECIFICATION WaitingSpec
INVARIANTS IInv MutualExclusion NoLostWakeup
PROPERTIES WriterNotStarved EveryRequestSettles
CHECK_DEADLOCK FALSE
