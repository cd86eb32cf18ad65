\* Prompts may carry any task: every path of the loop.  The undo part starts
\* with one finished turn.  Three calls of the store.
CONSTANTS
  Request = {r1, r2}
  Kinds = {"none", "subtask", "compaction"}
  MayCancel = TRUE
  NoOne = NoOne
  MaxId = 3
  Undoer = {u1}
  NoRecord = NoRecord
  MaxReverts = 2
  MaxMessage = 4
  Task = {t1, t2, t3}
  MaxFaults = 4
SYMMETRY CallersAreAlike
SPECIFICATION ServerSpec
INVARIANTS SessionSound OneLiveRun WaitingIsListed BusyWhileLooping NewMessagesStay
  IInv LastChangeIsVisible ReadIsFresh DurableIsOnDisk UpdateOnLatest OverlayIsCarried
PROPERTIES ImplementsRegister
\* Every request and call is served once, then nothing is left to do.
CHECK_DEADLOCK FALSE
