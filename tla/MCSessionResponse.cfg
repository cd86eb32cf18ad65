\* The documented promise of POST /session/:id/message.
CONSTANTS
  Request = {r1, r2}
  Kinds = {"none"}
  MayCancel = FALSE
  NoOne = NoOne
  MaxId = 3
SPECIFICATION LoopSpec
INVARIANT ResponseSawTheMessage
CHECK_DEADLOCK FALSE
