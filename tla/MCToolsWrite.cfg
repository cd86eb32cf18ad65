SPECIFICATION ToolsSpec
CONSTANTS
  c1 = c1
  c2 = c2
  s1 = s1
  s2 = s2
  Session = {s1, s2}
  Call = {c1, c2}
  Commands <- MCCommands
  Repeats = {c2}
  Steady = {s2}
  ShouldBreak = TRUE
  MaxAttempts = 1
  MaxVersion = 2
CHECK_DEADLOCK FALSE
INVARIANTS WritesAreSerialized
