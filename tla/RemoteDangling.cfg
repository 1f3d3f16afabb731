SPECIFICATION Spec
CONSTANTS
  Threads = {a}
  HasTag = TRUE
  Modes <- MCPerCommand
INVARIANT NeverDangling
CHECK_DEADLOCK FALSE
