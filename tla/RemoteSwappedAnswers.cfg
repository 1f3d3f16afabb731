SPECIFICATION Spec
CONSTANTS
  Threads = {a, b}
  HasTag = TRUE
  Modes <- MCOverlapping
INVARIANT AnswersNeverSwapped
CHECK_DEADLOCK FALSE
