SPECIFICATION Spec
CONSTANTS
  Headers <- MCHeaders
  Sent <- MCSent
  Answers <- MCAnswers
  HeaderLength = 1
  MaxLines = 4
INVARIANTS
  TypeOK
  PacketsReadBack
  TreeShape
  CountsExact
  PrintedIsComplete
CHECK_DEADLOCK FALSE
