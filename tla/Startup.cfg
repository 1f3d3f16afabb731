SPECIFICATION StartSpec
CONSTANTS
  NULL = NULL
  Quote = Quote
  Backslash = Backslash
  DICTMINSZ = 2
  Hash <- MCHash
  Names <- MCNames
  Values <- MCValues
  Tokens <- MCTokens
  Files <- MCFiles
  Edits = {}
  Lower <- MCLower
  MaxEdits = 0
  ASCIILINESZ = 30
  KeyWidth = 2
  Builds = {"windows", "linux"}
  Bytes <- MCBytes
  Gaps <- MCGaps
  MaxCommands = 2
  MaxBlocks = 2
INVARIANTS
  StartTypeOK
  LoadedAsWritten
  CallsReachTheirName
  SocketsBalanced
CHECK_DEADLOCK FALSE
