SPECIFICATION FileSpec
CONSTANTS
  NULL = NULL
  Quote = Quote
  Backslash = Backslash
  DICTMINSZ = 2
  Hash <- MCHash
  Names <- MCNames
  Values <- MCValues
  Tokens <- MCTokens
  Files <- MCFiles
  Edits <- MCEdits
  Lower <- MCLower
  MaxEdits = 2
  MaxLines = 3
  ASCIILINESZ = 8
  KeyWidth = 2
INVARIANTS
  FileTypeOK
  ArraysConsistent
  LoadsWhatIsWritten
  RefusedAsAWhole
  SavedReadsBack
PROPERTY ImplementsMap
CHECK_DEADLOCK FALSE
