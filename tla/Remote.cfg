SPECIFICATION FairSpec
CONSTANTS
  Threads = {a, b}
  HasTag = TRUE
  Modes <- MCSerial
INVARIANT TypeOK
INVARIANT OwnAnswer
INVARIANT AcceptedInSync
INVARIANT NoUseAfterFree
PROPERTY EveryCallReturns
PROPERTY ImplementsService
CHECK_DEADLOCK FALSE
