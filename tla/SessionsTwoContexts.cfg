SPECIFICATION Spec
CONSTANTS
  Threads = {a}
  Contexts = {c, d}
  StaticReaders = {simona}
  RemoteReaders = {proxied}
  PhysReaders = {gemalto, omnikey}
  PhysHandles = {p}
  Concurrent = FALSE
  MultiContext = TRUE
  OutParamKept = FALSE
  Wide = FALSE
  MaxCardID = 3
INVARIANT RightReader
CHECK_DEADLOCK FALSE
