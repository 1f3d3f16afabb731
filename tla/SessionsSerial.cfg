SPECIFICATION Spec
CONSTANTS
  Threads = {a}
  Contexts = {c}
  StaticReaders = {simona}
  RemoteReaders = {proxied}
  PhysReaders = {gemalto, omnikey}
  PhysHandles = {p}
  Concurrent = FALSE
  MultiContext = FALSE
  OutParamKept = FALSE
  Wide = FALSE
  MaxCardID = 4
INVARIANT TypeOK
INVARIANT RightReader
INVARIANT HandleUnique
INVARIANT ListsAgree
PROPERTY ImplementsHandles
CHECK_DEADLOCK FALSE
