SPECIFICATION Spec
CONSTANTS
  Threads = {a, b}
  Contexts = {c, d}
  StaticReaders = {simona}
  RemoteReaders = {}
  PhysReaders = {gemalto}
  PhysHandles = {p}
  Concurrent = TRUE
  MultiContext = TRUE
  OutParamKept = FALSE
  Wide = TRUE
  MaxCardID = 2
INVARIANT PhysicalUndisturbed
SYMMETRY Symmetry
CHECK_DEADLOCK FALSE
