\* Callers that format only a volume without open files.
SPECIFICATION Spec
CONSTANTS
  p1 = p1  p2 = p2
  h1 = h1  h2 = h2  h3 = h3
  f1 = f1  f2 = f2  f3 = f3
  NULL = NULL
  Closed = Closed
  Files <- MCFiles
  Paths <- MCPaths
  Handles <- MCHandles
  Hash <- Collide
  USE_ONLY_HASH = FALSE
  MIN_SIZE = 1
  REALLOC_FACTOR = 3
  UINT16_MAX = 4
  FormatWhileOpen = FALSE
  MountAllocFails = FALSE
SYMMETRY Symmetry
INVARIANTS TypeOK FreshHandlesLive LookupComplete
PROPERTIES HandleKeepsObject ImplementsFdSpec
\* A path call after a failed format panics, and then nothing runs.
CHECK_DEADLOCK FALSE
