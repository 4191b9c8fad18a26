\* Formats at any time, a remount that may lack memory, paths known by hash only.
SPECIFICATION Spec
CONSTANTS
  p1 = p1  p2 = p2
  h1 = h1  h2 = h2  h3 = h3
  f1 = f1  f2 = f2  f3 = f3
  NULL = NULL
  Closed = Closed
  Files <- MCFiles
  Paths <- MCPaths
  Handles <- MCHandles
  Hash <- Collide
  USE_ONLY_HASH = TRUE
  MIN_SIZE = 1
  REALLOC_FACTOR = 2
  UINT16_MAX = 5
  FormatWhileOpen = TRUE
  MountAllocFails = TRUE
SYMMETRY Symmetry
INVARIANTS TableConsistent CacheSizeTellsMounted
\* A call through a stale descriptor may panic, and then nothing runs.
CHECK_DEADLOCK FALSE
