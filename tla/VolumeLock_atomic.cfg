\* Each handle is used by one task at a time.
SPECIFICATION Spec
CONSTANTS
  t1 = t1  t2 = t2
  p1 = p1  p2 = p2
  h1 = h1  h2 = h2
  f1 = f1  f2 = f2  f3 = f3
  NULL = NULL
  Closed = Closed
  Tasks <- MCTasks
  Files <- MCFiles2
  Paths <- MCPaths
  Handles <- MCHandle
  Hash <- Collide
  USE_ONLY_HASH = FALSE
  MIN_SIZE = 1
  REALLOC_FACTOR = 2
  UINT16_MAX = 5
  FLUSH = FALSE
  SharedHandles = FALSE
  SeekErrors = FALSE
  MaxDepth = 3
SYMMETRY Symmetry
INVARIANTS TypeOK LockMatchesSections
PROPERTIES ImplementsFdTable
