\* Two tasks use, close and reopen the same handles.
SPECIFICATION Spec
CONSTANTS
  t1 = t1  t2 = t2
  p1 = p1  p2 = p2
  h1 = h1  h2 = h2
  f1 = f1  f2 = f2  f3 = f3
  NULL = NULL
  Closed = Closed
  Tasks <- MCTasks
  Files <- MCFiles
  Paths <- MCPath
  Handles <- MCHandles
  Hash <- Collide
  USE_ONLY_HASH = FALSE
  MIN_SIZE = 1
  REALLOC_FACTOR = 2
  UINT16_MAX = 5
  FLUSH = TRUE
  SharedHandles = TRUE
  SeekErrors = TRUE
  MaxDepth = 3
SYMMETRY Symmetry
INVARIANTS FileInUseAllocated TableConsistentWhenFree
\* A call through a stale descriptor may panic, and then nothing runs.
CHECK_DEADLOCK FALSE
