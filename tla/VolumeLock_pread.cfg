\* A pread whose seek fails keeps the lock.
SPECIFICATION FairSpec
CONSTANTS
  t1 = t1  t2 = t2
  p1 = p1  p2 = p2
  h1 = h1  h2 = h2
  f1 = f1  f2 = f2  f3 = f3
  NULL = NULL
  Closed = Closed
  Tasks <- MCTasks
  Files <- MCFiles2
  Paths <- MCPath
  Handles <- MCHandle
  Hash <- Collide
  USE_ONLY_HASH = FALSE
  MIN_SIZE = 1
  REALLOC_FACTOR = 2
  UINT16_MAX = 5
  FLUSH = FALSE
  SharedHandles = FALSE
  SeekErrors = TRUE
  MaxDepth = 3
PROPERTIES CallsReturn
\* Once the lock is lost, every task waits for it.
CHECK_DEADLOCK FALSE
