\* The bound check of a descriptor after a format with open files.
SPECIFICATION Spec
CONSTANTS
  p1 = p1  p2 = p2
  h1 = h1  h2 = h2  h3 = h3
  f1 = f1  f2 = f2  f3 = f3
  NULL = NULL
  Closed = Closed
  Files <- MCFiles
  Paths <- MCPaths
  Handles <- MCHandles2
  Hash <- Distinct
  USE_ONLY_HASH = FALSE
  MIN_SIZE = 1
  REALLOC_FACTOR = 2
  UINT16_MAX = 5
  FormatWhileOpen = TRUE
  MountAllocFails = FALSE
SYMMETRY Symmetry
INVARIANTS CheckedFdIsInRange
CHECK_DEADLOCK FALSE
