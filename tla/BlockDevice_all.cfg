\* All geometries with the usual flags, and all flags with a usual geometry.
SPECIFICATION Spec
CONSTANTS
  CACHE_SIZE = 4
  READ_SIZE = 1
  WRITE_SIZE = 1
  BLOCK_SIZE = 4
  LFS_MIN_BLOCK_SIZE = 3
  WORD = 16
  MAX_BLOCK = 3
  Devices <- MCDevices
  Confs <- MCConfs
INVARIANTS TypeOK AcceptedGeometry LogicalBlockIsLeast AccessOnDevice AccessMatchesRequest
  ReadOnlyNeverWritten MountsDetectBlocks
\* A refused, failed or aborted registration does nothing more.
CHECK_DEADLOCK FALSE
