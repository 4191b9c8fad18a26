\* All calls on three configurations of two devices, with wide overlaps; the
\* program stops at a bad access, which is checked to be one of a walk.
SPECIFICATION Spec
CONSTANTS
  t1 = t1  t2 = t2
  ca = ca  cb = cb  cc = cc
  da = da  db = db
  x1 = x1  x2 = x2
  NULL = NULL
  Tasks <- MCTasks
  Devices <- MCDevices
  Ctxs <- MCCtxs
  Confs <- MCConfs
  Device <- MCDevice
  Unchecked = {}
  NoMount = {cc}
  BlockDevs = {db}
  MAX = 2
  Overlap <- OtherDevices
  OneDevice <- SameDevice
  VfsRefuses = TRUE
CHECK_DEADLOCK FALSE
INVARIANTS TypeOK OnlyWalksFault OneInside MountedIsListed NothingLeftBehind OneContextPerDevice
PROPERTIES PreexistingMountsUntouched LookupsFindMounted ImplementsMountSpec
