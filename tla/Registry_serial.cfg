\* The same calls with the overlaps under which no walk meets a freed context.
SPECIFICATION FairSpec
CONSTANTS
  t1 = t1  t2 = t2
  ca = ca  cb = cb  cc = cc
  da = da  db = db
  x1 = x1  x2 = x2
  NULL = NULL
  Tasks <- MCTasks
  Devices <- MCDevices
  Ctxs <- MCCtxs
  Confs <- MCConfs
  Device <- MCDevice
  Unchecked = {}
  NoMount = {cc}
  BlockDevs = {db}
  MAX = 2
  Overlap <- SerialOtherDevices
  OneDevice <- SerialSameDevice
  VfsRefuses = FALSE
INVARIANTS NoFault
PROPERTIES CallsReturn
