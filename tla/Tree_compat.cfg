\* Path calls with SPIFFS compatibility, and a directory stream.
SPECIFICATION FairSpec
CONSTANTS
  h1 = h1
  s1 = s1
  NULL = NULL
  Streams <- MCStreams
  SPIFFS_COMPAT = TRUE
  COVERED = 2
  RenameOpen = FALSE
  MaxOffset = 3
  Paths <- MCPaths
  Handles <- MCHandles
  READ_ONLY = FALSE
INVARIANTS TypeOK OpenNamesExist EmptyDirsExplained OffsetTellsPosition
PROPERTIES SeekEnds
