\* One writer and readers, with failing calls and resets at any time.
SPECIFICATION Spec
CONSTANTS
  f1 = f1
  h1 = h1  h2 = h2
  NULL = NULL
  Files <- MCFile
  Handles <- MCHandles
  Modes <- MCModes
  RandomNonces <- MCRandom
  Times <- MCTimes
  UtimeWhileOpen = FALSE
  FLUSH = TRUE
  MaxVersion = 3
  MaxNonce = 6
SYMMETRY Symmetry
INVARIANTS TypeOK ContentHasNonce Durable
PROPERTIES NonceGrows
