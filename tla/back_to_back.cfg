SPECIFICATION Spec
CONSTANTS
  SIZE_VALUES = 64
  HOST_MEMORY = 3
  ALLOC_ALIGN = 2
  DEV_BASE = 8
  DEV_LIMIT = 12
  MEM_BASE = 1
  MEM_SIZE = 8
  HEAP_OFFSET = 5
  VERIFY_BYTES = 1
  Images <- MCImages
  Files <- MCFiles
  Manifests <- MCManifests
  Names = {"k1", "k2"}
  Sources <- MCSources
  BadSource = "bad"
  Sizes <- MCSizes
  Builds = {"fpga"}
  WAITS = FALSE
  MAX_STAGED = 1
INVARIANT
  SynchronizeWaits
