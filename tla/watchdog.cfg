SPECIFICATION Spec
CONSTANTS
  NUM_COMPUTE_UNITS = 2
  MAX_SIM_CYCLES = 2
  SHARED_MEM_SIZE = 2
  WarpSizes = {1, 2}
  Launches <- MCLaunches
  BarrierIds = {b1, b2}
  Ptrs = {p, q}
  KnownPtrs = {p}
CHECK_DEADLOCK FALSE
INVARIANT
  TrueMeansFinished
