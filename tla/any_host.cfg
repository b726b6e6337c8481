SPECIFICATION Spec
CONSTANTS
  NUM_CUS = 2
  MAX_WARPS_PER_CU = 1
  CU_ID_VALUES = 8
  MAX_PROGRAM_LEN = 3
  SEED_WORDS = 2
  DISPATCH_DEPTH = 2
  STATUS_DEPTH = 2
  EVENTS_DEPTH = 1
  SIGNAL_DEPTH = 2
  SEED_DEPTH = 1
  LOADED_DEPTH = 1
  Programs <- MCProgramsAnyHost
  WarpCounts <- MCWarpsAll
  MAX_LAUNCHES = 1
  HOST_CLEARS = "any_time"
INVARIANTS
  IInv
  SeedsPrecedeDispatch
  FaultedLaunchRunsNothing
