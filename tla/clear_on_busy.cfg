SPECIFICATION FairSpec
CONSTANTS
  NUM_CUS = 2
  MAX_WARPS_PER_CU = 1
  CU_ID_VALUES = 8
  MAX_PROGRAM_LEN = 3
  SEED_WORDS = 1
  DISPATCH_DEPTH = 2
  STATUS_DEPTH = 2
  EVENTS_DEPTH = 1
  SIGNAL_DEPTH = 2
  SEED_DEPTH = 4
  LOADED_DEPTH = 1
  Programs <- MCProgramsOneBarrier
  WarpCounts <- MCWarpsTwo
  MAX_LAUNCHES = 1
  HOST_CLEARS = "on_busy"
PROPERTY
  LaunchCompletes
