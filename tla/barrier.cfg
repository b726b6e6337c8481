SPECIFICATION FairSpec
CONSTANTS
  NUM_CUS = 2
  MAX_WARPS_PER_CU = 2
  CU_ID_VALUES = 8
  MAX_PROGRAM_LEN = 3
  SEED_WORDS = 1
  DISPATCH_DEPTH = 2
  STATUS_DEPTH = 2
  EVENTS_DEPTH = 2
  SIGNAL_DEPTH = 2
  SEED_DEPTH = 4
  LOADED_DEPTH = 1
  Programs <- MCProgramsTwoBarriers
  WarpCounts <- MCWarpsUneven
  MAX_LAUNCHES = 1
  HOST_CLEARS = "on_done"
INVARIANTS
  TypeOK
  ArrivalsAccountedFor
  NoWarpOvertakesBarrier
  OneWarpInFlight
  DoneMeansFinished
  EventWriteNeverBlocks
PROPERTIES
  ImplementsKernelBarrier
  LaunchCompletes
  SchedulersReturnToIdle
