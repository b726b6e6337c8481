SPECIFICATION Spec

CONSTANTS
    NUM_CUS = 4
    CLUSTER_SIZE = 2
    MAX_WARPS_PER_CU = 1
    CU_ID_VALUES = 3
    PIPELINES = {0}
    MAX_PROGRAM_LEN = 1
    Programs <- MCPrograms
    WarpCounts <- MCWarps
    DISPATCH_DEPTH = 2
    EVENTS_DEPTH = 1
    SIGNAL_DEPTH = 2
    MAX_LAUNCHES = 1
CHECK_DEADLOCK FALSE
INVARIANTS
  RelayInv
PROPERTIES
  LaunchCompletes
  SchedulersReturn
