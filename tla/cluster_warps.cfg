SPECIFICATION Spec

CONSTANTS
    NUM_CUS = 4
    CLUSTER_SIZE = 2
    MAX_WARPS_PER_CU = 1
    CU_ID_VALUES = 2
    PIPELINES = {0}
    MAX_PROGRAM_LEN = 1
    Programs <- MCPrograms
    WarpCounts <- MCOneWarp
    DISPATCH_DEPTH = 2
    EVENTS_DEPTH = 1
    SIGNAL_DEPTH = 2
    MAX_LAUNCHES = 1

INVARIANT OneSlotPerWarp

CHECK_DEADLOCK FALSE
