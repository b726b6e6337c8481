SPECIFICATION Spec
CONSTANTS
    NUM_CUS = 2
    NUM_LINES = 3
    WORDS_PER_LINE = 1
    L1_WAYS = 2
    L1_SETS_PER_WAY = 1
    L2_WAYS = 2
    L2_SETS_PER_WAY = 1
    MAX_WRITES = 2
    MAX_HOST_WRITES = 0
INVARIANT
    DataParity
