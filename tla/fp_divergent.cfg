SPECIFICATION Spec
CONSTANTS
    TPW = 3
    WORD = 1048576
    GPU_COUNTS = {1, 2}
    NUM_CUS = 2
    GRIDS = {1, 2, 3, 4}
    KERNELS <- MCKernels
    DIRECT_KERNELS = {"fpDivergentSaxpy"}
    DIRECT_SEEDS = {0, 1, 2, 3}
    HOSTS = {"direct"}
    MAX_LAUNCHES = 2
CHECK_DEADLOCK FALSE
INVARIANT
  DivergentSaxpyEvenOdd
