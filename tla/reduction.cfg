SPECIFICATION Spec
CONSTANTS
    TPW = 32
    WORD = 1048576
    GPU_COUNTS = {1}
    NUM_CUS = 2
    GRIDS = {2}
    KERNELS <- MCKernels
    DIRECT_KERNELS = {"fpSaxpy", "fpFmadd", "fpDivergentSaxpy", "fpGemm", "conv2d3x3"}
    DIRECT_SEEDS = {0, 1, 2, 3}
    HOSTS = {"idle"}
    MAX_LAUNCHES = 1
CHECK_DEADLOCK FALSE
INVARIANT ReductionSymmetric
