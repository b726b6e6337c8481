---------------------------- MODULE MCGoldenTop ----------------------------
(* Kernels for TLC. *)
EXTENDS GoldenTop

MCKernels == [idle |-> {"intSaxpy", "fpUniformSaxpy", "memoryRoundTrip", "divergentOddEven",
                        "barrierRoundTrip", "parallelReduction", "twoBarriers"},
              any |-> {"memoryRoundTrip", "twoBarriers"},
              direct |-> {}]
=============================================================================
