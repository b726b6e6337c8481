--------------------------- MODULE MCKernelBridge ---------------------------
(* Launches for TLC. *)
EXTENDS KernelBridge

Plain == [matches |-> TRUE, grid |-> <<1, 1, 1>>, block |-> <<3, 1, 1>>,
          shared_mem_bytes |-> 1, elf_loads |-> TRUE, device_ptrs |-> KnownPtrs,
          num_args |-> 8, wide_arg |-> FALSE]

\* Threads that run: one block of three threads, two blocks of two.
MCRunning == {Plain, [Plain EXCEPT !.grid = <<2, 1, 1>>, !.block = <<1, 2, 1>>]}

\* Launches with other shapes (their shared memory is refused), or refused.
MCShapes ==
    {[Plain EXCEPT !.grid = g, !.block = b, !.shared_mem_bytes = 3] :
        g \in {<<1, 1, 1>>, <<2, 2, 1>>, <<2, 3, 2>>}, b \in {<<1, 1, 1>>, <<2, 2, 3>>, <<3, 2, 2>>}}
MCRefused ==
    {[Plain EXCEPT !.elf_loads = FALSE], [Plain EXCEPT !.device_ptrs = Ptrs],
     [Plain EXCEPT !.num_args = 9], [Plain EXCEPT !.wide_arg = TRUE],
     [Plain EXCEPT !.shared_mem_bytes = 3]}
MCMismatch == {[Plain EXCEPT !.matches = FALSE]}

MCLaunches == MCRunning \cup MCShapes \cup MCRefused \cup MCMismatch
=============================================================================
