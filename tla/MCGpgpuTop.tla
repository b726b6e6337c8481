------------------------------ MODULE MCGpgpuTop ------------------------------
(***************************************************************************)
(* Instances of the flat gpgpu_scheduler for TLC.                          *)
(***************************************************************************)
EXTENDS GpgpuTopInv

\* Kernels: straight-line code with one and with two barriers.
P1 == <<"BARRIER", "HALT">>
P2 == <<"BARRIER", "BARRIER", "HALT">>
\* Longer than the program store and without HALT.
PLong == <<"BARRIER", "OP", "OP", "OP">>

MCProgramsTwoBarriers == {P2}
MCProgramsOneBarrier == {P1}
MCProgramsAnyHost == {P1, PLong}

\* One warp on one unit only; two warps on one unit and one on the other.
MCWarpsUneven == {1, 3}
MCWarpsFit == 1 .. Capacity
MCWarpsAll == 0 .. Capacity + 1
MCWarpsTwo == {2}
=============================================================================
