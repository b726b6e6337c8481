---------------------------- MODULE KernelBarrier ----------------------------
(***************************************************************************)
(* What the device promises about one kernel, whatever the number of       *)
(* compute units, streams and processes that carry it out: its warps run,  *)
(* wait at barriers and finish; a barrier opens only when every warp of    *)
(* the kernel waits at it, and opens for all of them at once; the kernel   *)
(* is reported complete only when every warp has finished.                 *)
(***************************************************************************)
CONSTANT Warp       \* places a warp can live in

VARIABLES kernel,   \* the warps of the launched kernel, {} before a launch
          waiting,  \* the warps waiting at the current barrier
          finished, \* the warps that have run to completion
          complete  \* the kernel has been reported complete

vars == <<kernel, waiting, finished, complete>>

Running == kernel \ (waiting \cup finished)

Init == kernel = {} /\ waiting = {} /\ finished = {} /\ complete = FALSE

LaunchKernel(K) ==
    /\ kernel = {} /\ K # {}
    /\ kernel' = K
    /\ UNCHANGED <<waiting, finished, complete>>

Arrive(w) ==
    /\ w \in Running
    /\ waiting' = waiting \cup {w}
    /\ UNCHANGED <<kernel, finished, complete>>

Release ==
    /\ kernel # {} /\ waiting = kernel
    /\ waiting' = {}
    /\ UNCHANGED <<kernel, finished, complete>>

Finish(w) ==
    /\ w \in Running
    /\ finished' = finished \cup {w}
    /\ UNCHANGED <<kernel, waiting, complete>>

Complete ==
    /\ kernel # {} /\ finished = kernel
    /\ complete' = TRUE
    /\ UNCHANGED <<kernel, waiting, finished>>

Next ==
    \/ \E K \in SUBSET Warp : LaunchKernel(K)
    \/ \E w \in Warp : Arrive(w) \/ Finish(w)
    \/ Release
    \/ Complete

Spec == Init /\ [][Next]_vars
=============================================================================
