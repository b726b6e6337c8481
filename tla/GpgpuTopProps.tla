---------------------------- MODULE GpgpuTopProps ----------------------------
(***************************************************************************)
(* What the flat gpgpu_scheduler guarantees for one kernel launched on a   *)
(* device out of reset, and what its comments and documents claim for more *)
(* than that.                                                              *)
(***************************************************************************)
EXTENDS GpgpuTop

Elements(seq) == {seq[i] : i \in DOMAIN seq}

SlotAt(w) == slots[w[1]][w[2]]

\* The warps of the kernel that was launched.
Kernel == WarpsOf(total_warps)

\* A release for CU c has been decided and CU c has not consumed it yet.
ReleasePending(c) ==
    \/ b_pc = "release" /\ b_c <= c
    \/ "release" \in Elements(barrier_signal[c])

\* The warps that wait at the barrier of the current wave.
Waiting ==
    {w \in CU \X Slot : SlotAt(w).state = "STALLED" /\ ~ReleasePending(w[1])}

Finished == {w \in CU \X Slot : SlotAt(w).state = "DONE"}

\* The warps whose event of the given code is still in flight to barrierCore.
Reported(code) ==
    {w \in CU \X Slot :
        \E e \in Elements(barrier_events[w[1]]) : e.code = code /\ e.slot_id = w[2]}
-----------------------------------------------------------------------------
HostType ==
    /\ start \in BOOLEAN /\ total_warps \in Nat
    /\ program \in Seq(Instr) /\ launches \in Launch

BarrierType ==
    /\ busy \in BOOLEAN /\ done \in BOOLEAN /\ fault \in BOOLEAN
    /\ barrier \in [total_warps: Nat, stalled_count: Nat, done_count: Nat]
    /\ b_pc \in {"poll", "ready", "release", "complete", "kernel_done"}
    /\ b_c \in CU
    /\ arrived \in SUBSET (CU \X Slot) /\ finished \in SUBSET (CU \X Slot)

LoaderType ==
    /\ loader \in [loaded: BOOLEAN, load_idx: 0 .. MAX_PROGRAM_LEN,
                   regs_done: BOOLEAN, seed_c: 0 .. NUM_CUS,
                   seed_slot: 0 .. MAX_WARPS_PER_CU, seed_i: Word,
                   blocked: BOOLEAN]
    /\ program_store \in [ProgramAddr -> Instr \cup {NoInstr}]

SchedType ==
    /\ slots \in [CU -> [Slot -> WarpSlot]]
    /\ busy_cu_scheduler \in [CU -> BOOLEAN] /\ busy_cu \in [CU -> BOOLEAN]
    /\ s_pc \in [CU -> {"dispatch", "status", "signal", "token"}]
    /\ cu_launch \in [CU -> Launch]

ComputeType ==
    /\ executing \in [CU -> Dispatch]
    /\ c_pc \in [CU -> {"seed", "dispatch", "execute"}]
    /\ regs \in [CU -> [Slot -> [Word -> Launch]]]

StreamType ==
    /\ dispatch_out \in [CU -> Seq(Dispatch)]
    /\ status_in \in [CU -> Seq(Status)]
    /\ barrier_events \in [CU -> Seq(Event)]
    /\ barrier_signal \in [CU -> Seq(Signal)]
    /\ reg_seed \in [CU -> Seq(Seed)]
    /\ loaded_sig \in [CU -> Seq(BOOLEAN)]

(***************************************************************************)
(* Type correctness of the registers, process states and streams.          *)
(***************************************************************************)
TypeOK == HostType /\ BarrierType /\ LoaderType /\ SchedType /\ ComputeType /\ StreamType

(***************************************************************************)
(* No barrier arrival and no completion is lost or counted twice on its    *)
(* way from a CU's recordResult() through its event stream to barrierCore: *)
(* the warps waiting are those counted in stalled_count_ and those whose   *)
(* event is in flight, and never both; likewise for done_count_.           *)
(***************************************************************************)
ArrivalsAccountedFor ==
    ~done =>
      /\ barrier.stalled_count = Cardinality(arrived)
      /\ barrier.done_count = Cardinality(finished)
      /\ arrived \cap Reported("STALLED_AT_BARRIER") = {}
      /\ finished \cap Reported("COMPLETE") = {}
      /\ Waiting = arrived \cup Reported("STALLED_AT_BARRIER")
      /\ Finished = finished \cup Reported("COMPLETE")

(***************************************************************************)
(* No warp runs beyond a barrier that another warp of the kernel has not   *)
(* reached: whatever pc a warp was last released at, every other warp has  *)
(* stalled at that pc too or is past it (barrierReleaseReady, all CUs).    *)
(***************************************************************************)
NoWarpOvertakesBarrier ==
    \A w, v \in Kernel :
        SlotAt(w).state \in {"READY", "DONE"} =>
            SlotAt(v).resume_pc >= SlotAt(w).resume_pc

(***************************************************************************)
(* busy_cu is exactly "one dispatched warp has not reported yet": the slot *)
(* stays READY while it runs, so this flag alone keeps schedulerCore from  *)
(* dispatching it twice.                                                   *)
(***************************************************************************)
OneWarpInFlight ==
    \A c \in CU :
        Len(dispatch_out[c]) + Len(status_in[c])
            + (IF c_pc[c] = "execute" THEN 1 ELSE 0)
        = (IF busy_cu[c] THEN 1 ELSE 0)

(***************************************************************************)
(* status.done is raised only when every warp of the kernel has run to     *)
(* completion and nothing of it is still moving in the device.             *)
(***************************************************************************)
DoneMeansFinished ==
    done => /\ Finished = Kernel
            /\ \A c \in CU : AllSlotsDone(slots[c]) /\ ~busy_cu[c]
            /\ \A c \in CU : barrier_events[c] = <<>>

(***************************************************************************)
(* When a CU has a warp to run, the program it will run is in its store    *)
(* and every register word of its warps is seeded or already in its seed   *)
(* stream ("programLoader guarantees all seeds are in the stream before    *)
(* schedulerCore dispatches the first warp", compute_pipeline.cpp:328).    *)
(***************************************************************************)
SeedsPrecedeDispatch ==
    \A c \in CU : dispatch_out[c] # <<>> \/ c_pc[c] = "execute" =>
        /\ \A i \in ProgramAddr :
              i < Len(program) => program_store[i] = program[i + 1]
        /\ \A s \in Slot, i \in Word :
              <<c, s>> \in Kernel =>
                \/ regs[c][s][i] = launches
                \/ [slot_id |-> s, word |-> i, value |-> launches]
                      \in Elements(reg_seed[c])

(***************************************************************************)
(* A scheduler that has read a status finds room for its event: a stream   *)
(* of MAX_WARPS_PER_CU entries holds every event a CU can have in flight,  *)
(* so barrierCore never stalls a CU, however late it polls.                *)
(***************************************************************************)
EventWriteNeverBlocks ==
    \A c \in CU : status_in[c] # <<>> => Len(barrier_events[c]) < EVENTS_DEPTH

(***************************************************************************)
(* A launch above the resident capacity is rejected as a whole: fault is   *)
(* raised, and no CU ever assigns a slot or dispatches a warp of it.       *)
(***************************************************************************)
FaultedLaunchRunsNothing ==
    fault \/ total_warps > Capacity =>
        /\ total_warps > Capacity
        /\ ~busy /\ ~done
        /\ \A c \in CU : /\ \A s \in Slot : slots[c][s].state = "EMPTY"
                         /\ dispatch_out[c] = <<>> /\ c_pc[c] # "execute"

(***************************************************************************)
(* The device implements the one-kernel barrier of KernelBarrier.          *)
(***************************************************************************)
Abstract == INSTANCE KernelBarrier WITH
    Warp <- CU \X Slot,
    kernel <- IF LaunchFault(total_warps) THEN {} ELSE Kernel,
    waiting <- Waiting,
    finished <- Finished,
    complete <- done

ImplementsKernelBarrier == Abstract!Spec

(***************************************************************************)
(* A kernel of at least one warp that fits the device and is started is    *)
(* eventually reported done.                                               *)
(***************************************************************************)
LaunchCompletes ==
    (start /\ total_warps \in 1 .. Capacity) ~> done

(***************************************************************************)
(* After kernel_done every scheduler ends in IDLE, ready for a launch.     *)
(***************************************************************************)
SchedulersReturnToIdle ==
    done ~> [](\A c \in CU : ~busy_cu_scheduler[c])
-----------------------------------------------------------------------------
(***************************************************************************)
(* interfaces.md:1256 "every CuDispatchUnit's slots and BarrierArbiter's   *)
(* counters reset fresh on each start": while a CU runs the current launch *)
(* barrierCore counts against the total_warps of that launch.              *)
(***************************************************************************)
CountersFreshOnStart ==
    \A c \in CU :
        busy_cu_scheduler[c] /\ cu_launch[c] = launches /\ busy
            => barrier.total_warps = total_warps
=============================================================================
