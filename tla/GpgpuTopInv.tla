----------------------------- MODULE GpgpuTopInv -----------------------------
(***************************************************************************)
(* The inductive invariant of a device out of reset that is started once   *)
(* (MAX_LAUNCHES = 1), for any number of CUs, slots, warps and barriers    *)
(* and any host that clears start whenever it likes.                       *)
(***************************************************************************)
EXTENDS GpgpuTopProps

HasWarp(c) == \E s \in Slot : <<c, s>> \in Kernel

\* programLoader has written CU c's loaded token (consumed or not).
TokenSent(c) == cu_launch[c] # 0 \/ loaded_sig[c] # <<>>

\* Execution of the kernel from pc stalls at the BARRIER in word i.
KernelStopsAt(pc, i) ==
    /\ i \in ProgramAddr /\ pc <= i /\ i < Len(program)
    /\ program[i + 1] = "BARRIER"
    /\ \A j \in ProgramAddr :
          pc <= j /\ j < i => program[j + 1] \notin {"BARRIER", "HALT"}

\* A warp that is not waiting: it runs, has finished, has yet to be launched,
\* or has been released without its CU knowing yet.
Released == Kernel \ Waiting

(***************************************************************************)
(* Before the launch nothing has happened.                                 *)
(***************************************************************************)
QuietBeforeLaunch ==
    /\ start => launches = 1
    /\ launches = 0 =>
          /\ total_warps = 0 /\ loader = LoaderIdle
          /\ ~busy /\ ~done /\ ~fault
          /\ \A c \in CU : ~TokenSent(c) /\ barrier_signal[c] = <<>>

(***************************************************************************)
(* The loader has written what it says, and each CU's token at most once.  *)
(***************************************************************************)
StoreHolds(i) == i < Len(program) => program_store[i] = program[i + 1]

LoaderProgress ==
    /\ loader.loaded => loader.load_idx = MAX_PROGRAM_LEN
    /\ loader # LoaderIdle => launches = 1
    /\ \A i \in ProgramAddr : i < loader.load_idx => StoreHolds(i)
    /\ \A c \in CU : TokenSent(c) =>
          /\ \A i \in ProgramAddr : StoreHolds(i)
          /\ \/ ~start /\ loader.seed_slot < MAX_WARPS_PER_CU /\ ~loader.blocked
             \/ loader.regs_done
             \/ loader.seed_c > c

(***************************************************************************)
(* A CU that has not launched is in its reset state; one that has holds    *)
(* exactly its share of the kernel.                                        *)
(***************************************************************************)
ShareOf(c) ==
    /\ loaded_sig[c] # <<>> => cu_launch[c] = 0 /\ Len(loaded_sig[c]) = 1
    /\ cu_launch[c] = 0 =>
          /\ ~busy_cu_scheduler[c]
          /\ \A s \in Slot : slots[c][s].state = "EMPTY" /\ slots[c][s].resume_pc = 0
    /\ cu_launch[c] # 0 =>
          /\ ~LaunchFault(total_warps)
          /\ \A s \in Slot : <<c, s>> \in Kernel <=> slots[c][s].state # "EMPTY"

ShareOfKernel == \A c \in CU : ShareOf(c)

(***************************************************************************)
(* A scheduler that has seen start has seen a launch that fits, and waits. *)
(***************************************************************************)
StartSeen(c) ==
    s_pc[c] = "token" => launches = 1 /\ ~LaunchFault(total_warps) /\ ~busy_cu_scheduler[c]

StartsSeen == \A c \in CU : StartSeen(c)

(***************************************************************************)
(* What is in flight through a compute pipeline belongs to a READY slot    *)
(* and agrees with it.                                                     *)
(***************************************************************************)
DispatchAgrees(c, d) ==
    /\ slots[c][d.slot_id].state = "READY"
    /\ d.resume_pc = slots[c][d.slot_id].resume_pc

StatusAgrees(c, st) ==
    /\ slots[c][st.slot_id].state = "READY"
    /\ st.code = "STALLED_AT_BARRIER" =>
          KernelStopsAt(slots[c][st.slot_id].resume_pc, st.resume_pc - 1)

InFlight(c) ==
    Len(dispatch_out[c]) + Len(status_in[c])
        + (IF c_pc[c] = "execute" THEN 1 ELSE 0)

PipelineOf(c) ==
    /\ InFlight(c) = IF busy_cu[c] THEN 1 ELSE 0
    /\ dispatch_out[c] # <<>> => DispatchAgrees(c, Head(dispatch_out[c]))
    /\ c_pc[c] = "execute" => DispatchAgrees(c, executing[c])
    /\ status_in[c] # <<>> => StatusAgrees(c, Head(status_in[c]))
    /\ busy_cu[c] => busy_cu_scheduler[c]

PipelinesAgree == \A c \in CU : PipelineOf(c)

(***************************************************************************)
(* Events in flight: one per slot, of the code of the slot's state, not    *)
(* counted yet, and of no CU that still has a release to consume.          *)
(***************************************************************************)
OncePerSlot(q) == \A i, j \in DOMAIN q : q[i].slot_id = q[j].slot_id => i = j

EventAgrees(c, e) ==
    IF e.code = "COMPLETE"
      THEN <<c, e.slot_id>> \in Finished /\ <<c, e.slot_id>> \notin finished
      ELSE <<c, e.slot_id>> \in Waiting /\ <<c, e.slot_id>> \notin arrived

EventsAgree ==
    \A c \in CU :
        /\ OncePerSlot(barrier_events[c])
        /\ \A e \in Elements(barrier_events[c]) : EventAgrees(c, e)

CountersAgree ==
    /\ barrier.stalled_count = Cardinality(arrived)
    /\ barrier.done_count = Cardinality(finished)
    /\ arrived \subseteq Waiting
    /\ finished \subseteq Finished
    /\ ~done => Waiting \subseteq arrived \cup Reported("STALLED_AT_BARRIER")
    /\ ~done => Finished \subseteq finished \cup Reported("COMPLETE")

(***************************************************************************)
(* barrierCore's phases.                                                   *)
(***************************************************************************)
BarrierPhase ==
    /\ ~busy => b_pc \in {"poll", "kernel_done"}
    /\ busy => /\ ~LaunchFault(total_warps) /\ b_pc # "kernel_done"
               /\ barrier.total_warps = total_warps
    /\ ~busy /\ ~done => arrived = {} /\ finished = {}
    /\ fault => LaunchFault(total_warps)
    /\ b_pc \in {"ready", "complete"} => b_c = 0
    /\ ~busy /\ b_pc = "poll" => b_c = 0
    /\ b_pc = "kernel_done" => done
    /\ done => /\ total_warps # 0 /\ ~LaunchFault(total_warps)
               /\ Finished = Kernel
               /\ \A c \in CU : barrier_events[c] = <<>>
               /\ b_pc # "release"

(***************************************************************************)
(* A release on its way to a CU with warps is the only one, and finds all  *)
(* of them stalled.                                                        *)
(***************************************************************************)
AtMostOneRelease(q) ==
    \A i, j \in DOMAIN q : q[i] = "release" /\ q[j] = "release" => i = j

ReleaseOf(c) ==
    HasWarp(c) =>
        /\ ReleasePending(c) =>
              \A s \in Slot : <<c, s>> \in Kernel => slots[c][s].state = "STALLED"
        /\ AtMostOneRelease(barrier_signal[c])
        /\ b_pc = "release" /\ b_c <= c => "release" \notin Elements(barrier_signal[c])

SignalsAgree ==
    \A c \in CU :
        /\ ReleaseOf(c)
        /\ "kernel_done" \in Elements(barrier_signal[c]) => done

(***************************************************************************)
(* All warps are in the same wave: those released last resume at one pc,   *)
(* those waiting stopped at the first barrier after it.                    *)
(***************************************************************************)
WavesAgree ==
    /\ \A w, v \in Released : SlotAt(w).resume_pc = SlotAt(v).resume_pc
    /\ \A w, v \in Waiting : SlotAt(w).resume_pc = SlotAt(v).resume_pc
    /\ \A w \in Released, v \in Waiting :
          KernelStopsAt(SlotAt(w).resume_pc, SlotAt(v).resume_pc - 1)

(***************************************************************************)
(* The conjunction is inductive: every part is needed to carry the others  *)
(* through some step of barrierCore, programLoader, a schedulerCore or a   *)
(* compute_pipeline.                                                       *)
(***************************************************************************)
IInv ==
    /\ TypeOK
    /\ QuietBeforeLaunch
    /\ LoaderProgress
    /\ ShareOfKernel
    /\ StartsSeen
    /\ PipelinesAgree
    /\ EventsAgree
    /\ CountersAgree
    /\ BarrierPhase
    /\ SignalsAgree
    /\ WavesAgree

(***************************************************************************)
(* Seeding.  programLoader has dealt with word i of slot s of CU c: it has *)
(* written CU c's token, or stands in CU c beyond that word.               *)
(***************************************************************************)
WordPassed(c, s, i) ==
    \/ TokenSent(c)
    \/ /\ loader.seed_c = c
       /\ \/ loader.seed_slot > s
          \/ loader.seed_slot = s /\ loader.seed_i > i

WordSeeded(c, s, i) ==
    \/ regs[c][s][i] = launches
    \/ [slot_id |-> s, word |-> i, value |-> launches] \in Elements(reg_seed[c])

\* A word passed is seeded or about to be, and nothing can undo that: every
\* seed in a stream is one of this launch.  Inductive together with IInv.
SeedInv ==
    /\ \A c \in CU : loader.seed_c > c => TokenSent(c)
    /\ loader.seed_slot = MAX_WARPS_PER_CU => loader.seed_i = 0
    /\ \A c \in CU : \A e \in Elements(reg_seed[c]) : launches # 0 /\ e.value = launches
    /\ \A c \in CU, s \in Slot, i \in Word :
          <<c, s>> \in Kernel /\ WordPassed(c, s, i) => WordSeeded(c, s, i)
=============================================================================
