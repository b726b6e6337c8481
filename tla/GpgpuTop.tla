------------------------------- MODULE GpgpuTop -------------------------------
(***************************************************************************)
(* gpgpu_scheduler, flat DATAFLOW path (hls/src/scheduler/gpgpu_top.cpp):  *)
(* one barrierCore, one programLoader, and per compute unit a              *)
(* schedulerCore and a compute_pipeline, all free-running, joined by       *)
(* bounded FIFO streams, driven by a host through the start register.      *)
(*                                                                         *)
(* An action is one uninterrupted stretch of one process: it ends where    *)
(* the process next polls or writes a stream that another process uses, so *)
(* every interleaving of polls is a behaviour.  Program counters (b_pc,    *)
(* s_pc, c_pc) say where in its loop body a process is.  A write to a full *)
(* stream blocks: the action is not enabled.                               *)
(*                                                                         *)
(* Data: an instruction is "BARRIER", "HALT" or "OP" (the kernel is        *)
(* straight-line: VBRANCH masks lanes and BEQ/JAL do nothing); a register  *)
(* word is the number of the launch it was seeded for.                     *)
(***************************************************************************)
EXTENDS WarpSlots, Sequences, FiniteSets

CONSTANTS
    MAX_PROGRAM_LEN,    \* words of a CU's program store
    SEED_WORDS,         \* register words per slot (threads * registers)
    DISPATCH_DEPTH, STATUS_DEPTH, EVENTS_DEPTH, SIGNAL_DEPTH,
    SEED_DEPTH, LOADED_DEPTH,   \* stream depths
    Programs,           \* kernels the host may launch: sequences of Instr
    WarpCounts,         \* values the host may write to total_warps
    MAX_LAUNCHES,       \* bound on how often the host writes start = 1
    HOST_CLEARS         \* when the host writes start = 0

Instr == {"BARRIER", "HALT", "OP"}
NoInstr == "UNINIT"     \* a program-store word never written
NoLaunch == 0           \* a register word never seeded

ASSUME GpgpuTopAssumption ==
    /\ MAX_PROGRAM_LEN \in Nat \ {0}
    /\ SEED_WORDS \in Nat \ {0}
    /\ DISPATCH_DEPTH \in Nat \ {0}
    /\ STATUS_DEPTH \in Nat \ {0}
    /\ EVENTS_DEPTH \in Nat \ {0}
    /\ SIGNAL_DEPTH \in Nat \ {0}
    /\ SEED_DEPTH \in Nat \ {0}
    /\ LOADED_DEPTH \in Nat \ {0}
    /\ Programs \subseteq Seq(Instr)
    /\ WarpCounts \subseteq Nat
    /\ MAX_LAUNCHES \in Nat
    /\ HOST_CLEARS \in {"on_busy", "on_done", "any_time"}

VARIABLES
    \* registers the host writes
    start, total_warps, program, launches,
    \* registers the host reads, and barrierCore's own state
    busy, done, fault, barrier, b_pc, b_c,
    \* programLoader, the program store and the register files it fills
    loader, program_store, regs,
    \* schedulerCore, one per CU
    slots, busy_cu_scheduler, busy_cu, s_pc,
    \* compute_pipeline, one per CU
    executing, c_pc,
    \* streams, one of each kind per CU
    dispatch_out, status_in, barrier_events, barrier_signal,
    reg_seed, loaded_sig,
    \* history: which warps barrierCore has counted, and CU launches
    arrived, finished, cu_launch

hostVars == <<start, total_warps, program, launches>>
barrierVars == <<busy, done, fault, barrier, b_pc, b_c, arrived, finished>>
loaderVars == <<loader, program_store>>
schedVars == <<slots, busy_cu_scheduler, busy_cu, s_pc, cu_launch>>
computeVars == <<executing, c_pc, regs>>
streamVars == <<dispatch_out, status_in, barrier_events, barrier_signal,
                reg_seed, loaded_sig>>
vars == <<start, total_warps, program, launches,
          busy, done, fault, barrier, b_pc, b_c, arrived, finished,
          loader, program_store,
          slots, busy_cu_scheduler, busy_cu, s_pc, cu_launch,
          executing, c_pc, regs,
          dispatch_out, status_in, barrier_events, barrier_signal,
          reg_seed, loaded_sig>>

-----------------------------------------------------------------------------
(***************************************************************************)
(* Types                                                                   *)
(***************************************************************************)
Word == 0 .. SEED_WORDS - 1
ProgramAddr == 0 .. MAX_PROGRAM_LEN - 1
Launch == 0 .. MAX_LAUNCHES
NotExecuting == [slot_id |-> 0, warp_id |-> 0, resume_pc |-> 0,
                 fresh_launch |-> FALSE]

Dispatch == [slot_id: Slot, warp_id: Nat, resume_pc: Nat, fresh_launch: BOOLEAN]
Status == [slot_id: Slot, code: {"COMPLETE", "STALLED_AT_BARRIER"}, resume_pc: Nat]
\* Only `code` travels on the wire; slot_id is kept as history.
Event == [code: {"COMPLETE", "STALLED_AT_BARRIER"}, slot_id: Slot]
Signal == {"release", "kernel_done"}
Seed == [slot_id: Slot, word: Word, value: Launch]

\* The slots that hold a warp of a kernel of t warps.
WarpsOf(t) == {w \in CU \X Slot : LocalWarp(w[1], w[2]) < t}

\* Fault: off by one.
LaunchFaultTooLate(t) == t > Capacity + 1

LaunchFault(t) == t > Capacity

\* programLoader's locals at reset and whenever it has sampled start = 0.
LoaderIdle == [loaded |-> FALSE, load_idx |-> 0, regs_done |-> FALSE,
               seed_c |-> 0, seed_slot |-> 0, seed_i |-> 0, blocked |-> FALSE]
-----------------------------------------------------------------------------
Init ==
    /\ start = FALSE /\ total_warps = 0 /\ program = <<>> /\ launches = 0
    /\ busy = FALSE /\ done = FALSE /\ fault = FALSE
    /\ barrier = [total_warps |-> 0, stalled_count |-> 0, done_count |-> 0]
    /\ b_pc = "poll" /\ b_c = 0
    /\ arrived = {} /\ finished = {}
    /\ loader = LoaderIdle
    /\ program_store = [i \in ProgramAddr |-> NoInstr]
    /\ regs = [c \in CU |-> [s \in Slot |-> [i \in Word |-> NoLaunch]]]
    /\ slots = [c \in CU |-> [s \in Slot |-> NewSlot]]
    /\ busy_cu_scheduler = [c \in CU |-> FALSE]
    /\ busy_cu = [c \in CU |-> FALSE]
    /\ s_pc = [c \in CU |-> "dispatch"]
    /\ cu_launch = [c \in CU |-> 0]
    /\ executing = [c \in CU |-> NotExecuting]
    /\ c_pc = [c \in CU |-> "seed"]
    /\ dispatch_out = [c \in CU |-> <<>>]
    /\ status_in = [c \in CU |-> <<>>]
    /\ barrier_events = [c \in CU |-> <<>>]
    /\ barrier_signal = [c \in CU |-> <<>>]
    /\ reg_seed = [c \in CU |-> <<>>]
    /\ loaded_sig = [c \in CU |-> <<>>]
-----------------------------------------------------------------------------
(***************************************************************************)
(* The host.  Launch sequence of docs/hls/interfaces.md 10.10: write       *)
(* program and total_warps, write start = 1, poll until done or fault,     *)
(* repeat.  The register is a level the processes sample, so the host also *)
(* writes it back to 0; HOST_CLEARS says when.  In favour of the device,   *)
(* start is kept at 0 for long enough that programLoader samples it.       *)
(***************************************************************************)
HostStart(p, t) ==
    /\ ~start
    /\ launches < MAX_LAUNCHES
    /\ launches = 0 \/ done \/ fault
    /\ loader = LoaderIdle
    /\ start' = TRUE
    /\ program' = p
    /\ total_warps' = t
    /\ launches' = launches + 1
    /\ UNCHANGED <<barrierVars, loaderVars, schedVars, computeVars, streamVars>>

ClearWhen == [on_busy  |-> busy \/ done \/ fault,
              on_done  |-> done \/ fault,
              any_time |-> TRUE]

HostClear ==
    /\ start
    /\ ClearWhen[HOST_CLEARS]
    /\ start' = FALSE
    /\ UNCHANGED <<total_warps, program, launches>>
    /\ UNCHANGED <<barrierVars, loaderVars, schedVars, computeVars, streamVars>>
-----------------------------------------------------------------------------
(***************************************************************************)
(* barrierCore.  One pass polls each CU's event stream once, then tests    *)
(* for a release, then for the end of the kernel; the two broadcasts write *)
(* one stream after the other.                                             *)
(***************************************************************************)
BarrierLaunch ==
    /\ ~busy /\ b_pc = "poll" /\ start
    /\ barrier' = [total_warps |-> total_warps, stalled_count |-> 0, done_count |-> 0]
    /\ arrived' = {} /\ finished' = {}
    /\ fault' = (fault \/ LaunchFault(total_warps))
    /\ busy' = ~LaunchFault(total_warps)
    /\ b_c' = 0
    /\ UNCHANGED <<done, b_pc>>
    /\ UNCHANGED <<hostVars, loaderVars, schedVars, computeVars, streamVars>>

\* Fault: the loop over the CUs leaves out the last one.
NextCUSkipsLast(loop, end) ==
    IF b_c + 2 < NUM_CUS THEN b_c' = b_c + 1 /\ b_pc' = loop
                         ELSE b_c' = 0 /\ b_pc' = end

\* Where the loop over the CUs goes after CU b_c, ending at pc `end`.
NextCU(loop, end) ==
    IF b_c + 1 < NUM_CUS THEN b_c' = b_c + 1 /\ b_pc' = loop
                         ELSE b_c' = 0 /\ b_pc' = end

\* barrierOnEvent() on the event e of CU c.
OnEvent(c, e) ==
    IF e.code = "COMPLETE"
      THEN /\ barrier' = [barrier EXCEPT !.done_count = @ + 1]
           /\ finished' = finished \cup {<<c, e.slot_id>>}
           /\ UNCHANGED arrived
      ELSE /\ barrier' = [barrier EXCEPT !.stalled_count = @ + 1]
           /\ arrived' = arrived \cup {<<c, e.slot_id>>}
           /\ UNCHANGED finished

BarrierPollEvent ==
    /\ busy /\ b_pc = "poll"
    /\ barrier_events[b_c] # <<>>
    /\ OnEvent(b_c, Head(barrier_events[b_c]))
    /\ barrier_events' = [barrier_events EXCEPT ![b_c] = Tail(@)]
    /\ NextCU("poll", "ready")
    /\ UNCHANGED <<busy, done, fault, dispatch_out, status_in, barrier_signal,
                   reg_seed, loaded_sig>>
    /\ UNCHANGED <<hostVars, loaderVars, schedVars, computeVars>>

BarrierPollEmpty ==
    /\ busy /\ b_pc = "poll"
    /\ barrier_events[b_c] = <<>>
    /\ NextCU("poll", "ready")
    /\ UNCHANGED <<busy, done, fault, barrier, arrived, finished>>
    /\ UNCHANGED <<hostVars, loaderVars, schedVars, computeVars, streamVars>>

\* Fault: off by one.
ReleaseReadyTooEarly ==
    barrier.total_warps # 0 /\ barrier.stalled_count + 1 >= barrier.total_warps

\* Fault: the barrier of one CU's warps instead of the kernel's.
ReleaseReadyPerCU ==
    barrier.total_warps # 0 /\ barrier.stalled_count = MAX_WARPS_PER_CU

ReleaseReady == barrier.total_warps # 0 /\ barrier.stalled_count = barrier.total_warps

\* Fault: the count of the last barrier is kept.
AcknowledgeNothing == barrier

AcknowledgeRelease == [barrier EXCEPT !.stalled_count = 0]

BarrierTestRelease ==
    /\ b_pc = "ready"
    /\ IF ReleaseReady
         THEN /\ barrier' = AcknowledgeRelease
              /\ arrived' = {}
              /\ b_pc' = "release"
         ELSE /\ b_pc' = "complete"
              /\ UNCHANGED <<barrier, arrived>>
    /\ UNCHANGED <<busy, done, fault, b_c, finished>>
    /\ UNCHANGED <<hostVars, loaderVars, schedVars, computeVars, streamVars>>

\* Fault: off by one.
KernelCompleteTooEarly ==
    barrier.total_warps # 0 /\ barrier.done_count + 1 >= barrier.total_warps

KernelComplete == barrier.total_warps # 0 /\ barrier.done_count = barrier.total_warps

\* Fault: done is raised and kernel_done is never broadcast.
CompleteWithoutBroadcast ==
    /\ b_pc = "complete"
    /\ b_pc' = "poll"
    /\ IF KernelComplete THEN busy' = FALSE /\ done' = TRUE
                         ELSE UNCHANGED <<busy, done>>
    /\ UNCHANGED <<fault, barrier, b_c, arrived, finished>>
    /\ UNCHANGED <<hostVars, loaderVars, schedVars, computeVars, streamVars>>

\* barrierKernelComplete(); busy falls before the first kernel_done is written.
BarrierTestComplete ==
    /\ b_pc = "complete"
    /\ IF KernelComplete
         THEN busy' = FALSE /\ done' = TRUE /\ b_pc' = "kernel_done"
         ELSE b_pc' = "poll" /\ UNCHANGED <<busy, done>>
    /\ UNCHANGED <<fault, barrier, b_c, arrived, finished>>
    /\ UNCHANGED <<hostVars, loaderVars, schedVars, computeVars, streamVars>>

\* One write of SIGNAL_RELEASE or SIGNAL_DONE.
BarrierSignal(sig, end) ==
    /\ b_pc = sig
    /\ Len(barrier_signal[b_c]) < SIGNAL_DEPTH
    /\ barrier_signal' = [barrier_signal EXCEPT ![b_c] = Append(@, sig)]
    /\ NextCU(sig, end)
    /\ UNCHANGED <<busy, done, fault, barrier, arrived, finished>>
    /\ UNCHANGED <<dispatch_out, status_in, barrier_events, reg_seed, loaded_sig>>
    /\ UNCHANGED <<hostVars, loaderVars, schedVars, computeVars>>

BarrierCore ==
    \/ BarrierLaunch
    \/ BarrierPollEvent
    \/ BarrierPollEmpty
    \/ BarrierTestRelease
    \/ BarrierSignal("release", "complete")
    \/ BarrierTestComplete
    \/ BarrierSignal("kernel_done", "poll")
-----------------------------------------------------------------------------
(***************************************************************************)
(* programLoader.  seed_slot = MAX_WARPS_PER_CU stands for the point where *)
(* the last slot of CU seed_c is seeded and its loaded token is being      *)
(* written; blocked, the point inside seed_out.write() of a full stream,   *)
(* where start is not looked at.  It never looks at LaunchFault.           *)
(***************************************************************************)
LoaderReset ==
    /\ ~start /\ loader.seed_slot < MAX_WARPS_PER_CU /\ ~loader.blocked
    /\ loader # LoaderIdle
    /\ loader' = LoaderIdle
    /\ UNCHANGED program_store
    /\ UNCHANGED <<hostVars, barrierVars, schedVars, computeVars, streamVars>>

LoaderWord ==
    /\ start /\ ~loader.loaded
    /\ IF loader.load_idx < MAX_PROGRAM_LEN
         THEN /\ loader' = [loader EXCEPT !.load_idx = @ + 1]
              /\ program_store' = IF loader.load_idx < Len(program)
                   THEN [program_store EXCEPT
                            ![loader.load_idx] = program[loader.load_idx + 1]]
                   ELSE program_store
         ELSE /\ loader' = [loader EXCEPT !.loaded = TRUE]
              /\ UNCHANGED program_store
    /\ UNCHANGED <<hostVars, barrierVars, schedVars, computeVars, streamVars>>

\* Fault: off by one.
AdvanceSeedTooFar ==
    IF loader.seed_i < SEED_WORDS
      THEN [loader EXCEPT !.blocked = FALSE, !.seed_i = @ + 1]
      ELSE [loader EXCEPT !.blocked = FALSE, !.seed_i = 0, !.seed_slot = @ + 1]

\* ++seed_i, and ++seed_slot when it wraps.
AdvanceSeed ==
    IF loader.seed_i + 1 < SEED_WORDS
      THEN [loader EXCEPT !.blocked = FALSE, !.seed_i = @ + 1]
      ELSE [loader EXCEPT !.blocked = FALSE, !.seed_i = 0, !.seed_slot = @ + 1]

Seeding ==
    /\ loader.loaded /\ ~loader.regs_done
    /\ loader.seed_c < NUM_CUS

\* Fault: CU and slot exchanged.
SeedWarpExchanged == loader.seed_slot + loader.seed_c * NUM_CUS

\* programLoader's own local_w: seed_c is a uint8_t, not a cu_id_t.
SeedWarp == loader.seed_c + loader.seed_slot * NUM_CUS

LoaderBlock ==
    /\ start /\ ~loader.blocked /\ Seeding /\ loader.seed_slot < MAX_WARPS_PER_CU
    /\ SeedWarp < total_warps
    /\ Len(reg_seed[loader.seed_c]) >= SEED_DEPTH
    /\ loader' = [loader EXCEPT !.blocked = TRUE]
    /\ UNCHANGED program_store
    /\ UNCHANGED <<hostVars, barrierVars, schedVars, computeVars, streamVars>>

LoaderSeed ==
    /\ start \/ loader.blocked
    /\ Seeding /\ loader.seed_slot < MAX_WARPS_PER_CU
    /\ IF SeedWarp < total_warps
         THEN /\ Len(reg_seed[loader.seed_c]) < SEED_DEPTH
              /\ reg_seed' = [reg_seed EXCEPT ![loader.seed_c] =
                    Append(@, [slot_id |-> loader.seed_slot, word |-> loader.seed_i,
                               value |-> launches])]
         ELSE UNCHANGED reg_seed
    /\ loader' = AdvanceSeed
    /\ UNCHANGED <<program_store, dispatch_out, status_in, barrier_events,
                   barrier_signal, loaded_sig>>
    /\ UNCHANGED <<hostVars, barrierVars, schedVars, computeVars>>

LoaderToken ==
    /\ Seeding /\ loader.seed_slot = MAX_WARPS_PER_CU
    /\ Len(loaded_sig[loader.seed_c]) < LOADED_DEPTH
    /\ loaded_sig' = [loaded_sig EXCEPT ![loader.seed_c] = Append(@, TRUE)]
    /\ loader' = [loader EXCEPT !.seed_slot = 0, !.seed_c = @ + 1]
    /\ UNCHANGED <<program_store, dispatch_out, status_in, barrier_events,
                   barrier_signal, reg_seed>>
    /\ UNCHANGED <<hostVars, barrierVars, schedVars, computeVars>>

\* Fault: regs_done is not set, so the loader seeds the kernel again.
FinishWithoutRegsDone ==
    /\ start /\ loader.loaded /\ ~loader.regs_done
    /\ loader.seed_c = NUM_CUS
    /\ loader' = [loader EXCEPT !.seed_c = 0]
    /\ UNCHANGED program_store
    /\ UNCHANGED <<hostVars, barrierVars, schedVars, computeVars, streamVars>>

LoaderFinish ==
    /\ start /\ loader.loaded /\ ~loader.regs_done
    /\ loader.seed_c = NUM_CUS
    /\ loader' = [loader EXCEPT !.regs_done = TRUE, !.seed_c = 0]
    /\ UNCHANGED program_store
    /\ UNCHANGED <<hostVars, barrierVars, schedVars, computeVars, streamVars>>

ProgramLoader ==
    \/ LoaderReset
    \/ LoaderWord
    \/ LoaderBlock
    \/ LoaderSeed
    \/ LoaderToken
    \/ LoaderFinish
-----------------------------------------------------------------------------
(***************************************************************************)
(* schedulerCore of CU c.                                                  *)
(***************************************************************************)
\* IDLE: start and the size of the launch are looked at, then loaded_in is polled.
SchedSample(c) ==
    /\ ~busy_cu_scheduler[c] /\ s_pc[c] = "dispatch"
    /\ start /\ ~LaunchFault(total_warps)
    /\ s_pc' = [s_pc EXCEPT ![c] = "token"]
    /\ UNCHANGED <<slots, busy_cu_scheduler, busy_cu, cu_launch>>
    /\ UNCHANGED <<hostVars, barrierVars, loaderVars, computeVars, streamVars>>

SchedNoToken(c) ==
    /\ s_pc[c] = "token"
    /\ loaded_sig[c] = <<>>
    /\ s_pc' = [s_pc EXCEPT ![c] = "dispatch"]
    /\ UNCHANGED <<slots, busy_cu_scheduler, busy_cu, cu_launch>>
    /\ UNCHANGED <<hostVars, barrierVars, loaderVars, computeVars, streamVars>>

SchedLaunch(c) ==
    /\ s_pc[c] = "token"
    /\ loaded_sig[c] # <<>>
    /\ loaded_sig' = [loaded_sig EXCEPT ![c] = Tail(@)]
    /\ slots' = [slots EXCEPT ![c] = LaunchSlots(@, c, total_warps)]
    /\ busy_cu' = [busy_cu EXCEPT ![c] = FALSE]
    /\ busy_cu_scheduler' = [busy_cu_scheduler EXCEPT ![c] = TRUE]
    /\ cu_launch' = [cu_launch EXCEPT ![c] = launches]
    /\ s_pc' = [s_pc EXCEPT ![c] = "dispatch"]
    /\ UNCHANGED <<dispatch_out, status_in, barrier_events,
                   barrier_signal, reg_seed>>
    /\ UNCHANGED <<hostVars, barrierVars, loaderVars, computeVars>>

\* Fault: dispatch while a warp of this CU is still running.
CanDispatchWhileBusy(c, s) == IsNextReadySlot(slots[c], s)

CanDispatch(c, s) == ~busy_cu[c] /\ IsNextReadySlot(slots[c], s)

SchedDispatch(c, s) ==
    /\ busy_cu_scheduler[c] /\ s_pc[c] = "dispatch"
    /\ CanDispatch(c, s)
    /\ Len(dispatch_out[c]) < DISPATCH_DEPTH
    /\ dispatch_out' = [dispatch_out EXCEPT ![c] = Append(@, BuildDispatch(slots[c], s))]
    /\ slots' = [slots EXCEPT ![c] = ClearFresh(@, s)]
    /\ busy_cu' = [busy_cu EXCEPT ![c] = TRUE]
    /\ s_pc' = [s_pc EXCEPT ![c] = "status"]
    /\ UNCHANGED <<busy_cu_scheduler, cu_launch, status_in, barrier_events,
                   barrier_signal, reg_seed, loaded_sig>>
    /\ UNCHANGED <<hostVars, barrierVars, loaderVars, computeVars>>

SchedNoDispatch(c) ==
    /\ busy_cu_scheduler[c] /\ s_pc[c] = "dispatch"
    /\ busy_cu[c] \/ NoReadySlot(slots[c])
    /\ s_pc' = [s_pc EXCEPT ![c] = "status"]
    /\ UNCHANGED <<slots, busy_cu_scheduler, busy_cu, cu_launch>>
    /\ UNCHANGED <<hostVars, barrierVars, loaderVars, computeVars, streamVars>>

SchedStatus(c) ==
    /\ busy_cu_scheduler[c] /\ s_pc[c] = "status"
    /\ status_in[c] # <<>>
    /\ Len(barrier_events[c]) < EVENTS_DEPTH
    /\ LET st == Head(status_in[c]) IN
         /\ slots' = [slots EXCEPT ![c] = RecordResult(@, st)]
         /\ barrier_events' = [barrier_events EXCEPT ![c] =
                Append(@, [code |-> st.code, slot_id |-> st.slot_id])]
    /\ status_in' = [status_in EXCEPT ![c] = Tail(@)]
    /\ busy_cu' = [busy_cu EXCEPT ![c] = FALSE]
    /\ s_pc' = [s_pc EXCEPT ![c] = "signal"]
    /\ UNCHANGED <<busy_cu_scheduler, cu_launch, dispatch_out, barrier_signal,
                   reg_seed, loaded_sig>>
    /\ UNCHANGED <<hostVars, barrierVars, loaderVars, computeVars>>

SchedNoStatus(c) ==
    /\ busy_cu_scheduler[c] /\ s_pc[c] = "status"
    /\ status_in[c] = <<>>
    /\ s_pc' = [s_pc EXCEPT ![c] = "signal"]
    /\ UNCHANGED <<slots, busy_cu_scheduler, busy_cu, cu_launch>>
    /\ UNCHANGED <<hostVars, barrierVars, loaderVars, computeVars, streamVars>>

SchedSignal(c) ==
    /\ busy_cu_scheduler[c] /\ s_pc[c] = "signal"
    /\ barrier_signal[c] # <<>>
    /\ barrier_signal' = [barrier_signal EXCEPT ![c] = Tail(@)]
    /\ IF Head(barrier_signal[c]) = "release"
         THEN /\ slots' = [slots EXCEPT ![c] = ReleaseBarrierSlots(@)]
              /\ UNCHANGED busy_cu_scheduler
         ELSE /\ busy_cu_scheduler' = [busy_cu_scheduler EXCEPT ![c] = FALSE]
              /\ UNCHANGED slots
    /\ s_pc' = [s_pc EXCEPT ![c] = "dispatch"]
    /\ UNCHANGED <<busy_cu, cu_launch, dispatch_out, status_in, barrier_events,
                   reg_seed, loaded_sig>>
    /\ UNCHANGED <<hostVars, barrierVars, loaderVars, computeVars>>

SchedNoSignal(c) ==
    /\ busy_cu_scheduler[c] /\ s_pc[c] = "signal"
    /\ barrier_signal[c] = <<>>
    /\ s_pc' = [s_pc EXCEPT ![c] = "dispatch"]
    /\ UNCHANGED <<slots, busy_cu_scheduler, busy_cu, cu_launch>>
    /\ UNCHANGED <<hostVars, barrierVars, loaderVars, computeVars, streamVars>>

SchedulerCore(c) ==
    \/ SchedSample(c)
    \/ SchedNoToken(c)
    \/ SchedLaunch(c)
    \/ \E s \in Slot : SchedDispatch(c, s)
    \/ SchedNoDispatch(c)
    \/ SchedStatus(c)
    \/ SchedNoStatus(c)
    \/ SchedSignal(c)
    \/ SchedNoSignal(c)
-----------------------------------------------------------------------------
(***************************************************************************)
(* compute_pipeline of CU c.  The seed stream is polled first, the         *)
(* dispatch stream only when it was seen empty; executeOneWarp() runs from *)
(* resume_pc to the next BARRIER, to HALT or to the end of the program.    *)
(***************************************************************************)
ComputeSeed(c) ==
    /\ c_pc[c] = "seed" /\ reg_seed[c] # <<>>
    /\ LET s == Head(reg_seed[c]) IN
         regs' = [regs EXCEPT ![c][s.slot_id][s.word] = s.value]
    /\ reg_seed' = [reg_seed EXCEPT ![c] = Tail(@)]
    /\ UNCHANGED <<executing, c_pc, dispatch_out, status_in, barrier_events,
                   barrier_signal, loaded_sig>>
    /\ UNCHANGED <<hostVars, barrierVars, loaderVars, schedVars>>

ComputeNoSeed(c) ==
    /\ c_pc[c] = "seed" /\ reg_seed[c] = <<>>
    /\ c_pc' = [c_pc EXCEPT ![c] = "dispatch"]
    /\ UNCHANGED <<executing, regs>>
    /\ UNCHANGED <<hostVars, barrierVars, loaderVars, schedVars, streamVars>>

ComputeAccept(c) ==
    /\ c_pc[c] = "dispatch" /\ dispatch_out[c] # <<>>
    /\ executing' = [executing EXCEPT ![c] = Head(dispatch_out[c])]
    /\ dispatch_out' = [dispatch_out EXCEPT ![c] = Tail(@)]
    /\ c_pc' = [c_pc EXCEPT ![c] = "execute"]
    /\ UNCHANGED <<regs, status_in, barrier_events, barrier_signal, reg_seed,
                   loaded_sig>>
    /\ UNCHANGED <<hostVars, barrierVars, loaderVars, schedVars>>

ComputeNoDispatch(c) ==
    /\ c_pc[c] = "dispatch" /\ dispatch_out[c] = <<>>
    /\ c_pc' = [c_pc EXCEPT ![c] = "seed"]
    /\ UNCHANGED <<executing, regs>>
    /\ UNCHANGED <<hostVars, barrierVars, loaderVars, schedVars, streamVars>>

\* Execution from pc stops at a BARRIER in word i.
StopsAtBarrier(store, len, pc, i) ==
    /\ pc <= i /\ i < len
    /\ store[i] = "BARRIER"
    /\ \A j \in ProgramAddr : pc <= j /\ j < i => store[j] \notin {"BARRIER", "HALT"}

\* executeOneWarp(): the possible warp_status_t of a dispatch (there is one).
ExecuteOneWarp(d, store, len) ==
    LET stops == {i \in ProgramAddr : StopsAtBarrier(store, len, d.resume_pc, i)}
    IN  IF stops = {}
          THEN {[slot_id |-> d.slot_id, code |-> "COMPLETE", resume_pc |-> 0]}
          ELSE {[slot_id |-> d.slot_id, code |-> "STALLED_AT_BARRIER",
                 resume_pc |-> i + 1] : i \in stops}

ComputeExecute(c) ==
    /\ c_pc[c] = "execute"
    /\ Len(status_in[c]) < STATUS_DEPTH
    /\ \E st \in ExecuteOneWarp(executing[c], program_store, Len(program)) :
         status_in' = [status_in EXCEPT ![c] = Append(@, st)]
    /\ executing' = [executing EXCEPT ![c] = NotExecuting]
    /\ c_pc' = [c_pc EXCEPT ![c] = "seed"]
    /\ UNCHANGED <<regs, dispatch_out, barrier_events, barrier_signal, reg_seed,
                   loaded_sig>>
    /\ UNCHANGED <<hostVars, barrierVars, loaderVars, schedVars>>

ComputePipeline(c) ==
    \/ ComputeSeed(c)
    \/ ComputeNoSeed(c)
    \/ ComputeAccept(c)
    \/ ComputeNoDispatch(c)
    \/ ComputeExecute(c)
-----------------------------------------------------------------------------
Next ==
    \/ \E p \in Programs, t \in WarpCounts : HostStart(p, t)
    \/ HostClear
    \/ BarrierCore
    \/ ProgramLoader
    \/ \E c \in CU : SchedulerCore(c)
    \/ \E c \in CU : ComputePipeline(c)

Spec == Init /\ [][Next]_vars

(***************************************************************************)
(* Every process is a free-running loop (a DATAFLOW process in hardware, a *)
(* thread of its own in the tests), so each is scheduled weakly fairly.    *)
(* The host's clearing of start is fair too: it polls the status register. *)
(***************************************************************************)
Fairness ==
    /\ WF_vars(BarrierCore)
    /\ WF_vars(ProgramLoader)
    /\ \A c \in CU : WF_vars(SchedulerCore(c)) /\ WF_vars(ComputePipeline(c))
    /\ WF_vars(HostClear)

FairSpec == Spec /\ Fairness
=============================================================================
